CONSTANTS
  MaxScreens = 6
  MaxDepth = 1
  Env <- AllEvents
  None = None
SPECIFICATION FairSpec
INVARIANTS TypeOK OnlyCurrentIsDrawn PendingMatchesAction ResultsReachTheirLauncher ConfirmedWhileInTime
PROPERTIES ChangesAreDrawn WaitsEnd
