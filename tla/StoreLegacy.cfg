CONSTANTS
  LegacyCards <- OldCard
  MaxStamp = 4
  Env = {"PowerLoss"}
  None = None
SPECIFICATION Spec
INVARIANTS
  ExistingDuetStateWins
