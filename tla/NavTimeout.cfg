CONSTANTS
  MaxScreens = 5
  MaxDepth = 1
  Env <- TimeoutOnly
  None = None
SPECIFICATION Spec
INVARIANTS RenderedMeansShown
