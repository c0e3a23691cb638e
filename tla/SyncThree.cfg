SPECIFICATION Spec
CONSTANTS
  a = a
  b = b
  c = c
  Journal = Journal
  Ledger = Ledger
  StatsDate = StatsDate
  Achievements = Achievements
  None = None
  Device = {a, b, c}
  KindOrder <- JournalOnly
  Chunks <- OnePiece
  MergeKinds = {}
  AwardKind = None
  MaxVersion = 0
  QueueCap = 2
  Starters = {a, b, c}
  Foreign = {}
  Env = {}
CHECK_DEADLOCK FALSE
INVARIANTS
  SavedIsThePeers
