SPECIFICATION Spec
CONSTANTS
  a = a
  b = b
  Journal = Journal
  Ledger = Ledger
  StatsDate = StatsDate
  Achievements = Achievements
  None = None
  Device = {a, b}
  KindOrder <- JournalOnly
  Chunks <- OnePiece
  MergeKinds = {}
  AwardKind = None
  MaxVersion = 1
  QueueCap = 1
  Starters = {a}
  Foreign = {b}
  Env = {"Loss", "Leave", "Read", "Resync", "Abort", "Timeout", "BadWrite"}
CHECK_DEADLOCK FALSE
INVARIANTS
  SavedIsThePeers
  ForeignRefused
PROPERTIES
  KeepsPriorSnapshot
  Implements
