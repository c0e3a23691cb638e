SPECIFICATION LoopSpec
CONSTANTS
  a = a
  b = b
  Journal = Journal
  Ledger = Ledger
  StatsDate = StatsDate
  Achievements = Achievements
  None = None
  Device = {a, b}
  KindOrder <- JournalOnly
  Chunks <- OnePiece
  MergeKinds = {}
  AwardKind = None
  MaxVersion = 0
  QueueCap = 3
  Starters = {a}
  Foreign = {}
  Env = {"Loss", "Clear", "Leave", "Timeout"}
CHECK_DEADLOCK FALSE
PROPERTIES
  NoEndlessSync
