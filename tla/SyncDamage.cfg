SPECIFICATION Spec
CONSTANTS
  a = a
  b = b
  Journal = Journal
  Ledger = Ledger
  StatsDate = StatsDate
  Achievements = Achievements
  None = None
  Device = {a, b}
  KindOrder <- MergedFiles
  Chunks <- LongAchievements
  MergeKinds = {StatsDate, Achievements}
  AwardKind = Achievements
  MaxVersion = 1
  QueueCap = 1
  Starters = {a, b}
  Foreign = {}
  Env = {"Loss", "BadWrite", "PowerLoss", "Fault", "Unreadable", "Unlock"}
CHECK_DEADLOCK FALSE
INVARIANTS
  SavedWhole
  DatesConverge
PROPERTIES
  NeverRollsBack
  Implements
