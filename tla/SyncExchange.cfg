SPECIFICATION FairSpec
CONSTANTS
  a = a
  b = b
  Journal = Journal
  Ledger = Ledger
  StatsDate = StatsDate
  Achievements = Achievements
  None = None
  Device = {a, b}
  KindOrder <- ThreeFiles
  Chunks <- EmptyLedger
  MergeKinds = {StatsDate}
  AwardKind = None
  MaxVersion = 1
  QueueCap = 2
  Starters = {a, b}
  Foreign = {}
  Env = {"Loss", "Clear"}
CHECK_DEADLOCK FALSE
INVARIANTS
  TypeOK
  StopAndWait
  NoFalseFailure
  SyncedMeansDelivered
PROPERTIES
  StartedSyncCompletes
