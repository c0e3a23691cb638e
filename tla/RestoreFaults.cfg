SPECIFICATION MCSpec
CONSTANTS
  File <- AllFiles
  Synced <- PeerFiles
  Preserved <- Ledger
  Legacy <- BookFiles
  Version <- Sources
  Newer = "newer"
  MaxEntries = 3
  MaxRestores = 2
  MaxFaults = 2
  Env = {"Fault", "PowerLoss", "Read"}
  None = None
INVARIANTS
  TypeOK
  NothingLost
  RolledBack
  RestoredIsArchive
  SafetyKept
  NoFalseRefusal
CHECK_DEADLOCK FALSE
