SPECIFICATION Spec
CONSTANTS
  novel = novel
  comic = comic
  essay = essay
  earlier = earlier
  today = today
  None = None
  Book = {novel, comic, essay}
  Format <- Formats
  Day = {earlier, today}
  Today = today
  Peers <- EarlierPeer
  PeersDone = {comic}
  PeersDated = {comic}
  Ignored = {essay}
  Onward = FALSE
  MaxTime = 2
  MaxFaults = 1
CHECK_DEADLOCK FALSE
INVARIANTS
  TypeOK
  LedgerKept
  MinutesKept
  CompletionsKept
  ReaderSeesEdits
  CorrectionAtomic
  NotOverdrawn
