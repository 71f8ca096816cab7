SPECIFICATION FairSpec
CONSTANTS
  Callers = {"s1", "s2"}
  Outgoing <- Messages
  ReplyTo <- NoReplies
  Streams <- Silence
  BufLen = 16
  SyncLimit = 3
  Chunks = {1, 3}
  TtyOut = 3
  AddToCrc <- Crc16
  MaxResets = 1
CHECK_DEADLOCK FALSE
INVARIANT WrittenWhole
PROPERTIES SendReturns CancelReleases
