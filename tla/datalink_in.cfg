SPECIFICATION FairSpec
CONSTANTS
  Callers = {"s1"}
  Outgoing <- OneMessage
  ReplyTo <- AcknowledgeE
  Streams <- UsualStreams
  BufLen = 32
  SyncLimit = 4
  Chunks = {1, 10}
  TtyOut = 4
  AddToCrc <- Crc16
  MaxResets = 0
CHECK_DEADLOCK FALSE
INVARIANTS TypeOK FramesIntact
PROPERTY FramesArrive
