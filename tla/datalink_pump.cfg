SPECIFICATION FairSpec
CONSTANTS
  Callers = {"s1"}
  Outgoing <- TwoMessages
  ReplyTo <- AcknowledgeA
  Streams <- OneFrame
  BufLen = 16
  SyncLimit = 15
  Chunks = {1, 3}
  TtyOut = 4
  AddToCrc <- Crc16
  MaxResets = 0
CHECK_DEADLOCK FALSE
PROPERTY TargetReturns
