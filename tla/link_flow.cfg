SPECIFICATION ConnectedSpec
CONSTANTS
  Sessions = {"s"}
  NSession = 1
  PeerScript <- FlowScript
  ChanOf <- SameChannel
  Channels <- OneChannel
  Oversize = {1}
  PeerTypes = {"SIBO"}
  SiboMod = 4
  EpocMod = 4
  SiboWindow = 1
  EpocWindow = 2
  ReqTries = 1
  DataTries = 1
  LineCap = 2
  AutoExit = TRUE
  Lossy = TRUE
  MaxFaults = 0
  MaxStamp = 30
CHECK_DEADLOCK FALSE
INVARIANTS NcpInOrder NoItemLost HeldOnlyWhileStopped
PROPERTY AckedIsDelivered
