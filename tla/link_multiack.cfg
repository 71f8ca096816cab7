SPECIFICATION ConnectedSpec
CONSTANTS
  Sessions = {"s"}
  NSession = 2
  PeerScript <- NoScript
  ChanOf <- SameChannel
  Channels <- OneChannel
  Oversize = {}
  PeerTypes = {"EPOC"}
  SiboMod = 4
  EpocMod = 4
  SiboWindow = 1
  EpocWindow = 2
  ReqTries = 1
  DataTries = 1
  LineCap = 2
  AutoExit = TRUE
  Lossy = TRUE
  MaxFaults = 0
  MaxStamp = 30
CHECK_DEADLOCK FALSE
PROPERTY AckedIsDelivered
