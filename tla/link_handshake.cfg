SPECIFICATION FairSpec
CONSTANTS
  Sessions = {"s"}
  NSession = 0
  PeerScript <- NoScript
  ChanOf <- SameChannel
  Channels <- OneChannel
  Oversize = {}
  PeerTypes = {"SIBO", "EPOC"}
  SiboMod = 4
  EpocMod = 4
  SiboWindow = 1
  EpocWindow = 2
  ReqTries = 1
  DataTries = 0
  LineCap = 1
  AutoExit = FALSE
  Lossy = FALSE
  MaxFaults = 2
  MaxStamp = 30
CHECK_DEADLOCK FALSE
PROPERTY Settles
