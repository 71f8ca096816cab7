SPECIFICATION ConnectedSpec
CONSTANTS
  Sessions = {"s"}
  NSession = 4
  PeerScript <- NoScript
  ChanOf <- SameChannel
  Channels <- OneChannel
  Oversize = {}
  PeerTypes = {"EPOC"}
  SiboMod = 4
  EpocMod = 5
  SiboWindow = 1
  EpocWindow = 2
  ReqTries = 1
  DataTries = 1
  LineCap = 1
  AutoExit = TRUE
  Lossy = TRUE
  MaxFaults = 0
  MaxStamp = 9
CHECK_DEADLOCK FALSE
INVARIANTS TypeOK WindowBound PeerNoDuplicates
PROPERTY Settles
