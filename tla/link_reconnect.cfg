SPECIFICATION FairSpec
CONSTANTS
  Sessions = {"s"}
  NSession = 0
  PeerScript <- NoScript
  ChanOf <- SameChannel
  Channels <- OneChannel
  Oversize = {}
  PeerTypes = {"EPOC"}
  SiboMod = 4
  EpocMod = 4
  SiboWindow = 1
  EpocWindow = 2
  ReqTries = 1
  DataTries = 1
  LineCap = 2
  AutoExit = FALSE
  Lossy = FALSE
  MaxFaults = 1
  MaxStamp = 30
CHECK_DEADLOCK FALSE
INVARIANT AttemptsToReconnect
