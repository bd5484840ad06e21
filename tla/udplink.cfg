SPECIFICATION FairSpec
CONSTANTS
  ClientPorts = {1, 2}
  ServerPorts = {11, 12}
  Closed = 0
  MayFail = FALSE
  MaxRequests = 3
  MaxDatagrams = 2
INVARIANTS TypeOK ServerModeHasSocket IdleAccepts Recovers
PROPERTY SwitchEnds
CHECK_DEADLOCK FALSE
