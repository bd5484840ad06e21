CONSTANTS
  Proc = {p1, p2, p3, p4}
  Daemon = daemon
  MaxQueue = 2
  MaxWaiting = 3
  Room = 1
  None = None
  Overlap = FALSE
  Crashes = FALSE
SPECIFICATION FairSpec
INVARIANTS TypeOK ListsHoldLines NoListError
PROPERTIES ServedInOrder EveryoneServed
CHECK_DEADLOCK FALSE
