CONSTANTS
  Proc = {p1, p2, p3}
  Daemon = daemon
  MaxQueue = 2
  MaxWaiting = 2
  Room = 1
  None = None
  Overlap = TRUE
  Crashes = TRUE
SPECIFICATION Spec
INVARIANTS EntryExclusive EntryKept
CHECK_DEADLOCK FALSE
