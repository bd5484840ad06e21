CONSTANTS
  pickup = pickup
  home = home
  Proc = {p1, p2}
  Daemon = daemon
  Slot = {1}
  Queue = {pickup}
  Pickup = pickup
  Scan <- MCScan
  None = None
  Overlap = TRUE
  Busts = 1
  Crashes = TRUE
SPECIFICATION FairSpec
INVARIANTS TypeOK SlotExclusive
PROPERTY DeadSlotReaped
CHECK_DEADLOCK FALSE
