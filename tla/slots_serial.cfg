CONSTANTS
  pickup = pickup
  home = home
  Proc = {p1, p2, p3}
  Daemon = daemon
  Slot = {1, 2}
  Queue = {pickup, home}
  Pickup = pickup
  Scan <- MCScan
  None = None
  Overlap = FALSE
  Busts = 1
  Crashes = FALSE
SPECIFICATION Spec
INVARIANTS SemGivenBack NoCapacityLost OwnerKnown
CHECK_DEADLOCK FALSE
