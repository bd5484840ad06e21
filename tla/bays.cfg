CONSTANTS
  MaxPlayer = 3
  NumBays = 2
  Vacant = Vacant
  Chaos = TRUE
  BaseLeaves = FALSE
SPECIFICATION Spec
INVARIANTS HoldsBay NoBayLost ClosedIsEmpty
