CONSTANTS
  MaxPlayer = 3
  NumBays = 2
  Vacant = Vacant
  Chaos = TRUE
  BaseLeaves = TRUE
SPECIFICATION Spec
INVARIANT FreedSlotClean
