SPECIFICATION FairSpec
CONSTANTS
  MaxPlayer = 4
  Nobody = "NOBODY"
  MaxLosses = 1
  MaxArrivals = 1
  MaxDrafts = 1
INVARIANTS TypeOK TeamedAtEnd PlacesDistinct
PROPERTIES TakeTurns HomeEnds
CHECK_DEADLOCK FALSE
