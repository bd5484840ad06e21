SPECIFICATION FairSpec
CONSTANTS
  MaxPlayer = 2
  MaxTorp = 1
  MaxPlasma = 1
  Early = {}
INVARIANTS TypeOK Counted NoOverrun RejoinClean
PROPERTY DeadRejoins
