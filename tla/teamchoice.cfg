SPECIFICATION Spec
CONSTANTS
  All = All
  Full = 3
  Crowd = 2
  TournPlayers = 2
  Seats = 6
  CheckScum = TRUE
  Hopefuls = 2
  Fallen = 1
INVARIANTS TypeOK DiagonalsApart NobodyShutOut KeepsPlace
