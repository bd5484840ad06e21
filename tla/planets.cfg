SPECIFICATION Spec
CONSTANTS
  f1 = f1
  f2 = f2
  o1 = o1
  s1 = s1
  s2 = s2
  Planet = {f1, f2, o1}
  Ship = {s1, s2}
  Team = {"FED", "ORI"}
  Nobody = "NOBODY"
  System <- MCSystem
  Home <- MCHome
  Unowned = "ORI"
  Garrison = 2
  TopArmies = 2
  Hold = 1
  SurrenderStart = 1
  Surrend = 3
  SurrLength = 1
  CoupMinutes = 1
  Victory = 2
  PlagueScale = 5
  MaxArmies = 3
SYMMETRY ShipSymmetry
INVARIANTS TypeOK OwnedHasArmies CountFresh Sustained
PROPERTIES FallNoticed
