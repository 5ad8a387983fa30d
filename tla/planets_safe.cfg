CONSTANTS
  f = f
  o = o
  f1 = f1
  f2 = f2
  o1 = o1
  p = p
  q = q
  None = None
  Team <- Teams
  Ori = o
  Planet <- ThreePlanets
  PartOf <- Parts
  HomePlanet <- Home
  Player <- TwoPlayers
  Garrison = 2
  MaxBomb = 1
  MaxCarry = 1
  TopArmies = 2
  MaxGrowth = 1
  PlagueScale = 5
  Defenders = 1
  SurrenderStart = 1
  Surrend = 2
  SurrLength = 2
  Victory = 2
  CoupTimes <- OneMinute
  MaxArmies = 3
SPECIFICATION Spec
SYMMETRY Symmetry
INVARIANTS OwnedIffArmed NoUnjustCountdown ConquestIsDue
CHECK_DEADLOCK FALSE
