CONSTANTS
  Captain <- Trio
  BaseSlot <- Bases
  NUMBAYS = 1
  Side <- Sides
  p_team <- SideOf
  BeamSlot = {0}
  Ward = {2}
  Warrior = {0, 2}
  MayTear = TRUE
  InlSide = {0, 1, 2}
  InlTerm = {1, 2}
  Seats = 3
  MaxTurnover = 2
SPECIFICATION PlacesSpec
INVARIANTS
  BaysInv SetupInv DraftInv
CHECK_DEADLOCK FALSE
