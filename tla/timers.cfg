CONSTANTS
  WarDelay = 2
  RefitDelay = 1
  DestDelay = 1
  EtempLimit = 2
  Victim <- Victims
  Fuse = {2, 4}
  FuseFloor = 2
  MaxAsks = 2
  TTeam = {1, 2, 4}
  TournPlayers = 2
  TeamSize = 2
  StartFuse = 1
  PauseFuse = 1
  Regulation = 2
  Overtime = 1
  ExtraTime = 1
  MaxExtra = 2
  Seats = 3
  MaxTurnover = 1
SPECIFICATION TimersSpec
INVARIANTS
  HelmInv PhInv ConnInv TournInv GameInv
PROPERTIES ControlReturns ServerFollows TournComes GameEnds DraftEnds
CHECK_DEADLOCK FALSE
