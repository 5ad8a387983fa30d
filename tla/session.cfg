CONSTANTS
  Writer <- Tools
  RingSeq <- Rings
  RingOf <- ToolRings
  Ejected = {}
  Reader <- Client
  Target = "a"
  MaxUplink = 2
  MaxMessage = 2
  MaxSend <- SendsOf
  MaxBurst = 2
  Overlap = TRUE
  VSlot = {1, 2, 3}
  Accused = 1
  MinPass = 2
  Persons = 2
  fed = fed
  rom = rom
  one = one
  two = two
  UTeam <- TwoTeams
  Data <- TwoStates
  MaxFlight = 2
  Wrap = 16
  High = 11
  Low = 8
  Late = 3
  MaxSent = 22
  Conn = {1, 2}
  PName = {"m", "n"}
  Word = {"u", "v"}
  Knows <- KnowsOf
  Secret <- SecretOf
  MaxFile = 2
SPECIFICATION SessionSpec
SYMMETRY Symmetry
INVARIANTS
  RequeueInv  UpdInv RegInv
PROPERTIES SequenceKept
CHECK_DEADLOCK FALSE
