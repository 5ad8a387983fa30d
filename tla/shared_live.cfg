CONSTANTS
  Writer <- TwoPlayers
  RingSeq <- RingsVW
  RingOf <- PlayerRings
  Ejected = {"w"}
  Reader <- TwoReaders
  Target = "a"
  MaxUplink = 3
  MaxMessage = 5
  MaxSend <- SendVW
  MaxBurst = 2
  Overlap = FALSE
  NPlayer = 1
  MaxTorp = 1
  Armed = {}
  Att = {}
  CountCap = 1
SPECIFICATION SharedSpec
INVARIANTS OrderKept ReadersFollow StaysInArray
PROPERTIES AllDelivered SlotFreed
CHECK_DEADLOCK FALSE
