CONSTANTS
  a = a
  b = b
  c = c
  Free = Free
  Daemon = Daemon
  Proc <- TwoProcs
  NSlots = 2
  SemFloor = 1
  CountFloor = 1
  CountCap = 3
  MaxKills = 2
SYMMETRY Symmetry2
SPECIFICATION HSpec
INVARIANTS SlotExclusive SessionOwnsSlot
CHECK_DEADLOCK FALSE
