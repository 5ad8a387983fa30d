CONSTANTS
  Free = Free
  Daemon = Daemon
  Proc = {a, b}
  NSlots = 1
  SemFloor = 1
  CountFloor = 0
  CountCap = 2
  MaxKills = 1
SPECIFICATION FairSpec
PROPERTIES OrphanReclaimed LockReleased TermEnds
CHECK_DEADLOCK FALSE
