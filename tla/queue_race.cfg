CONSTANTS
  a = a
  b = b
  c = c
  Daemon = Daemon
  None = None
  Proc <- TwoProcs
  MaxWaiting = 2
  NSlots = 1
  Overlap = TRUE
  KillAnywhere = TRUE
SPECIFICATION Spec
INVARIANTS EntryExclusive NeverLost
SYMMETRY Symmetry2
CHECK_DEADLOCK FALSE
