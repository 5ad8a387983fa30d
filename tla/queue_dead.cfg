CONSTANTS
  a = a
  b = b
  c = c
  Daemon = Daemon
  None = None
  Proc <- TwoProcs
  MaxWaiting = 2
  NSlots = 0
  Overlap = FALSE
  KillAnywhere = TRUE
SPECIFICATION LiveSpec
PROPERTY DeadRemoved
CHECK_DEADLOCK FALSE
