CONSTANTS
  a = a
  b = b
  c = c
  Daemon = Daemon
  None = None
  Proc <- ThreeProcs
  MaxWaiting = 2
  NSlots = 1
  Overlap = FALSE
  KillAnywhere = FALSE
SPECIFICATION LiveSpec
INVARIANT QueueInv
PROPERTIES Fair DeadRemoved WaiterServed
CHECK_DEADLOCK FALSE
