CONSTANTS
  NPlayer = 2
  MaxTorp = 1
  Armed = {0}
  CountCap = 1
  Att = {}
SPECIFICATION UntilRaced
INVARIANTS CountExact TorpsInv
PROPERTY ComesBack
CHECK_DEADLOCK FALSE
