CONSTANTS
  NPlayer = 2
  MaxTorp = 1
  Armed = {0}
  Att = {0}
  CountCap = 1
SPECIFICATION SamePlayers
INVARIANT OwnSlots
