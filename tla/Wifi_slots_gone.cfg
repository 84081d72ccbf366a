SPECIFICATION FairSpec
CONSTANTS
  Computers = {m1}
  Conns = {c1, c2, c3, c4, c5}
  Slots = 4
  MaxPairings = 0
  MaxUses = 0
  MaxVanished = 4
  None = None
PROPERTIES Reconnects
CHECK_DEADLOCK FALSE
