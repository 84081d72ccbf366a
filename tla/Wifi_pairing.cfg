SPECIFICATION FairSpec
CONSTANTS
  Computers = {m1}
  Conns = {c1, c2, c3}
  Slots = 2
  MaxPairings = 1
  MaxUses = 2
  MaxVanished = 1
  None = None
INVARIANTS TypeOK OnlyPairedServed
PROPERTIES UnpairedLeaves Reconnects
CHECK_DEADLOCK FALSE
