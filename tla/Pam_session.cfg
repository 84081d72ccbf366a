SPECIFICATION FairSpec
CONSTANTS
  MaxTries = 3
  Modes = {"parallel", "on-empty"}
INVARIANTS TypeOK ResultIsEarned NothingLeft
PROPERTIES CallEnds
CHECK_DEADLOCK FALSE
