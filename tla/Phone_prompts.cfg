SPECIFICATION FairSpec
CONSTANTS
  c1 = c1
  c2 = c2
  Conns = {c1, c2}
  MaxRequests = 2
  Loads <- TwoRequests
  MayLose = {c1}
  MayReject = TRUE
  Overlay = TRUE
  None = None
INVARIANTS TypeOK LatestCancelCounts PromptHasOwner
PROPERTIES KeepsBook
CHECK_DEADLOCK FALSE
