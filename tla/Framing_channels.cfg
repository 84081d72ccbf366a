SPECIFICATION FairSpec
CONSTANTS
  Channels = {c1, c2}
  InitBit = 2
  Lengths = {1, 3}
  ReplyLengths = {2, 4}
  MaxMessages = 3
  None = None
INVARIANTS TypeOK MessagesKept
PROPERTIES ReplyComes
CHECK_DEADLOCK FALSE
