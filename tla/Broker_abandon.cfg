SPECIFICATION FairSpec
CONSTANTS
  l1 = l1
  l2 = l2
  l3 = l3
  d1 = d1
  d2 = d2
  Links = {l1}
  Devices = {d1, d2}
  DeviceOf <- TwoPhones
  Priority <- Transport
  Channels = {c1, c2}
  Kinds = {"make"}
  Signals = {"init"}
  Replies = {"ok"}
  Choosable = {}
  MaxRequests = 2
  MaxFailures = 0
  MayReplace = FALSE
  None = None
INVARIANTS BusyHasWorker SuccessIsApproved AnswerKept
PROPERTIES KeepsExchange
CHECK_DEADLOCK FALSE
