SPECIFICATION Spec
CONSTANTS
  l1 = l1
  l2 = l2
  l3 = l3
  d1 = d1
  d2 = d2
  Links = {l1, l3}
  Devices = {d1, d2}
  DeviceOf <- TwoPhones
  Priority <- Transport
  Channels = {c1}
  Kinds = {"assert", "info"}
  Signals = {"cancel", "init", "close"}
  Replies = {"ok"}
  Choosable = {}
  MaxRequests = 1
  MaxFailures = 1
  MayReplace = TRUE
  None = None
INVARIANTS NoOrphanPrompt LossNoticed
PROPERTIES CancelReachesWaited
CHECK_DEADLOCK FALSE
