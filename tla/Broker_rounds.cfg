SPECIFICATION Spec
CONSTANTS
  l1 = l1
  l2 = l2
  l3 = l3
  d1 = d1
  d2 = d2
  Links = {l1, l2, l3}
  Devices = {d1, d2}
  DeviceOf <- TwoPhones
  Priority <- Transport
  Channels = {c1}
  Kinds = {"probe", "assert", "next"}
  Signals = {}
  Replies = {"ok", "denied", "nocred"}
  Choosable = {d1}
  MaxRequests = 2
  MaxFailures = 0
  MayReplace = FALSE
  None = None
INVARIANTS TypeOK OnePromptPerDevice
PROPERTIES NoAskAfterDecision
CHECK_DEADLOCK FALSE
