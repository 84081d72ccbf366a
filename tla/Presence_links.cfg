SPECIFICATION FairSpec
CONSTANTS
  l1 = l1
  l2 = l2
  d1 = d1
  d2 = d2
  Links = {l1, l2}
  DeviceOf <- TwoPhones
  NameOf <- TwoNames
  LoopOf <- TwoNames
  Handed = {l2}
  MaxDevices = 4
  MaxErrors = 1
  None = None
INVARIANTS TypeOK SeenRightly
PROPERTIES DeviceStays ClosedLinksLeave
CHECK_DEADLOCK FALSE
