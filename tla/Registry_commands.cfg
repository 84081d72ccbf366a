SPECIFICATION Spec
CONSTANTS
  p1 = p1
  p2 = p2
  p3 = p3
  u1 = u1
  u2 = u2
  Procs = {p1, p2, p3}
  Users = {u1, u2}
  phone = phone
  Labels <- PhoneOrTwo
  MaxFaults = 1
  None = None
INVARIANTS TypeOK ReportsHold RemovedIsMeant PinFollowsAdd
SYMMETRY Alike
CHECK_DEADLOCK FALSE
