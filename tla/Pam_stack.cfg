SPECIFICATION Spec
CONSTANTS
  p1 = p1
  p2 = p2
  p3 = p3
  Procs = {p1, p2, p3}
  Services = 2
  Stacks <- Several
  MaxFaults = 1
  MaxEdits = 1
  None = None
INVARIANTS StackTypeOK StackRestored PasskeyFirst
SYMMETRY Commands
CHECK_DEADLOCK FALSE
