SPECIFICATION Spec
CONSTANTS
  c1 = c1
  c2 = c2
  u1 = u1
  u2 = u2
  Conns = {c1, c2}
  Sites = {s1, s2}
  Users = {u1, u2}
  MaxKeys = 2
  MaxCount = 2
  None = None
INVARIANTS TypeOK CounterFresh StoresAgree
PROPERTIES ConsentCovers
SYMMETRY Alike
CHECK_DEADLOCK FALSE
