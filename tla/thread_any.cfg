\* Clients that call what they like; only u has an abort function.
CONSTANTS
  m = m
  t = t
  u = u
  Threads = {m, t, u}
  Blocks = {b1, b2, b3}
  Null = Null
  Main = m
  Master = x
  Nobody = Nobody
  HasAbort = {u}
  MaxExecutes <- MCOnce
  Careful = FALSE
SPECIFICATION Spec
SYMMETRY BlockSymmetry
INVARIANTS
  MasterLast
CHECK_DEADLOCK FALSE
