\* Threads that end in another order than the reverse of their creation.
CONSTANTS
  m = m
  t = t
  u = u
  Threads = {m, t, u}
  Blocks = {b1, b2, b3}
  Null = Null
  Main = m
  Master = x
  Nobody = Nobody
  HasAbort = {t, u}
  MaxExecutes <- MCOnce
  Careful = FALSE
SPECIFICATION Spec
INVARIANT
  Startable
CHECK_DEADLOCK FALSE
