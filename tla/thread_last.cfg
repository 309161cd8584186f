\* The last thread may end before zs__execute waits.
CONSTANTS
  m = m
  t = t
  u = u
  Threads = {m, t}
  Blocks = {b1, b2}
  Null = Null
  Main = m
  Master = x
  Nobody = Nobody
  HasAbort = {t}
  MaxExecutes <- MCOnce
  Careful = TRUE
SPECIFICATION EndingSpec
PROPERTY
  ExecuteReturns
CHECK_DEADLOCK FALSE
