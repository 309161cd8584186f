\* Clients that keep the rules of ZsThread; t may be executed twice.
CONSTANTS
  m = m
  t = t
  u = u
  Threads = {m, t, u}
  Blocks = {b1, b2, b3}
  Null = Null
  Main = m
  Master = x
  Nobody = Nobody
  HasAbort = {t}
  MaxExecutes <- MCTwice
  Careful = TRUE
SPECIFICATION Spec
INVARIANTS
  TypeOK
  MapExact
  LifeInOrder
  CarefulFaults
PROPERTIES
  MapReleased
  WaitEndsOrFault
\* The functions of the threads need not end.
CHECK_DEADLOCK FALSE
