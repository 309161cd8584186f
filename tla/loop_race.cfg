\* Interruptible ++ and -- of *references: the clients of example/messageloop/c.
CONSTANTS
  l = l
  p = p
  q = q
  a = a
  Threads = {l, p}
  Count = 2
  ShortMax = 3
  RefMod = 16
  Smp = TRUE
  Loop = l
  Aborters = {p}
  Nobody = Nobody
  NoElement = NoElement
  MaxPosts <- MCOnePost
  MaxAborts = 1
  AbortLast = TRUE
SPECIFICATION Spec
PROPERTY
  AbortEnds
CHECK_DEADLOCK FALSE
