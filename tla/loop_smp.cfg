\* Accesses to *references are interruptible, and posts may follow the abort:
\* what stays true of the queue whatever happens to the semaphore set.
CONSTANTS
  l = l
  p = p
  q = q
  a = a
  Threads = {l, p}
  Count = 2
  ShortMax = 7
  RefMod = 16
  Smp = TRUE
  Loop = l
  Aborters = {l, p}
  Nobody = Nobody
  NoElement = NoElement
  MaxPosts <- MCMaxPosts
  MaxAborts = 2
  AbortLast = FALSE
SPECIFICATION Spec
INVARIANTS
  Exclusive
  Drained
PROPERTY
  QueueSafety
CHECK_DEADLOCK FALSE
