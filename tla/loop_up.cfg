\* One processor; the abort is the last call.  The poster q and the loop
\* abort.  Semaphore 1 is full with two messages: a post or the abort may wait for room.
CONSTANTS
  l = l
  p = p
  q = q
  a = a
  Threads = {l, p, q}
  Count = 2
  ShortMax = 2
  RefMod = 16
  Smp = FALSE
  Loop = l
  Aborters = {l, q}
  Nobody = Nobody
  NoElement = NoElement
  MaxPosts <- MCMaxPosts
  MaxAborts = 1
  AbortLast = TRUE
SPECIFICATION Spec
INVARIANTS
  TypeOK
  Tokens
  InOrder
  NoUseAfterFree
  NoLeak
PROPERTIES
  OnlyFullStops
  QueueLives
\* The posts are bounded and the loop ends: the system stops.
CHECK_DEADLOCK FALSE
