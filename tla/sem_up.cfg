\* ++ and -- of *references are interruptible.
CONSTANTS
  Threads = {t1, t2}
  Count = 2
  ShortMax = 3
  RefMod = 16
  Smp = TRUE
  Handles = {h1, h2, h3}
  NoHandle = NoHandle
  Initial <- MCInitial
  OpArgs <- MCOpArgs
  SetArgs <- MCSetArgs
SPECIFICATION Spec
SYMMETRY Symmetry
\* What follows a race of two updates is the subject of loop_race.
CONSTRAINT Unraced
INVARIANTS
  TypeOK
  ReferencesCountHandles
  NotRemovedInUse
  LastDestroyRemoves
\* Clients may all wait for a value nobody adds.
CHECK_DEADLOCK FALSE
