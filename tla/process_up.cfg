\* Two calls at the same time, one mutex is taken.
CONSTANTS
  p = p
  q = q
  Calls = {p, q}
  Parent = Parent
  Descriptors <- MCDescriptors
  Starts <- MCStarts
  MaxLocks = 1
SPECIFICATION Spec
INVARIANTS
  TypeOK
  Isolated
  Redirected
  AbortsExplained
PROPERTIES
  EndOfFile
  CallEnds
\* The calls end, or an abort ends the process.
CHECK_DEADLOCK FALSE
