\* A pipe, the read end of another process's pipe, a local and a TCP socket; two threads.
CONSTANTS
  Threads = {m, t}
  Creator = m
  Kinds = {"pipe", "input", "local", "tcp"}
  Descriptors <- MCDescriptors
  Capacity = 1
  MaxLines = 3
  MaxHandles = 2
SPECIFICATION Spec
INVARIANTS
  TypeOK
  EndsMatchHandles
  NeverRobbed
  NoUseAfterDelete
PROPERTIES
  ReadEnds
  WriteEnds
\* The handles may all be dropped.
CHECK_DEADLOCK FALSE
