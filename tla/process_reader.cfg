\* A ZSProcess with a reader, as in example/process/cpp.
CONSTANTS
  p = p
  q = q
  Calls = {p, q}
  Parent = Parent
  Descriptors <- MCDescriptors
  Starts <- MCReader
  MaxLocks = 1
SPECIFICATION Spec
INVARIANT
  OutputArrives
CHECK_DEADLOCK FALSE
