\* A server with two descriptors, a client and a callback that abort.
CONSTANTS
  Files = {"socket", "pipe"}
  Dues <- MCDues
  MaxRegistrations = 4
  Kinds = {"tcp", "udp"}
  Server = s
  Clients = {t}
  Nobody = Nobody
  Backlog = 2
  MaxOpen = 2
  BufferSize = 2
  Sizes <- MCSizes
  MaxConnects = 4
  MaxAborts = 2
  Withdrawable = TRUE
SPECIFICATION Spec
INVARIANTS
  TypeOK
  WaitMatchesReference
  OneAbortIsSafe
  EachInItsTurn
  DatagramsRead
PROPERTIES
  ServerEnds
  ConnectionsTaken
\* The server ends, or waits for connections that do not come.
CHECK_DEADLOCK FALSE
