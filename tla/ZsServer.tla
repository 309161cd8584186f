------------------------------ MODULE ZsServer -------------------------------
(***************************************************************************)
(* The servers of lib/zslib.c: a thread that waits with zs__wait_do for    *)
(* its socket and for a pipe, accepts a connection (local, TCP) or takes a *)
(* datagram (UDP) and hands a stream to on_connect.  zs__thread_abort      *)
(* calls zs__server_abort, with thread_map_mutex locked and the server's   *)
(* thread in the map, which writes one byte to the pipe.                   *)
(*                                                                         *)
(* A connection or datagram is a number, in the order of arrival.  The     *)
(* first takes one file descriptor from accept until its stream is closed; *)
(* the streams of datagrams use the server's socket, which nobody closes.  *)
(***************************************************************************)
EXTENDS ZsWait, FiniteSets

CONSTANTS
  Kinds,        \* the kinds of servers to look at
  Server,       \* the server's thread
  Clients,      \* other threads that may abort the server
  Nobody,
  Backlog,      \* connections the kernel keeps for accept (SOMAXCONN)
  MaxOpen,      \* accepted connections the process has descriptors for
  BufferSize,   \* what recvfrom is given room for: 2048 bytes
  Sizes,        \* the lengths of datagrams
  MaxConnects,  \* bound: connections that arrive
  MaxAborts,    \* bound: calls of zs__thread_abort
  Withdrawable  \* TRUE: a pending connection may vanish (accept(2), NOTES)

ASSUME ServerAssumption ==
  /\ Server \notin Clients /\ Nobody \notin Clients \cup {Server}
  /\ {"socket", "pipe"} \subseteq Files /\ Kinds \subseteq {"local", "tcp", "udp"}
  /\ BufferSize \in Nat \ {0} /\ Sizes \subseteq Nat
  /\ {Backlog, MaxOpen} \subseteq Nat \ {0} /\ {MaxConnects, MaxAborts} \subseteq Nat
  /\ Withdrawable \in BOOLEAN

VARIABLES
  kind,       \* what was created
  socket,     \* what became of its socket
  pc,         \* where the server's thread is, before that its creator
  backlog,    \* the connections that wait for accept, datagrams for recvfrom
  arrived,    \* how many have come
  withdrawn,  \* those that vanished before, and the datagrams without content
  size,       \* the lengths of the datagrams that wait
  inHand,     \* the connection in on_connect, or 0
  served,     \* the connections handed to on_connect, in order
  open,       \* the connections whose stream is not closed
  readable,   \* the streams of datagrams whose reader is not closed
  unread,     \* what is left in their read_buffer
  bytes,      \* in the abort pipe, which has room for 65536
  ends,       \* the ends of the abort pipe that are open
  at,         \* where each thread is in zs__thread_abort
  aborts,     \* how many were begun
  mapOwner,   \* who has thread_map_mutex
  ended       \* SIGPIPE or a use of freed memory ended the process

serverVars == <<kind, pc, inHand, served>>
lineVars   == <<socket, backlog, arrived, withdrawn, size>>
pipeVars   == <<bytes, ends>>
streamVars == <<open, readable, unread>>
abortVars  == <<at, aborts, mapOwner>>
vars == <<serverVars, lineVars, pipeVars, streamVars, abortVars, ended>>

Threads == Clients \cup {Server}
Making  == {"create", "bind", "listen", "failed"}
Places  == Making \cup
  {"select", "accept", "callback", "threads", "destroy", "closing", "free", "leave", "done"}
Connections == 1 .. MaxConnects

Init ==
  /\ kind \in Kinds /\ socket = "none" /\ pc = "create" /\ inHand = 0 /\ served = <<>>
  /\ backlog = <<>> /\ arrived = 0 /\ withdrawn = {} /\ size = [c \in Connections |-> 0]
  /\ open = {} /\ readable = {} /\ unread = [c \in Connections |-> 0]
  /\ bytes = 0 /\ ends = {"reader", "writer"}
  /\ at = [t \in Threads |-> "idle"] /\ aborts = 0 /\ mapOwner = Nobody
  /\ ended = FALSE

(***************************************************************************)
(* zs__server_create_local, _tcp_ipv4, _udp_ipv4.  Each step may fail      *)
(* (setsockopt like bind); the handle is -1 then and the socket stays      *)
(* open.  The last one puts the thread into the map.                       *)
(***************************************************************************)
Make(from, to, state) ==
  /\ pc = from
  /\ \/ pc' = to /\ socket' = state
     \/ pc' = "failed" /\ socket' = socket
  /\ UNCHANGED <<kind, inHand, served, backlog, arrived, withdrawn, size, pipeVars, streamVars,
                 abortVars, ended>>

(* Mutant of Create: listen comes before bind. *)
CreateListening ==
  \/ Make("create", "listen", "open") \/ Make("listen", "bind", "listening")
  \/ Make("bind", "select", "listening")

Create ==
  \/ Make("create", "bind", "open")
  \/ kind # "udp" /\ (Make("bind", "listen", "bound") \/ Make("listen", "select", "listening"))
  \/ kind = "udp" /\ Make("bind", "select", "bound")

(***************************************************************************)
(* zs__server_run and zs__server_run_dgram.                                *)
(***************************************************************************)
(* Mutant of Wait: the listening socket is not registered. *)
WaitForPipe == AddReader(Created, "pipe")

Wait == AddReader(AddReader(Created, "socket"), "pipe")

(* Mutant of AbortNumber: the number of the listening socket. *)
AbortNumberFirst == 1

AbortNumber == Wait.max

Ready == {f \in {"socket", "pipe"} : IF f = "socket" THEN backlog # <<>> ELSE bytes > 0}

Select ==
  /\ pc = "select" /\ ~ended /\ ~Blocks(Wait, Ready)
  /\ pc' = IF Returns(Wait, Ready) = AbortNumber THEN "destroy" ELSE "accept"
  /\ UNCHANGED <<kind, inHand, served, lineVars, pipeVars, streamVars, abortVars, ended>>

(* Mutant of Accept: with no descriptor left the connection is lost. *)
AcceptLosing ==
  /\ pc = "accept" /\ kind # "udp" /\ ~ended /\ backlog # <<>>
  /\ backlog' = Tail(backlog)
  /\ IF Cardinality(open) < MaxOpen
       THEN inHand' = Head(backlog) /\ open' = open \cup {Head(backlog)} /\ pc' = "callback"
       ELSE pc' = "select" /\ UNCHANGED <<inHand, open>>
  /\ UNCHANGED <<kind, served, socket, arrived, withdrawn, size, pipeVars, readable, unread,
                 abortVars, ended>>

(* accept blocks without a connection and fails without a descriptor. *)
Accept ==
  /\ pc = "accept" /\ kind # "udp" /\ ~ended /\ backlog # <<>>
  /\ IF Cardinality(open) < MaxOpen
       THEN /\ backlog' = Tail(backlog)
            /\ inHand' = Head(backlog)
            /\ open' = open \cup {Head(backlog)}
            /\ pc' = "callback"
       ELSE /\ pc' = "select"
            /\ UNCHANGED <<backlog, inHand, open>>
  /\ UNCHANGED <<kind, served, socket, arrived, withdrawn, size, pipeVars, readable, unread,
                 abortVars, ended>>

(* recvfrom cuts a datagram off at BufferSize; one without content, for     *)
(* which it returns 0, is taken for an error.                              *)
Received(n) == IF n < BufferSize THEN n ELSE BufferSize

Receive ==
  /\ pc = "accept" /\ kind = "udp" /\ ~ended /\ backlog # <<>>
  /\ backlog' = Tail(backlog)
  /\ LET c == Head(backlog)
     IN /\ size' = [size EXCEPT ![c] = 0]
        /\ IF size[c] = 0
             THEN /\ withdrawn' = withdrawn \cup {c} /\ pc' = "select"
                  /\ UNCHANGED <<inHand, streamVars>>
             ELSE /\ inHand' = c /\ open' = open \cup {c} /\ readable' = readable \cup {c}
                  /\ unread' = [unread EXCEPT ![c] = Received(size[c])]
                  /\ pc' = "callback" /\ UNCHANGED withdrawn
  /\ UNCHANGED <<kind, served, socket, arrived, pipeVars, abortVars, ended>>

(***************************************************************************)
(* on_connect, which is the client's, may abort the server, may use the    *)
(* functions of threads, for which it needs thread_map_mutex, and returns. *)
(***************************************************************************)
UseThreads ==
  /\ pc = "callback" /\ at[Server] = "idle" /\ ~ended
  /\ pc' = "threads"
  /\ UNCHANGED <<kind, inHand, served, lineVars, pipeVars, streamVars, abortVars, ended>>

Called ==
  /\ \/ pc = "callback" /\ at[Server] = "idle"
     \/ pc = "threads" /\ mapOwner = Nobody
  /\ ~ended
  /\ served' = Append(served, inHand)
  /\ inHand' = 0
  /\ pc' = "select"
  /\ UNCHANGED <<kind, lineVars, pipeVars, streamVars, abortVars, ended>>

(***************************************************************************)
(* The end: the two ends of the pipe and its struct, the server's struct,  *)
(* then the cleanup of the thread, which takes it off the map.             *)
(***************************************************************************)
CloseEnd(from, to, left) ==
  /\ pc = from /\ ~ended
  /\ pc' = to
  /\ ends' = left
  /\ UNCHANGED <<kind, inHand, served, lineVars, bytes, streamVars, abortVars, ended>>

Destroy == CloseEnd("destroy", "closing", {"writer"}) \/ CloseEnd("closing", "free", {})

Free ==
  /\ pc = "free" /\ ~ended
  /\ pc' = "leave"
  /\ UNCHANGED <<kind, inHand, served, lineVars, pipeVars, streamVars, abortVars, ended>>

Leave ==
  /\ pc = "leave" /\ mapOwner = Nobody /\ ~ended
  /\ pc' = "done"
  /\ UNCHANGED <<kind, inHand, served, lineVars, pipeVars, streamVars, abortVars, ended>>

-----------------------------------------------------------------------------
(***************************************************************************)
(* zs__thread_abort of the server's handle: with the mutex of the map      *)
(* write until a byte is written.  Without a reader that is SIGPIPE, on a  *)
(* closed descriptor it fails again and again, and the freed structs hold  *)
(* anything.                                                               *)
(***************************************************************************)
BeginAbort(t) ==
  /\ at[t] = "idle" /\ mapOwner = Nobody /\ pc \notin Making \cup {"done"}
  /\ ~ended /\ aborts < MaxAborts
  /\ t = Server => pc = "callback"
  /\ mapOwner' = t
  /\ at' = [at EXCEPT ![t] = "write"]
  /\ aborts' = aborts + 1
  /\ UNCHANGED <<serverVars, lineVars, pipeVars, streamVars, ended>>

(* Mutants of AbortWrite: nothing is written; the write is repeated. *)
AbortWriteNothing(t) ==
  /\ at[t] = "write" /\ ~ended
  /\ at' = [at EXCEPT ![t] = "unlock"]
  /\ UNCHANGED <<serverVars, lineVars, pipeVars, streamVars, aborts, mapOwner, ended>>

AbortWriteAgain(t) ==
  /\ at[t] = "write" /\ ~ended /\ ends = {"reader", "writer"}
  /\ bytes' = bytes + 1
  /\ UNCHANGED <<serverVars, lineVars, ends, streamVars, abortVars, ended>>

AbortWrite(t) ==
  /\ at[t] = "write" /\ ~ended /\ ends = {"reader", "writer"}
  /\ bytes' = bytes + 1
  /\ at' = [at EXCEPT ![t] = "unlock"]
  /\ UNCHANGED <<serverVars, lineVars, ends, streamVars, aborts, mapOwner, ended>>

AbortFault(t) ==
  /\ at[t] = "write" /\ ~ended
  /\ ends = {"writer"} \/ pc \in {"free", "leave"}
  /\ ended' = TRUE
  /\ UNCHANGED <<serverVars, lineVars, pipeVars, streamVars, abortVars>>

AbortReturn(t) ==
  /\ at[t] = "unlock" /\ ~ended
  /\ at' = [at EXCEPT ![t] = "idle"]
  /\ mapOwner' = Nobody
  /\ UNCHANGED <<serverVars, lineVars, pipeVars, streamVars, aborts, ended>>

-----------------------------------------------------------------------------
(***************************************************************************)
(* The other processes, and the client's use of its streams.               *)
(***************************************************************************)
Reachable == socket = IF kind = "udp" THEN "bound" ELSE "listening"

(* A datagram that finds no room is lost. *)
Connect ==
  /\ Reachable /\ arrived < MaxConnects /\ ~ended
  /\ arrived' = arrived + 1
  /\ IF Len(backlog) < Backlog
       THEN /\ backlog' = Append(backlog, arrived')
            /\ \E n \in Sizes : size' = [size EXCEPT ![arrived'] = IF kind = "udp" THEN n ELSE 0]
            /\ UNCHANGED withdrawn
       ELSE /\ kind = "udp"
            /\ withdrawn' = withdrawn \cup {arrived'}
            /\ UNCHANGED <<backlog, size>>
  /\ UNCHANGED <<serverVars, socket, pipeVars, streamVars, abortVars, ended>>

Withdraw ==
  /\ Withdrawable /\ ~ended
  /\ \E i \in DOMAIN backlog :
       /\ backlog' = RemoveAt(backlog, i)
       /\ withdrawn' = withdrawn \cup {backlog[i]}
       /\ size' = [size EXCEPT ![backlog[i]] = 0]
  /\ UNCHANGED <<serverVars, socket, arrived, pipeVars, streamVars, abortVars, ended>>

CloseStream(c) ==
  /\ c \in open /\ ~ended
  /\ open' = open \ {c} /\ readable' = readable \ {c} /\ unread' = [unread EXCEPT ![c] = 0]
  /\ UNCHANGED <<serverVars, lineVars, pipeVars, abortVars, ended>>

(***************************************************************************)
(* zs__stream_read of a datagram's stream: n bytes or what is left; with   *)
(* the last one the reader is closed and the buffer freed.  A further read *)
(* copies nothing.                                                         *)
(***************************************************************************)
(* Mutant of CloseBuffer: the end is noticed with the next read. *)
CloseBufferLate(c, left) == IF unread[c] = 0 THEN readable \ {c} ELSE readable

CloseBuffer(c, left) == IF left = 0 THEN readable \ {c} ELSE readable

ReadBuffer(c, n) ==
  /\ c \in open /\ kind = "udp" /\ ~ended
  /\ LET left == IF n > unread[c] THEN 0 ELSE unread[c] - n
     IN unread' = [unread EXCEPT ![c] = left] /\ readable' = CloseBuffer(c, left)
  /\ UNCHANGED <<serverVars, lineVars, pipeVars, open, abortVars, ended>>

RunServer == Create \/ Select \/ Accept \/ Receive \/ Called \/ Destroy \/ Free \/ Leave
Abort(t)  == AbortWrite(t) \/ AbortFault(t) \/ AbortReturn(t)

Next ==
  \/ RunServer \/ UseThreads \/ Connect \/ Withdraw
  \/ \E t \in Threads : BeginAbort(t) \/ Abort(t)
  \/ \E c \in open : CloseStream(c) \/ \E n \in 1 .. BufferSize : ReadBuffer(c, n)

(***************************************************************************)
(* The scheduler runs the server's thread and every thread in the abort;   *)
(* on_connect returns.  Nobody has to connect, abort or close a stream.    *)
(***************************************************************************)
Spec == Init /\ [][Next]_vars /\ WF_vars(RunServer) /\ \A t \in Threads : WF_vars(Abort(t))

-----------------------------------------------------------------------------
(***************************************************************************)
(* Every variable has its type.                                            *)
(***************************************************************************)
TypeOK ==
  /\ kind \in Kinds /\ socket \in {"none", "open", "bound", "listening"}
  /\ pc \in Places /\ at \in [Threads -> {"idle", "write", "unlock"}]
  /\ backlog \in Seq(Connections) /\ served \in Seq(Connections)
  /\ Len(backlog) <= Backlog /\ (kind # "udp" => Cardinality(open) <= MaxOpen)
  /\ size \in [Connections -> Sizes \cup {0}] /\ unread \in [Connections -> 0 .. BufferSize]
  /\ readable \subseteq Connections
  /\ {arrived, inHand} \subseteq 0 .. MaxConnects
  /\ withdrawn \subseteq Connections /\ open \subseteq Connections
  /\ {bytes, aborts} \subseteq 0 .. MaxAborts /\ ends \subseteq {"reader", "writer"}
  /\ mapOwner \in Threads \cup {Nobody} /\ ended \in BOOLEAN

(***************************************************************************)
(* What the server relies on when it calls zs__wait_do: the number it gets *)
(* names the first registration that is ready (MatchesReference).          *)
(***************************************************************************)
WaitMatchesReference == pc = "select" => MatchesReference

(***************************************************************************)
(* A single abort never meets the end of the server: while it writes, the  *)
(* pipe and the structs are there, whatever the server's thread does; only *)
(* a second one, begun while the ended thread is still in the map, may     *)
(* find them gone.                                                         *)
(***************************************************************************)
OneAbortIsSafe == aborts <= 1 =>
  /\ ~ended
  /\ \A t \in Threads : at[t] = "write" => ends = {"reader", "writer"}

(***************************************************************************)
(* Every connection is somewhere, exactly once, and in its turn: handed to *)
(* on_connect, being handed, pending or withdrawn.  An accept that fails   *)
(* for want of descriptors does not lose it, nor does the abort.  Nobody   *)
(* can connect to a server whose creation failed, though its socket stays  *)
(* open.                                                                   *)
(***************************************************************************)
Line == served \o (IF inHand = 0 THEN <<>> ELSE <<inHand>>) \o backlog

EachInItsTurn ==
  /\ \A i, j \in DOMAIN Line : i < j => Line[i] < Line[j]
  /\ 1 .. arrived = Range(Line) \cup withdrawn
  /\ Range(Line) \cap withdrawn = {}
  /\ pc = "failed" => arrived = 0

(***************************************************************************)
(* The reader of a datagram's stream is closed, and its buffer freed, as   *)
(* soon as the datagram is read and not before: a loop that reads until    *)
(* IsClosed gets all of it, as far as it was received, and does not ask    *)
(* for more.                                                               *)
(***************************************************************************)
DatagramsRead == \A c \in Connections :
  unread[c] > 0 <=> c \in readable /\ c \in open

(***************************************************************************)
(* An aborted server ends, and its thread leaves the map, with these       *)
(* exceptions only: connections keep it busy, because zs__wait_do tells of *)
(* the listening socket first, and with no descriptor left a single one is *)
(* enough; accept blocks on a connection that vanished; a second abort.    *)
(***************************************************************************)
ServerEnds == [](aborts = 1 =>
  <>(pc = "done" \/ aborts > 1) \/ []<>(backlog # <<>>) \/ <>[](pc = "accept"))

(***************************************************************************)
(* A pending connection is accepted, unless the server is aborted or runs  *)
(* out of descriptors again and again.                                     *)
(***************************************************************************)
ConnectionsTaken == \A c \in Connections : [](c \in Range(backlog) =>
  <>(c \notin Range(backlog) \/ aborts > 0) \/ []<>(kind # "udp" /\ Cardinality(open) = MaxOpen))
=============================================================================
