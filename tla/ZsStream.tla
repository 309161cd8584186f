------------------------------ MODULE ZsStream ------------------------------
(***************************************************************************)
(* struct zs__stream of lib/zslib.c and the classes ZSStream, ZSReader and *)
(* ZSWriter of zsstream.h: threads that hold counted handles on one stream *)
(* read lines from it, write lines to it, copy and drop their handles.     *)
(*                                                                         *)
(* The stream is a pipe of this process (zs__stream_create_pipe), the read *)
(* end of somebody else's pipe (zs__stream_create_system with a_writer -1, *)
(* "input") or a socket connected to a local or TCP server.  What poll     *)
(* says of an end whose other end is closed is the Linux kernel's: POLLHUP *)
(* for a reader, also with data left, POLLERR or POLLHUP for a writer; but *)
(* nothing of that for a TCP socket until the other process resets it.     *)
(*                                                                         *)
(* The counters of ZSStream and the bits of closed have no lock.  Here the *)
(* clients copy and drop the handles of a stream one at a time, as those   *)
(* of the examples do with zs__thread_wait; they read and write when they  *)
(* like.                                                                   *)
(***************************************************************************)
EXTENDS Integers, FiniteSets

CONSTANTS
  Threads,
  Creator,      \* the thread that creates the stream
  Kinds,        \* the kinds of streams to look at
  Descriptors,  \* 0 .. n: the file descriptors of the process
  Capacity,     \* lines that fit the kernel's buffer
  MaxLines,     \* bound: lines written
  MaxHandles    \* bound: handles of a side

ASSUME StreamAssumption ==
  /\ Creator \in Threads /\ IsFiniteSet(Threads)
  /\ Kinds \subseteq {"pipe", "input", "local", "tcp"}
  /\ {0, 1} \subseteq Descriptors /\ Descriptors \subseteq Nat
  /\ Capacity \in Nat \ {0} /\ MaxLines \in Nat /\ MaxHandles \in Nat \ {0}

VARIABLES
  kind,      \* how the stream is created
  made,      \* "no" before the creation, then "yes" or "failed"
  table,     \* what each descriptor of the process is
  closed,    \* the bits of closed
  count,     \* reader_count and writer_count
  held,      \* the ZSReader and ZSWriter objects of each thread
  deleted,   \* the ZSStream and its struct zs__stream are freed
  robbed,    \* a descriptor that is not the stream's was closed
  pending,   \* lines in the kernel's buffer
  written,   \* lines written so far
  peer,      \* the other process's end: open, closed or (TCP) reset
  pc,        \* where each thread is
  side,      \* the side of the handle it is dropping
  killed     \* SIGPIPE ended the process

kindVars   == <<kind, made>>
endVars    == <<table, closed, robbed>>
handleVars == <<count, held, deleted, side>>
lineVars   == <<pending, written, peer>>
vars == <<kindVars, endVars, handleVars, lineVars, pc, killed>>

Sides == {"reader", "writer"}
Labels == {"idle", "pollReader", "read", "pollWriter", "write", "close", "last"}

Socket == kind \in {"local", "tcp"}

(* The descriptor of a side: pipe() returns the two lowest free numbers. *)
Number(s) == IF kind = "pipe" /\ s = "writer" THEN 1 ELSE 0

Init ==
  /\ kind \in Kinds /\ made = "no"
  /\ table = [d \in Descriptors |-> "free"]
  /\ closed = {} /\ count = [s \in Sides |-> 0]
  /\ held = [t \in Threads |-> [s \in Sides |-> 0]]
  /\ deleted = FALSE /\ robbed = FALSE /\ killed = FALSE
  /\ pending = 0 /\ written = 0 /\ peer = IF kind = "pipe" THEN "closed" ELSE "open"
  /\ pc = [t \in Threads |-> "idle"] /\ side = [t \in Threads |-> "reader"]

At(t, label) == pc[t] = label /\ ~killed
Goto(t, label) == pc' = [pc EXCEPT ![t] = label]

-----------------------------------------------------------------------------
(***************************************************************************)
(* ZSStream::CreatePipe, CreateSystem, CreateTCP_IPv4, CreateLocal, and    *)
(* Create for the descriptors of a stream that there is: one handle for    *)
(* each side.  Without a connection the handles are empty; the socket is   *)
(* closed, but zs__stream_create_local forgets it.                         *)
(***************************************************************************)
Opened == [d \in Descriptors |-> IF d \in {Number(s) : s \in Sides} THEN "stream" ELSE "free"]

Create ==
  /\ made = "no"
  /\ made' = "yes"
  /\ table' = Opened
  /\ closed' = IF kind = "input" THEN {"writer"} ELSE {}
  /\ count' = [s \in Sides |-> 1]
  /\ held' = [held EXCEPT ![Creator] = [s \in Sides |-> 1]]
  /\ UNCHANGED <<kind, robbed, deleted, side, lineVars, pc, killed>>

(* Mutant of LeftOpen: also a TCP socket without a connection stays open. *)
LeftOpenAll == Opened

LeftOpen == IF kind = "local" THEN Opened ELSE table

CreateFails ==
  /\ made = "no" /\ Socket
  /\ made' = "failed"
  /\ table' = LeftOpen
  /\ UNCHANGED <<kind, closed, robbed, handleVars, lineVars, pc, killed>>

-----------------------------------------------------------------------------
(***************************************************************************)
(* zs__stream_state.  The socket's looks at its descriptor only while both *)
(* sides are open.                                                         *)
(***************************************************************************)
OtherEndClosed(s) ==
  IF kind = "pipe" THEN table[1 - Number(s)] # "stream" ELSE peer # "open"

HungUp(s) == IF kind = "tcp" THEN peer = "reset" ELSE OtherEndClosed(s)

StatePipe(s)   == s \in closed \/ HungUp(s)
StateSocket(s) == s \in closed \/ (closed = {} /\ HungUp(s))

(* Mutant of IsClosed: the descriptor is not looked at. *)
IsClosedByBit(s) == s \in closed

IsClosed(s) == IF Socket THEN StateSocket(s) ELSE StatePipe(s)

(***************************************************************************)
(* ZSReader::operator>>: while not closed read, until a line came.  read   *)
(* and recv return 0 when there is nothing left and the other end is gone. *)
(***************************************************************************)
BeginGet(t) ==
  /\ At(t, "idle") /\ held[t]["reader"] > 0
  /\ Goto(t, "pollReader")
  /\ UNCHANGED <<kindVars, endVars, handleVars, lineVars, killed>>

PollReader(t) ==
  /\ At(t, "pollReader")
  /\ Goto(t, IF IsClosed("reader") THEN "idle" ELSE "read")
  /\ UNCHANGED <<kindVars, endVars, handleVars, lineVars, killed>>

Read(t) ==
  /\ At(t, "read")
  /\ \/ pending > 0 /\ pending' = pending - 1 /\ Goto(t, "idle")
     \/ pending = 0 /\ OtherEndClosed("reader") /\ pending' = 0 /\ Goto(t, "pollReader")
  /\ UNCHANGED <<kindVars, endVars, handleVars, written, peer, killed>>

(***************************************************************************)
(* ZSWriter::operator<<: while not closed write, until all is written.  A  *)
(* line is written whole; nothing ignores SIGPIPE, so a write that finds   *)
(* no reader ends the process; one that finds a TCP connection just reset  *)
(* writes nothing.                                                         *)
(***************************************************************************)
BeginPut(t) ==
  /\ At(t, "idle") /\ held[t]["writer"] > 0 /\ written < MaxLines
  /\ Goto(t, "pollWriter")
  /\ UNCHANGED <<kindVars, endVars, handleVars, lineVars, killed>>

PollWriter(t) ==
  /\ At(t, "pollWriter")
  /\ Goto(t, IF IsClosed("writer") THEN "idle" ELSE "write")
  /\ UNCHANGED <<kindVars, endVars, handleVars, lineVars, killed>>

(* Mutant of WriteLine: more lines than the kernel's buffer has room for. *)
WriteLineNoWait(t) ==
  /\ pending' = IF kind = "pipe" THEN pending + 1 ELSE pending
  /\ killed' = FALSE /\ written' = written + 1

WriteLine(t) ==
  /\ kind = "pipe" => pending < Capacity
  /\ pending' = IF kind = "pipe" THEN pending + 1 ELSE pending
  /\ killed' = FALSE /\ written' = written + 1

Write(t) ==
  /\ At(t, "write")
  /\ \/ ~HungUp("writer") /\ WriteLine(t) /\ Goto(t, "idle")
     \/ /\ HungUp("writer")
        /\ \/ killed' = TRUE /\ Goto(t, "idle")
           \/ kind = "tcp" /\ killed' = FALSE /\ Goto(t, "pollWriter")
        /\ UNCHANGED <<pending, written>>
  /\ UNCHANGED <<kindVars, endVars, handleVars, peer>>

-----------------------------------------------------------------------------
(***************************************************************************)
(* zs__stream_close_reader, _writer: the descriptors they close, given the *)
(* bits that are set.  A socket is closed with its second side.            *)
(***************************************************************************)
ClosesPipe(s, bits)   == IF s \in bits THEN {} ELSE {Number(s)}
ClosesSocket(s, bits) == IF s \in bits \/ bits \cup {s} # Sides THEN {} ELSE {Number(s)}

(* Mutant of Closes: the bit is not looked at. *)
ClosesAgain(s, bits) == IF Socket /\ bits \cup {s} # Sides THEN {} ELSE {Number(s)}

Closes(s, bits) == IF Socket THEN ClosesSocket(s, bits) ELSE ClosesPipe(s, bits)

CloseAll(numbers) ==
  /\ table' = [d \in Descriptors |-> IF d \in numbers THEN "free" ELSE table[d]]
  /\ robbed' = (robbed \/ \E d \in numbers : table[d] = "other")

(***************************************************************************)
(* Copy constructor and operator=: one more handle, for this thread or for *)
(* the object of a thread that this one creates.                           *)
(***************************************************************************)
Undisturbed == \A t \in Threads : pc[t] \notin {"close", "last"}

Copy(t, u, s) ==
  /\ At(t, "idle") /\ pc[u] = "idle" /\ Undisturbed
  /\ held[t][s] > 0 /\ count[s] < MaxHandles
  /\ count' = [count EXCEPT ![s] = @ + 1]
  /\ held' = [held EXCEPT ![u][s] = @ + 1]
  /\ UNCHANGED <<kindVars, endVars, deleted, lineVars, pc, side, killed>>

(***************************************************************************)
(* The destructor and operator=: UnregisterReader or UnregisterWriter,     *)
(* which closes the side of the last handle, then, if the other side has   *)
(* no handle either, the end of the stream.                                *)
(***************************************************************************)
Drop(t, s) ==
  /\ At(t, "idle") /\ Undisturbed
  /\ held[t][s] > 0
  /\ held' = [held EXCEPT ![t][s] = @ - 1]
  /\ count' = [count EXCEPT ![s] = @ - 1]
  /\ side' = [side EXCEPT ![t] = s]
  /\ Goto(t, "close")
  /\ UNCHANGED <<kindVars, endVars, deleted, lineVars, killed>>

(* Mutant of CloseSide: the last handle of a side does not close it. *)
CloseSideNever(t) ==
  /\ At(t, "close")
  /\ Goto(t, "last")
  /\ UNCHANGED <<kindVars, endVars, handleVars, lineVars, killed>>

CloseSide(t) ==
  /\ At(t, "close")
  /\ IF count[side[t]] = 0
       THEN CloseAll(Closes(side[t], closed)) /\ closed' = closed \cup {side[t]}
       ELSE UNCHANGED <<endVars>>
  /\ Goto(t, "last")
  /\ UNCHANGED <<kindVars, handleVars, lineVars, killed>>

(* Mutant of Unused: one side without handles is enough. *)
UnusedOne == \E s \in Sides : count[s] = 0

Unused == \A s \in Sides : count[s] = 0

(* ~ZSStream, zs__stream_destroy *)
Last(t) ==
  /\ At(t, "last")
  /\ IF Unused
       THEN /\ CloseAll(Closes("reader", closed) \cup Closes("writer", closed \cup {"reader"}))
            /\ closed' = Sides /\ deleted' = TRUE
       ELSE UNCHANGED <<endVars, deleted>>
  /\ Goto(t, "idle")
  /\ UNCHANGED <<kindVars, count, held, lineVars, side, killed>>

-----------------------------------------------------------------------------
(***************************************************************************)
(* The rest of the process opens files: the lowest free descriptor.        *)
(***************************************************************************)
OpenOther ==
  /\ ~killed /\ made # "no"
  /\ \E d \in Descriptors :
       /\ table[d] = "free" /\ \A e \in Descriptors : e < d => table[e] # "free"
       /\ table' = [table EXCEPT ![d] = "other"]
  /\ UNCHANGED <<kindVars, closed, handleVars, robbed, lineVars, pc, killed>>

(* The other process of a stream that is no pipe of this one. *)
PeerSend ==
  /\ made = "yes" /\ peer = "open" /\ ~killed /\ pending < Capacity /\ written < MaxLines
  /\ pending' = pending + 1 /\ written' = written + 1
  /\ UNCHANGED <<kindVars, endVars, handleVars, peer, pc, killed>>

PeerClose ==
  /\ made = "yes" /\ peer = "open" /\ ~killed /\ peer' = "closed"
  /\ UNCHANGED <<kindVars, endVars, handleVars, pending, written, pc, killed>>

(* A line was not read before the close, or came after it. *)
PeerReset ==
  /\ made = "yes" /\ kind = "tcp" /\ peer # "reset" /\ ~killed
  /\ peer' = "reset" /\ pending' = 0
  /\ UNCHANGED <<kindVars, endVars, handleVars, written, pc, killed>>

Step(t) == PollReader(t) \/ Read(t) \/ PollWriter(t) \/ Write(t) \/ CloseSide(t) \/ Last(t)

Next ==
  \/ \E t \in Threads : BeginGet(t) \/ BeginPut(t) \/ Step(t)
  \/ \E t, u \in Threads, s \in Sides : Copy(t, u, s)
  \/ \E t \in Threads, s \in Sides : Drop(t, s)
  \/ Create \/ CreateFails \/ OpenOther \/ PeerSend \/ PeerClose \/ PeerReset

(***************************************************************************)
(* The scheduler runs every thread that is in a call.                      *)
(***************************************************************************)
Spec == Init /\ [][Next]_vars /\ \A t \in Threads : WF_vars(Step(t))

-----------------------------------------------------------------------------
(***************************************************************************)
(* Every variable has its type.                                            *)
(***************************************************************************)
TypeOK ==
  /\ kind \in Kinds /\ made \in {"no", "yes", "failed"} /\ closed \subseteq Sides
  /\ table \in [Descriptors -> {"free", "stream", "other"}]
  /\ count \in [Sides -> 0 .. MaxHandles]
  /\ held \in [Threads -> [Sides -> 0 .. MaxHandles]]
  /\ {deleted, robbed, killed} \subseteq BOOLEAN /\ peer \in {"open", "closed", "reset"}
  /\ pending \in 0 .. Capacity /\ written \in Nat
  /\ pc \in [Threads -> Labels] /\ side \in [Threads -> Sides]

(***************************************************************************)
(* When no handle is being dropped, a descriptor of the stream is open     *)
(* exactly as long as its side has handles (a socket: either side), and    *)
(* the stream is freed exactly when no handle is left.  Of the streams     *)
(* that could not be created only a local one keeps a descriptor, for ever.*)
(***************************************************************************)
Handles(s) == {h \in Threads \X (1 .. MaxHandles) : h[2] <= held[h[1]][s]}

Needed(d) ==
  \E s \in Sides : Number(s) = d /\ Handles(s) # {} /\ (kind = "input" => s = "reader")

EndsMatchHandles == Undisturbed =>
  /\ \A d \in Descriptors : table[d] = "stream" <=>
       Needed(d) \/ (made = "failed" /\ kind = "local" /\ d = 0)
  /\ made = "yes" => (deleted <=> \A s \in Sides : Handles(s) = {})

(***************************************************************************)
(* The stream never closes a descriptor that was given out again: not when *)
(* its sides are closed at different times, nor when it is destroyed.      *)
(***************************************************************************)
NeverRobbed == ~robbed

(***************************************************************************)
(* Nobody has a handle on a stream that is freed, nor is in a call on it.  *)
(***************************************************************************)
NoUseAfterDelete == deleted => \A t \in Threads :
  pc[t] = "idle" /\ \A s \in Sides : held[t][s] = 0

(***************************************************************************)
(* A reader that waits for a line goes on when no line can come any more:  *)
(* the last writer of the pipe is dropped or the other process is gone.    *)
(* Only a socket whose writer was dropped before keeps it for ever, and a  *)
(* TCP connection that was closed, which poll does not call hung up; the   *)
(* comment in zslib.c:1373 thinks of local sockets.                        *)
(***************************************************************************)
WritersGone == IF kind = "pipe" THEN count["writer"] = 0 ELSE peer # "open"

Getting(t) == pc[t] \in {"pollReader", "read"}

ReadEnds == \A t \in Threads :
  (Getting(t) /\ WritersGone) ~> (~Getting(t) \/ killed
                                     \/ (Socket /\ closed # {}) \/ (kind = "tcp" /\ peer = "closed"))

(***************************************************************************)
(* A writer that waits for room in the pipe goes on, or the process ends,  *)
(* when the last reader is dropped.                                        *)
(***************************************************************************)
Putting(t) == pc[t] \in {"pollWriter", "write"}

WriteEnds == \A t \in Threads :
  (Putting(t) /\ kind = "pipe" /\ count["reader"] = 0) ~> (~Putting(t) \/ killed)
=============================================================================
