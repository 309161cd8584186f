----------------------------- MODULE ZsProcess ------------------------------
(***************************************************************************)
(* zs__process_execute of lib/zslib.c and class ZSProcess of zsprocess.h:  *)
(* threads that fork, hand the child one end of up to two pipes and wait   *)
(* for it, while the clients close the ends they hold and abort.           *)
(*                                                                         *)
(* "out" is the pipe the client reads and the child has as its output      *)
(* (a_reader), "in" the one the client writes and the child has as its     *)
(* input (a_writer).  A process has a table of descriptors; an end is in   *)
(* the table of the parent as long as its bit of closed is not set.  What  *)
(* is no pipe, or the same stream for both, counts as no stream.           *)
(*                                                                         *)
(* A client uses ZSProcess (cpp), or it has streams of its own and calls   *)
(* zs__process_execute on a thread of the library; it frees these later.   *)
(***************************************************************************)
EXTENDS Integers, FiniteSets, Functions

CONSTANTS
  Calls,        \* the threads that call zs__process_execute, and their children
  Parent,       \* the process they belong to
  Descriptors,  \* 0 .. n
  Starts,       \* <<what each client uses, which of 0 and 1 are open at first>>
  MaxLocks      \* bound: how often the mutexes of the threads are taken

ASSUME ProcessAssumption ==
  /\ IsFiniteSet(Calls) /\ Parent \notin Calls
  /\ {0, 1} \subseteq Descriptors /\ Descriptors \subseteq Nat
  /\ Starts \subseteq
       [Calls -> [streams : SUBSET {"out", "in"}, cpp : BOOLEAN]] \X SUBSET {0, 1}
  /\ MaxLocks \in Nat

VARIABLES
  setup,
  table,    \* the descriptors of every process
  pc,       \* where each thread is
  child,    \* what became of its child
  stored,   \* the threads that stored the child in *a_process_handle
  locks,    \* how often a mutex of the threads was taken
  locked,   \* the mutexes that are taken, of Mutexes
  awaited,  \* the threads that another thread waits for with zs__thread_wait
  copied,   \* the children whose copy of what their cleanup needs is taken for ever
  freed,    \* the streams <<t, s>> whose struct is freed
  ended     \* what ended the parent: nothing, or <<why, the call>>

callVars == <<pc, child, stored, copied>>
lockVars == <<locks, locked, awaited>>
vars == <<setup, table, callVars, lockVars, freed, ended>>

Processes == Calls \cup {Parent}
Streams   == {"out", "in"}
Free      == <<"free">>
Standard  == <<"std">>   \* what the process was started with
Ends      == Calls \X Streams \X {"reader", "writer"}
Places    == {"new", "ready", "forked", "handled", "waiting", "returned", "deleted", "done"}
Alive     == {"forked", "running", "astray"}

(***************************************************************************)
(* thread_map_mutex, threads_running_mutex, and the waiting_threads_mutex  *)
(* of every thread, which has the thread's name: those that                *)
(* zs__thread_cleanup of t takes, one after the other.                     *)
(***************************************************************************)
Mutexes  == {"map", "running"} \cup Calls
Needs(t) == {"map", "running", t}

Uses(t, s) == s \in setup[t].streams
Cpp(t)     == setup[t].cpp

(* The end that the child gets, and the one that the client keeps. *)
Far(t, s)  == <<t, s, IF s = "out" THEN "writer" ELSE "reader">>
Near(t, s) == <<t, s, IF s = "out" THEN "reader" ELSE "writer">>

Has(T, e)      == \E d \in Descriptors : T[d] = e
NumberOf(T, e) == CHOOSE d \in Descriptors : T[d] = e
Without(T, es) == [d \in Descriptors |-> IF T[d] \in es THEN Free ELSE T[d]]

(* pipe() and the rest give out the lowest free numbers. *)
Lowest(T) == CHOOSE d \in Descriptors :
  T[d] = Free /\ \A e \in Descriptors : T[e] = Free => d <= e
Place(T, e) == [T EXCEPT ![Lowest(T)] = e]
Pipe(T, t, s) == Place(Place(T, <<t, s, "reader">>), <<t, s, "writer">>)

Nothing == [d \in Descriptors |-> Free]

Init ==
  /\ \E start \in Starts :
       /\ setup = start[1]
       /\ table = [p \in Processes |-> [d \in Descriptors |->
            IF p = Parent /\ d \in start[2] THEN Standard ELSE Free]]
  /\ pc = [t \in Calls |-> "new"] /\ child = [t \in Calls |-> "none"]
  /\ stored = {} /\ copied = {} /\ freed = {}
  /\ locks = 0 /\ locked = {} /\ awaited = {} /\ ended = <<>>

At(t, place) == pc[t] = place /\ ended = <<>>
Goto(t, place) == pc' = [pc EXCEPT ![t] = place]
Become(t, state) == child' = [child EXCEPT ![t] = state]

-----------------------------------------------------------------------------
(***************************************************************************)
(* The streams are made.  Of each pipe that ZSProcess makes only the near  *)
(* end is given to the client: the pair that ZSStream::Create returned     *)
(* goes away at the end of the statement, and with it the only handle of   *)
(* the far end, which is closed.                                           *)
(***************************************************************************)
Piped(T, t, s) ==
  IF ~Uses(t, s) THEN T
  ELSE IF Cpp(t) THEN Without(Pipe(T, t, s), {Far(t, s)})
  ELSE Pipe(T, t, s)

Create(t) ==
  /\ At(t, "new")
  /\ \/ table' = [table EXCEPT ![Parent] = Piped(Piped(@, t, "out"), t, "in")]
     \/ ~Cpp(t) /\ table' = [table EXCEPT ![Parent] = Piped(Piped(@, t, "in"), t, "out")]
  /\ Goto(t, "ready")
  /\ UNCHANGED <<setup, child, stored, copied, lockVars, freed, ended>>

(***************************************************************************)
(* zs__process_execute in the parent.                                      *)
(***************************************************************************)
Fault(why, t) == ended' = <<why, t>> /\ UNCHANGED <<setup, table, callVars, lockVars, freed>>

Freed(t) == \E s \in Streams : <<t, s>> \in freed

(* Parent and child read the structs of the streams.  A freed one has its  *)
(* old contents, both bits of closed, or anything.                         *)
UseFreed(t) == (At(t, "ready") \/ At(t, "handled")) /\ Freed(t) /\ Fault("freed", t)

(***************************************************************************)
(* The child has a copy of the mutexes, locked if they are, of which it    *)
(* has no owner.  It also has the condition of its thread, with whoever    *)
(* waits for it, and pthread_cond_destroy would wait for him to go on.     *)
(***************************************************************************)
Fork(t) ==
  /\ At(t, "ready")
  /\ Goto(t, "forked") /\ Become(t, "forked")
  /\ table' = [table EXCEPT ![t] = table[Parent]]
  /\ copied' = IF locked \cap Needs(t) # {} \/ t \in awaited THEN copied \cup {t} ELSE copied
  /\ UNCHANGED <<setup, stored, lockVars, freed, ended>>

(* Mutant of ForkFails: the handle that is stored is the caller's own. *)
ForkFailsOwn(t) ==
  /\ At(t, "ready")
  /\ Goto(t, "returned")
  /\ stored' = stored \cup {Parent}
  /\ UNCHANGED <<setup, table, child, copied, lockVars, freed, ended>>

(* The handle becomes 0, on_started is called, the ends stay as they are. *)
ForkFails(t) ==
  /\ At(t, "ready")
  /\ Goto(t, "returned")
  /\ UNCHANGED <<setup, table, child, stored, copied, lockVars, freed, ended>>

(* Mutant of Store: the handle is not stored. *)
StoreNothing(t) ==
  /\ At(t, "forked")
  /\ Goto(t, "handled")
  /\ UNCHANGED <<setup, table, child, stored, copied, lockVars, freed, ended>>

Store(t) ==
  /\ At(t, "forked")
  /\ Goto(t, "handled")
  /\ stored' = stored \cup {t}
  /\ UNCHANGED <<setup, table, child, copied, lockVars, freed, ended>>

(* Mutant of CloseFar: the writer of "out" stays open in the parent. *)
CloseFarReader(t) ==
  /\ At(t, "handled")
  /\ Goto(t, "waiting")
  /\ table' = [table EXCEPT ![Parent] = Without(@, {Far(t, "in")})]
  /\ UNCHANGED <<setup, child, stored, copied, lockVars, freed, ended>>

(* Then on_started is called, which is the client's. *)
CloseFar(t) ==
  /\ At(t, "handled")
  /\ Goto(t, "waiting")
  /\ table' = [table EXCEPT ![Parent] = Without(@, {Far(t, s) : s \in Streams})]
  /\ UNCHANGED <<setup, child, stored, copied, lockVars, freed, ended>>

(* waitpid *)
Wait(t) ==
  /\ At(t, "waiting") /\ child[t] = "exited"
  /\ Goto(t, "returned") /\ Become(t, "reaped")
  /\ UNCHANGED <<setup, table, stored, copied, lockVars, freed, ended>>

(* ZSThread::InternRun deletes the object of a ZSProcess. *)
Delete(t) ==
  /\ At(t, "returned") /\ Cpp(t)
  /\ Goto(t, "deleted")
  /\ UNCHANGED <<setup, table, child, stored, copied, lockVars, freed, ended>>

(* zs__thread_cleanup takes the thread off the map, counts it down and     *)
(* wakes who waits for it; it has done so when it has had all mutexes.     *)
Leave(t) ==
  /\ At(t, "deleted") \/ (At(t, "returned") /\ ~Cpp(t))
  /\ locked \cap Needs(t) = {}
  /\ Goto(t, "done")
  /\ UNCHANGED <<setup, table, child, stored, copied, lockVars, freed, ended>>

-----------------------------------------------------------------------------
(***************************************************************************)
(* The child.  An end is redirected only when both ends of its stream were *)
(* open at the fork; all else is closed, the standard files too, and       *)
(* another call's ends.  dup2 first gives the output the number 1, which   *)
(* may be the number of the end that the second dup2 is told to copy.      *)
(***************************************************************************)
Redirects(T, t, s) == Has(T, Near(t, s)) /\ Has(T, Far(t, s))

(* Mutant of Kept: every end that is open stays open. *)
KeptAll(T, t) == {e \in Ends : Has(T, e)}

Kept(T, t) == {Far(t, s) : s \in {r \in Streams : Redirects(T, t, r)}}

Copy(T, from, to) == [T EXCEPT ![to] = T[from]]

(* Mutant of Plumbing: the end of the client is copied. *)
PlumbingNear(T, t) ==
  LET kept == [d \in Descriptors |-> IF T[d] \in Kept(T, t) THEN T[d] ELSE Free]
      out  == IF Redirects(T, t, "out") THEN Copy(kept, NumberOf(T, Near(t, "out")), 1) ELSE kept
  IN  IF Redirects(T, t, "in") THEN Copy(out, NumberOf(T, Near(t, "in")), 0) ELSE out

Plumbing(T, t) ==
  LET kept == [d \in Descriptors |-> IF T[d] \in Kept(T, t) THEN T[d] ELSE Free]
      out  == IF Redirects(T, t, "out") THEN Copy(kept, NumberOf(T, Far(t, "out")), 1) ELSE kept
  IN  IF Redirects(T, t, "in") THEN Copy(out, NumberOf(T, Far(t, "in")), 0) ELSE out

ChildAt(t, state) == child[t] = state /\ ended = <<>>

(* execv returns only when it fails: the child goes on in this program. *)
Exec(t) ==
  /\ ChildAt(t, "forked")
  /\ table' = [table EXCEPT ![t] = Plumbing(@, t)]
  /\ Become(t, "running") \/ Become(t, "astray")
  /\ UNCHANGED <<setup, pc, stored, copied, lockVars, freed, ended>>

Gone(t) == Become(t, "exited") /\ table' = [table EXCEPT ![t] = Nothing]

Exit(t) ==
  /\ ChildAt(t, "running")
  /\ Gone(t)
  /\ UNCHANGED <<setup, pc, stored, copied, lockVars, freed, ended>>

(* Its only thread returns from zs__process_execute, is cleaned up, for    *)
(* which it needs its copy of all that the cleanup needs, and exits.       *)
StrayExit(t) ==
  /\ ChildAt(t, "astray") /\ t \notin copied
  /\ Gone(t)
  /\ UNCHANGED <<setup, pc, stored, copied, lockVars, freed, ended>>

-----------------------------------------------------------------------------
(***************************************************************************)
(* The clients.  One with streams of its own closes any end at any time, a *)
(* ZSReader or ZSWriter of ZSProcess is dropped: as the last handle of its *)
(* ZSStream, it closes the end and frees the struct.                       *)
(***************************************************************************)
Close(t, d) ==
  /\ ~Cpp(t) /\ table[Parent][d][1] = t /\ ended = <<>>
  /\ table' = [table EXCEPT ![Parent][d] = Free]
  /\ UNCHANGED <<setup, callVars, lockVars, freed, ended>>

Drop(t, s) ==
  /\ Cpp(t) /\ Uses(t, s) /\ pc[t] # "new" /\ <<t, s>> \notin freed /\ ended = <<>>
  /\ table' = [table EXCEPT ![Parent] = Without(@, {Near(t, s)})]
  /\ freed' = freed \cup {<<t, s>>}
  /\ UNCHANGED <<setup, callVars, lockVars, ended>>

(***************************************************************************)
(* Functions of threads, called by others.  Each takes thread_map_mutex or *)
(* threads_running_mutex and gives it back.  zs__thread_wait has taken     *)
(* that of a thread in the map when it gives the map back, and gives it    *)
(* back in pthread_cond_wait, which lasts until the thread's cleanup.      *)
(* zs__thread_abort calls with thread_map_mutex ZSProcess::InternAbort,    *)
(* which sends SIGTERM to process_handle; 0 is the whole group.  The       *)
(* program may handle the signal; a child that was waited for is nobody,   *)
(* or a stranger.                                                          *)
(***************************************************************************)
InMap(t) == pc[t] \notin {"new", "done"}

Lock(m) ==
  /\ m \notin locked /\ locks < MaxLocks /\ ended = <<>>
  /\ m \in Calls => "map" \notin locked /\ InMap(m)
  /\ locked' = locked \cup {m} /\ locks' = locks + 1
  /\ UNCHANGED <<setup, table, callVars, awaited, freed, ended>>

(* Mutant of Unlock: an early return of zs__thread_abort with the mutex. *)
UnlockOthers(m) ==
  /\ m \in locked /\ ended = <<>> /\ (m = "map" => \A t \in Calls : pc[t] # "returned")
  /\ locked' = locked \ {m}
  /\ awaited' = awaited \cup ({m} \cap Calls)
  /\ UNCHANGED <<setup, table, callVars, locks, freed, ended>>

Unlock(m) ==
  /\ m \in locked /\ ended = <<>>
  /\ locked' = locked \ {m}
  /\ awaited' = awaited \cup ({m} \cap Calls)
  /\ UNCHANGED <<setup, table, callVars, locks, freed, ended>>

Release == \E m \in Mutexes : Unlock(m)

Abortable(t) == "map" \in locked /\ Cpp(t) /\ InMap(t) /\ ended = <<>>

Terminate(t) ==
  /\ Abortable(t) /\ pc[t] # "deleted" /\ t \in stored /\ child[t] \in Alive
  /\ Gone(t)
  /\ UNCHANGED <<setup, pc, stored, copied, lockVars, freed, ended>>

TerminateGroup(t) == Abortable(t) /\ pc[t] # "deleted" /\ t \notin stored /\ Fault("group", t)

AbortDeleted(t) == Abortable(t) /\ pc[t] = "deleted" /\ Fault("deleted", t)

Abort(t) == Terminate(t) \/ TerminateGroup(t) \/ AbortDeleted(t)

-----------------------------------------------------------------------------
Execute(t) ==
  \/ UseFreed(t) \/ Fork(t) \/ ForkFails(t) \/ Store(t) \/ CloseFar(t)
  \/ Wait(t) \/ Delete(t) \/ Leave(t)
Child(t) == Exec(t) \/ StrayExit(t)

Next ==
  \/ \E t \in Calls : Create(t) \/ Execute(t) \/ Child(t) \/ Exit(t) \/ Abort(t)
  \/ \E t \in Calls, d \in Descriptors : Close(t, d)
  \/ \E t \in Calls, s \in Streams : Drop(t, s)
  \/ (\E m \in Mutexes : Lock(m)) \/ Release

(***************************************************************************)
(* The scheduler runs the threads and the children; a mutex is given back. *)
(* The program that the child executes need not end, nor the client act.   *)
(* No step can be repeated for ever, the locks being bounded, so that      *)
(* fairness of all of them together is fairness of each.                   *)
(***************************************************************************)
Proceed == (\E t \in Calls : Execute(t) \/ Child(t)) \/ Release

Spec == Init /\ [][Next]_vars /\ WF_vars(Proceed)

-----------------------------------------------------------------------------
(***************************************************************************)
(* Every variable has its type.                                            *)
(***************************************************************************)
TypeOK ==
  /\ \E start \in Starts : setup = start[1]
  /\ table \in [Processes -> [Descriptors -> Ends \cup {Free, Standard}]]
  /\ pc \in [Calls -> Places]
  /\ child \in [Calls -> Alive \cup {"none", "exited", "reaped"}]
  /\ stored \subseteq Calls /\ copied \subseteq Calls /\ freed \subseteq Calls \X Streams
  /\ locks \in 0 .. MaxLocks /\ locked \subseteq Mutexes /\ awaited \subseteq Calls
  /\ ended \in {<<>>} \cup ({"group", "deleted", "freed"} \X Calls)

(***************************************************************************)
(* When the loop over the descriptors is done, the child has nothing but   *)
(* its own ends: no standard file, no end that its client keeps, and none  *)
(* of another call that was forked at the same time.                       *)
(***************************************************************************)
Plumbed(t) == child[t] \in {"running", "astray"}

Isolated == \A t \in Calls : Plumbed(t) => \A d \in Descriptors :
  table[t][d] \in {Free} \cup {Far(t, s) : s \in Streams}

(***************************************************************************)
(* The program of a ZSProcess writes to the reader that its client holds,  *)
(* as example/process/cpp/main.cpp:44-53 reads what /bin/ls writes.        *)
(***************************************************************************)
OutputArrives == \A t \in Calls :
  (child[t] = "running" /\ Cpp(t) /\ Uses(t, "out") /\ <<t, "out">> \notin freed)
    => table[t][1] = Far(t, "out")

(***************************************************************************)
(* A child finds each of its pipes at the number of its output or input,   *)
(* whatever numbers they had and whoever closes ends meanwhile, with one   *)
(* exception: if the end for the input had the number 1, dup2 of the       *)
(* output has replaced it, and the program reads from its own output.      *)
(***************************************************************************)
Redirected == \A t \in Calls : (Plumbed(t) /\ pc[t] \in {"forked", "handled"}) =>
  /\ Redirects(table[Parent], t, "out") => table[t][1] = Far(t, "out")
  /\ Redirects(table[Parent], t, "in") =>
       \/ table[t][0] = Far(t, "in")
       \/ table[t][0] = Far(t, "out") /\ table[Parent][1] = Far(t, "in")

(***************************************************************************)
(* An abort sends the signal to the whole group only when there is no      *)
(* child, because the fork is still to come or failed, or when its number  *)
(* is not stored yet; it uses the deleted object only of a process that    *)
(* was waited for or never was.                                            *)
(***************************************************************************)
AbortsExplained == \A t \in Calls :
  /\ ended = <<"group", t>> => child[t] = "none" \/ pc[t] = "forked"
  /\ ended = <<"deleted", t>> => child[t] \in {"none", "reaped"}

(***************************************************************************)
(* The end of the other side is seen: once a call is done whose process    *)
(* ran, nobody has the writer of its output any more, so that the client's *)
(* reader comes to its end, also with other processes forked meanwhile;    *)
(* and a writer that the client closed stays open nowhere, so that the     *)
(* program comes to the end of its input.                                  *)
(***************************************************************************)
Nowhere(e) == \A p \in Processes : ~Has(table[p], e)

EndOfFile == <>[](ended = <<>> => \A t \in Calls :
  /\ (pc[t] = "done" /\ child[t] = "reaped") => Nowhere(Far(t, "out"))
  /\ (pc[t] # "new" /\ ~Has(table[Parent], Near(t, "in"))) => Nowhere(Near(t, "in")))

(***************************************************************************)
(* A call ends when its program has, also one that was aborted; and when   *)
(* execv failed, unless the child was forked at a moment when somebody had *)
(* one of the three mutexes that the cleanup of its thread takes, or       *)
(* waited for the thread: it is then blocked, and the call waits for it.   *)
(***************************************************************************)
CallEnds == <>[](ended = <<>> => \A t \in Calls :
  (child[t] \in {"exited", "reaped"} \/ (child[t] = "astray" /\ t \notin copied))
    => pc[t] = "done")
=============================================================================
