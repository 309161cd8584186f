------------------------------ MODULE ZsThread ------------------------------
(***************************************************************************)
(* The threads of lib/zslib.c: zs__execute, struct zs__thread with its     *)
(* zs__thread_create, _execute, _wait, _abort, _available, the start       *)
(* routine and the cleanup handler of every thread.                        *)
(*                                                                         *)
(* A new thread halts at its waiting_threads_mutex, which its creator      *)
(* locked and zs__thread_execute unlocks.  The same mutex protects the     *)
(* condition that zs__thread_wait waits for.  thread_map_mutex protects    *)
(* the map, threads_running_mutex the count of the threads.  A section     *)
(* under one of them that cannot block is one action, whose guard is that  *)
(* the mutex is free; the mutexes are of the default kind, which any       *)
(* thread may unlock, locked or not.                                       *)
(***************************************************************************)
EXTENDS ZsThreadMap

CONSTANTS
  Main,       \* the thread that runs a_main
  Master,     \* the thread that is in zs__execute
  Nobody,     \* the owner of a free mutex
  HasAbort,   \* the threads created with an abort function
  MaxExecutes,\* bound: how often each thread is executed
  Careful     \* TRUE: the clients keep the rules below

ASSUME ThreadAssumption ==
  /\ Main \in Threads /\ Master \notin Threads /\ Nobody \notin Threads \cup {Master}
  /\ HasAbort \subseteq Threads \ {Main}   \* zs__execute gives Main none
  /\ MaxExecutes \in [Threads -> Nat \ {0}] /\ Careful \in BOOLEAN

VARIABLES
  pc,          \* where each thread is
  target,      \* the thread it creates or waits for
  parent,      \* who created each thread
  running,     \* threads_running
  mapOwner,    \* who has thread_map_mutex across its actions
  waitOwner,   \* who has the waiting_threads_mutex of each thread
  waiting,     \* waiting_threads of each thread
  freed,       \* the threads whose struct zs__thread is freed
  cancelled,   \* the threads with a pending pthread_cancel
  resumed,     \* how often zs__thread_execute returned true for each thread
  joined,      \* the threads whose end the creator has seen
  crashed,     \* a use of freed memory ended the process
  exited       \* zs__execute returned

countVars == <<parent, running>>
waitVars  == <<waitOwner, waiting>>
lifeVars  == <<freed, cancelled, resumed, joined>>
endVars   == <<crashed, exited>>
vars == <<mapVars, pc, target, countVars, mapOwner, waitVars, lifeVars, endVars>>

Actors == Threads \cup {Master}
Places == {"none", "halt", "starting", "run", "create", "spawn", "await", "waitLock",
           "waitCv", "sleep", "woken", "endless", "remove", "count", "signal", "free", "done"}

Init ==
  /\ MapInit
  /\ pc = [a \in Actors |-> IF a = Master THEN "run" ELSE "none"]
  /\ target = [a \in Actors |-> Nobody]
  /\ parent = [t \in Threads |-> Nobody]
  /\ running = 0
  /\ mapOwner = Nobody
  /\ waitOwner = [t \in Threads |-> Nobody]
  /\ waiting = [t \in Threads |-> 0]
  /\ freed = {} /\ cancelled = {} /\ joined = {}
  /\ resumed = [t \in Threads |-> 0]
  /\ crashed = FALSE /\ exited = FALSE

(* a thread that is at this place and may go on *)
At(a, place) == pc[a] = place /\ ~crashed /\ ~exited

Goto(a, place) == pc' = [pc EXCEPT ![a] = place]

Children(a) == {t \in Threads : parent[t] = a}

(***************************************************************************)
(* What a thread's function may do.  Careful clients leave the first       *)
(* execute to the creator, use a handle until the thread's end is seen     *)
(* (zs__thread_wait returned, or zs__thread_available returned 0) and no   *)
(* longer, wait only for threads they created, see the end of one thread   *)
(* before they create the next or end themselves, and abort only threads   *)
(* with an abort function.                                                 *)
(***************************************************************************)
Usable(a, h) == ~Careful \/ (h \notin joined /\ resumed[h] > 0)
MayWait(a, h) == Usable(a, h) /\ (Careful => parent[h] = a)
MayExecute(a, h) ==
  /\ resumed[h] < MaxExecutes[h]
  /\ Careful => h \notin joined /\ (resumed[h] = 0 => parent[h] = a)
MayCreateOrEnd(a) == Careful => Children(a) \subseteq joined
MayAbort(a, h) == Usable(a, h) /\ (Careful => h \in HasAbort)

(* the handles that zs__thread_create has returned *)
Known == {t \in Threads : pc[t] # "none"}

(* Mutant of BeginCreate: the thread is not counted. *)
BeginCreateUncounted(a, t) ==
  /\ At(a, "run") /\ parent[t] = Nobody /\ (a = Master <=> t = Main)
  /\ MayCreateOrEnd(a)
  /\ parent' = [parent EXCEPT ![t] = a]
  /\ target' = [target EXCEPT ![a] = t]
  /\ Goto(a, "create")
  /\ UNCHANGED <<mapVars, running, mapOwner, waitVars, lifeVars, endVars>>

(***************************************************************************)
(* zs__thread_create: count the thread, put it into the map with its mutex *)
(* locked, start it.  zs__execute creates Main.                            *)
(***************************************************************************)
BeginCreate(a, t) ==
  /\ At(a, "run") /\ parent[t] = Nobody /\ (a = Master <=> t = Main)
  /\ MayCreateOrEnd(a)
  /\ running' = running + 1
  /\ parent' = [parent EXCEPT ![t] = a]
  /\ target' = [target EXCEPT ![a] = t]
  /\ Goto(a, "create")
  /\ UNCHANGED <<mapVars, mapOwner, waitVars, lifeVars, endVars>>

(* Mutant of InsertThread: the mutex is not locked, the thread starts by itself. *)
InsertThreadUnlocked(a) ==
  /\ At(a, "create") /\ mapOwner = Nobody
  /\ \E stale \in {Null} \cup freed : Insert(target[a], stale)
  /\ Goto(a, "spawn")
  /\ UNCHANGED <<target, countVars, mapOwner, waitVars, lifeVars, endVars>>

InsertThread(a) ==
  /\ At(a, "create") /\ mapOwner = Nobody
  /\ \E stale \in {Null} \cup freed : Insert(target[a], stale)
  /\ waitOwner' = [waitOwner EXCEPT ![target[a]] = a]
  /\ Goto(a, "spawn")
  /\ UNCHANGED <<target, countVars, mapOwner, waiting, lifeVars, endVars>>

Spawn(a) ==
  /\ At(a, "spawn")
  /\ handle' = [handle EXCEPT ![target[a]] = target[a]]
  /\ pc' = [pc EXCEPT ![a] = "run", ![target[a]] = "halt"]
  /\ UNCHANGED <<head, next, entryOf, allocated, target, countVars, mapOwner, waitVars,
                 lifeVars, endVars>>

(* pthread_create fails, which is not looked at: counted, in the map, never run. *)
SpawnFails(a) ==
  /\ At(a, "spawn")
  /\ Goto(a, "run")
  /\ UNCHANGED <<mapVars, target, countVars, mapOwner, waitVars, lifeVars, endVars>>

(***************************************************************************)
(* zs__thread_start: lock and unlock the mutex, then the function.         *)
(***************************************************************************)
Start(t) ==
  /\ At(t, "halt") /\ waitOwner[t] = Nobody
  /\ waitOwner' = [waitOwner EXCEPT ![t] = t]
  /\ Goto(t, "starting")
  /\ UNCHANGED <<mapVars, target, countVars, mapOwner, waiting, lifeVars, endVars>>

Started(t) ==
  /\ At(t, "starting")
  /\ waitOwner' = [waitOwner EXCEPT ![t] = Nobody]
  /\ Goto(t, "run")
  /\ UNCHANGED <<mapVars, target, countVars, mapOwner, waiting, lifeVars, endVars>>

(***************************************************************************)
(* The calls that look a handle up, with thread_map_mutex locked.          *)
(***************************************************************************)
LooksUp(a, h) ==
  \/ /\ At(a, "run") /\ h \in Known /\ (a = Master => h = Main)
     /\ Usable(a, h) \/ MayExecute(a, h)
  \/ At(a, "remove") /\ h = handle[a]

Finds(a, h) == LooksUp(a, h) /\ mapOwner = Nobody /\ FindEnds(h)

Execute(a, h) ==
  /\ At(a, "run") /\ Finds(a, h) /\ MayExecute(a, h)
  /\ IF Find(h) = Null
       THEN UNCHANGED <<waitOwner, resumed>>
       ELSE /\ waitOwner' = [waitOwner EXCEPT ![entryOf[Find(h)]] = Nobody]
            /\ resumed' = [resumed EXCEPT ![h] = @ + 1]
  /\ Goto(a, IF a = Master THEN "await" ELSE "run")
  /\ UNCHANGED <<mapVars, target, countVars, mapOwner, waiting, freed, cancelled, joined,
                 endVars>>

Sees(a, h) == joined' = IF parent[h] = a THEN joined \cup {h} ELSE joined

Available(a, h) ==
  /\ At(a, "run") /\ a # Master /\ Finds(a, h) /\ Usable(a, h)
  /\ Find(h) = Null
  /\ Sees(a, h)
  /\ UNCHANGED <<mapVars, pc, target, countVars, mapOwner, waitVars, freed, cancelled, resumed,
                 endVars>>

(* The abort function, which is the clients', runs with the mutex locked. *)
Abort(a, h) ==
  /\ At(a, "run") /\ a # Master /\ Finds(a, h) /\ MayAbort(a, h)
  /\ Find(h) # Null /\ entryOf[Find(h)] \notin HasAbort
  /\ cancelled' = cancelled \cup {h}
  /\ UNCHANGED <<mapVars, pc, target, countVars, mapOwner, waitVars, freed, resumed, joined,
                 endVars>>

(* Its data may be gone: ZSThread::InternRun deletes the object, the loop   *)
(* and the server free theirs, before the thread is taken off the map.     *)
AbortEnded(a, h) ==
  /\ At(a, "run") /\ a # Master /\ Finds(a, h) /\ MayAbort(a, h)
  /\ Find(h) # Null /\ entryOf[Find(h)] \in HasAbort /\ pc[entryOf[Find(h)]] = "remove"
  /\ crashed' = TRUE
  /\ UNCHANGED <<mapVars, pc, target, countVars, mapOwner, waitVars, lifeVars, exited>>

(***************************************************************************)
(* zs__thread_wait: look the handle up; with thread_map_mutex still locked *)
(* lock the thread's mutex; then wait, once, for the broadcast.            *)
(***************************************************************************)
WaitFind(a, h) ==
  /\ At(a, "run") /\ a # Master /\ Finds(a, h) /\ MayWait(a, h)
  /\ IF Find(h) = Null
       THEN Sees(a, h) /\ UNCHANGED <<pc, target, mapOwner>>
       ELSE /\ mapOwner' = a
            /\ target' = [target EXCEPT ![a] = entryOf[Find(h)]]
            /\ Goto(a, "waitLock")
            /\ joined' = joined
  /\ UNCHANGED <<mapVars, countVars, waitVars, freed, cancelled, resumed, endVars>>

(* Mutants of WaitLock: the thread's mutex is not locked; the map's is kept. *)
WaitLockNot(a) ==
  /\ At(a, "waitLock")
  /\ waiting' = [waiting EXCEPT ![target[a]] = @ + 1]
  /\ mapOwner' = Nobody
  /\ Goto(a, "waitCv")
  /\ UNCHANGED <<mapVars, target, countVars, waitOwner, lifeVars, endVars>>

WaitLockKeepMap(a) ==
  /\ At(a, "waitLock") /\ waitOwner[target[a]] = Nobody
  /\ waitOwner' = [waitOwner EXCEPT ![target[a]] = a]
  /\ waiting' = [waiting EXCEPT ![target[a]] = @ + 1]
  /\ Goto(a, "waitCv")
  /\ UNCHANGED <<mapVars, target, countVars, mapOwner, lifeVars, endVars>>

WaitLock(a) ==
  /\ At(a, "waitLock") /\ waitOwner[target[a]] = Nobody
  /\ waitOwner' = [waitOwner EXCEPT ![target[a]] = a]
  /\ waiting' = [waiting EXCEPT ![target[a]] = @ + 1]
  /\ mapOwner' = Nobody
  /\ Goto(a, "waitCv")
  /\ UNCHANGED <<mapVars, target, countVars, lifeVars, endVars>>

(* Mutant of WaitSleep: zs__thread_wait does not wait. *)
WaitSleepNot(a) ==
  /\ At(a, "waitCv")
  /\ waitOwner' = [waitOwner EXCEPT ![target[a]] = Nobody]
  /\ Goto(a, "woken")
  /\ UNCHANGED <<mapVars, target, countVars, mapOwner, waiting, lifeVars, endVars>>

WaitSleep(a) ==
  /\ At(a, "waitCv")
  /\ waitOwner' = [waitOwner EXCEPT ![target[a]] = Nobody]
  /\ Goto(a, "sleep")
  /\ UNCHANGED <<mapVars, target, countVars, mapOwner, waiting, lifeVars, endVars>>

(* The waiter needs the mutex again, which may have been destroyed by now. *)
WaitReturn(a) ==
  /\ At(a, "woken") /\ a # Master
  /\ waitOwner[target[a]] = Nobody \/ target[a] \in freed
  /\ Sees(a, target[a])
  /\ Goto(a, "run")
  /\ UNCHANGED <<mapVars, target, countVars, mapOwner, waitVars, freed, cancelled, resumed,
                 endVars>>

(***************************************************************************)
(* The end of a thread: its function returns, or a pthread_cancel takes    *)
(* effect, in the function or in the pthread_cond_wait of zs__thread_wait, *)
(* which locks the mutex again before the cleanup handler runs.            *)
(***************************************************************************)
End(t) ==
  /\ At(t, "run") /\ MayCreateOrEnd(t)
  /\ Goto(t, "remove")
  /\ UNCHANGED <<mapVars, target, countVars, mapOwner, waitVars, lifeVars, endVars>>

Cancelled(t) ==
  /\ t \in cancelled
  /\ \/ At(t, "run") /\ UNCHANGED waitOwner
     \/ /\ At(t, "sleep") /\ waitOwner[target[t]] = Nobody
        /\ waitOwner' = [waitOwner EXCEPT ![target[t]] = t]
  /\ Goto(t, "remove")
  /\ UNCHANGED <<mapVars, target, countVars, mapOwner, waiting, lifeVars, endVars>>

(***************************************************************************)
(* zs__thread_cleanup.                                                     *)
(***************************************************************************)
RemoveThread(t) ==
  /\ At(t, "remove") /\ Finds(t, handle[t])
  /\ IF Find(handle[t]) = Null
       THEN UNCHANGED mapVars
       ELSE RemoveEnds(Find(handle[t])) /\ Remove(Find(handle[t]))
  /\ Goto(t, "count")
  /\ UNCHANGED <<target, countVars, mapOwner, waitVars, lifeVars, endVars>>

(* Mutant of CountDown: every thread's end is signalled, not the last one's. *)
CountDownSignals(t) ==
  /\ At(t, "count")
  /\ running' = running - 1
  /\ pc' = [pc EXCEPT ![t] = "signal", ![Master] = IF @ = "sleep" THEN "woken" ELSE @]
  /\ UNCHANGED <<mapVars, target, parent, mapOwner, waitVars, lifeVars, endVars>>

CountDown(t) ==
  /\ At(t, "count")
  /\ running' = running - 1
  /\ pc' = [pc EXCEPT ![t] = "signal",
                      ![Master] = IF running = 1 /\ @ = "sleep" THEN "woken" ELSE @]
  /\ UNCHANGED <<mapVars, target, parent, mapOwner, waitVars, lifeVars, endVars>>

Sleepers(t) == {a \in Threads : pc[a] = "sleep" /\ target[a] = t}

SignalWaiters(t) ==
  /\ At(t, "signal") /\ waitOwner[t] = Nobody
  /\ pc' = [a \in Actors |-> IF a = t THEN "free"
                             ELSE IF waiting[t] > 0 /\ a \in Sleepers(t) THEN "woken"
                             ELSE pc[a]]
  /\ UNCHANGED <<mapVars, target, countVars, mapOwner, waitVars, lifeVars, endVars>>

FreeThread(t) ==
  /\ At(t, "free")
  /\ freed' = freed \cup {t}
  /\ Goto(t, "done")
  /\ UNCHANGED <<mapVars, target, countVars, mapOwner, waitVars, cancelled, resumed, joined,
                 endVars>>

(***************************************************************************)
(* The end of zs__execute: one wait for the signal of the last thread,     *)
(* without a look at threads_running.  Its return ends the process.        *)
(***************************************************************************)
MasterWait ==
  /\ At(Master, "await")
  /\ Goto(Master, "sleep")
  /\ UNCHANGED <<mapVars, target, countVars, mapOwner, waitVars, lifeVars, endVars>>

MasterReturn ==
  /\ At(Master, "woken")
  /\ exited' = TRUE
  /\ UNCHANGED <<mapVars, pc, target, countVars, mapOwner, waitVars, lifeVars, crashed>>

(***************************************************************************)
(* Freed memory: a walk over the map reads a freed block or the handle in  *)
(* a freed struct, or a waiter locks the mutex in a freed struct.  Either  *)
(* it finds the old contents (the actions above) or the process ends.  A   *)
(* circle in the map keeps the walk, and thread_map_mutex, for ever.       *)
(***************************************************************************)
TouchesFreed(h) == \E b \in Visited(h) : b \notin allocated \/ entryOf[b] \in freed

Fault(a) ==
  /\ \/ mapOwner = Nobody /\ \E h \in Threads : LooksUp(a, h) /\ TouchesFreed(h)
     \/ At(a, "waitLock") /\ target[a] \in freed
     \/ At(a, "woken") /\ a # Master /\ target[a] \in freed
  /\ crashed' = TRUE
  /\ UNCHANGED <<mapVars, pc, target, countVars, mapOwner, waitVars, lifeVars, exited>>

Hang(a) ==
  /\ mapOwner = Nobody
  /\ \E h \in Threads : LooksUp(a, h) /\
       \/ ~FindEnds(h)
       \/ pc[a] = "remove" /\ Find(h) # Null /\ ~RemoveEnds(Find(h))
  /\ mapOwner' = a
  /\ Goto(a, "endless")
  /\ UNCHANGED <<mapVars, target, countVars, waitVars, lifeVars, endVars>>

Client(a) ==
  \E h \in Threads : \/ BeginCreate(a, h) \/ Execute(a, h) \/ WaitFind(a, h)
                     \/ Available(a, h) \/ Abort(a, h) \/ AbortEnded(a, h)

Library(t) ==
  \/ Start(t) \/ Started(t) \/ RemoveThread(t) \/ CountDown(t) \/ SignalWaiters(t)
  \/ FreeThread(t) \/ WaitLock(t) \/ WaitSleep(t) \/ WaitReturn(t)

Creation(a) == InsertThread(a) \/ Spawn(a) \/ SpawnFails(a)

MasterStep == MasterWait \/ MasterReturn \/ (\E t \in Threads : BeginCreate(Master, t))
              \/ Execute(Master, Main)

Next ==
  \/ \E a \in Actors : Client(a) \/ Creation(a) \/ Fault(a) \/ Hang(a)
  \/ \E t \in Threads : Library(t) \/ End(t) \/ Cancelled(t)
  \/ MasterWait \/ MasterReturn

(***************************************************************************)
(* The scheduler runs every thread that is in the library; zs__execute     *)
(* goes its way.  No thread's function has to return or to call anything.  *)
(***************************************************************************)
Spec ==
  /\ Init /\ [][Next]_vars
  /\ WF_vars(MasterStep)
  /\ \A a \in Actors : WF_vars(Creation(a))
  /\ \A t \in Threads : WF_vars(Library(t))

(* The same, and every thread's function returns when its client may return. *)
EndingSpec == Spec /\ \A t \in Threads : WF_vars(End(t))

-----------------------------------------------------------------------------
(***************************************************************************)
(* Every variable has its type.                                            *)
(***************************************************************************)
TypeOK ==
  /\ MapTypeOK
  /\ pc \in [Actors -> Places]
  /\ target \in [Actors -> Threads \cup {Nobody}]
  /\ parent \in [Threads -> Actors \cup {Nobody}]
  /\ running \in 0 .. Cardinality(Threads)
  /\ mapOwner \in Actors \cup {Nobody}
  /\ waitOwner \in [Threads -> Actors \cup {Nobody}]
  /\ waiting \in [Threads -> Nat]
  /\ freed \subseteq Threads /\ cancelled \subseteq Threads /\ joined \subseteq Threads
  /\ resumed \in [Threads -> Nat] /\ \A t \in Threads : resumed[t] <= MaxExecutes[t]
  /\ {crashed, exited} \subseteq BOOLEAN

(***************************************************************************)
(* zs__execute returns, and with it the process ends, only when the        *)
(* function of every thread has ended and nothing is left in the map       *)
(* mutex: even then when the clients wait, abort and create at will.       *)
(***************************************************************************)
Ended == {"none", "signal", "free", "done"}

MasterLast == pc[Master] = "woken" =>
  \A t \in Threads : pc[t] \in Ended /\ (pc[t] = "none" => parent[t] = Nobody)

(***************************************************************************)
(* A thread that has halted for its zs__thread_execute is in the map: the  *)
(* execute finds it (zslib.h:62, "OK: return true").                       *)
(***************************************************************************)
Startable == \A t \in Threads :
  pc[t] = "halt" => FindEnds(t) /\ Find(t) # Null /\ entryOf[Find(t)] = t

(***************************************************************************)
(* "Wait for last thread finished" (zslib.c:342): when there is no thread  *)
(* any more, zs__execute returns.                                          *)
(***************************************************************************)
Over == pc[Master] \in {"await", "sleep", "woken"} /\ running = 0

ExecuteReturns == Over ~> (exited \/ crashed)

(***************************************************************************)
(* A thread that waits for another one goes on after the other's end, as   *)
(* the main function of example/thread/c/test.c:79 does, unless it      *)
(* locks a mutex that is freed by then: no wake-up is lost between the     *)
(* count of the waiter and its pthread_cond_wait.  Only a second execute   *)
(* of the running thread, which returns true as well and unlocks the mutex *)
(* that the waiter has, can let the broadcast come before the wait.        *)
(***************************************************************************)
ExecutedTwice(t) == t \in Threads /\ resumed[t] > 1

WaitEndsOrFault == \A a \in Threads :
  (pc[a] \in {"waitCv", "sleep"} /\ pc[target[a]] = "remove")
     ~> (pc[a] = "run" \/ ExecutedTwice(target[a]) \/ exited \/ crashed)

(***************************************************************************)
(* The map holds the threads between their creation and their cleanup, and *)
(* each entry is a block that is not freed: what zs__thread_map_remove     *)
(* keeps as long as the thread that ends is the newest.                    *)
(***************************************************************************)
Registered(t) ==
  \/ pc[t] \notin {"none"} \cup Ended \cup {"count"}
  \/ pc[t] = "none" /\ parent[t] # Nobody
       /\ ~\E a \in Actors : pc[a] = "create" /\ target[a] = t

MapExact ==
  /\ \E n \in DOMAIN Walk : Walk[n] = Null
  /\ {Walk[n] : n \in DOMAIN Walk} \ {Null} = allocated
  /\ {entryOf[b] : b \in allocated} = {t \in Threads : Registered(t)}

(***************************************************************************)
(* Clients that keep the rules meet freed memory in two ways only: the     *)
(* thread that they wait for has freed the mutex before they have it       *)
(* again, or they abort a thread whose function has just ended.            *)
(***************************************************************************)
CarefulFaults == crashed =>
  \/ \E a \in Threads : pc[a] = "woken" /\ target[a] \in freed
  \/ \E t \in HasAbort : pc[t] = "remove"

(***************************************************************************)
(* The function of a thread runs only after a zs__thread_execute of it,    *)
(* and has ended when zs__thread_wait has returned or zs__thread_available *)
(* has returned 0: neither the lock of the mutex at the creation nor the   *)
(* broadcast at the end is overtaken.                                      *)
(***************************************************************************)
LifeInOrder == \A t \in Threads :
  /\ pc[t] \notin {"none", "halt"} => resumed[t] > 0
  /\ t \in joined => pc[t] \in Ended \cup {"count"}

(***************************************************************************)
(* zs__thread_wait, which locks the mutex of a thread with the map locked, *)
(* does not keep the map: no deadlock with the thread or its creator.      *)
(***************************************************************************)
MapReleased == (mapOwner # Nobody) ~> (mapOwner = Nobody \/ crashed \/ exited)
=============================================================================
