--------------------------- MODULE ZsMessageLoop ----------------------------
(***************************************************************************)
(* struct zs__messageloop of lib/zslib.c: a queue of messages, the flag    *)
(* aborting, and a thread that hands the messages to a response function.  *)
(* Semaphore 0 of the loop's semaphore set is the mutex of the queue,      *)
(* semaphore 1 counts the messages, and the abort.                         *)
(*                                                                         *)
(* Every zs__semaphore_op is the chain of stages of module ZsSemaphore: an *)
(* action below that says Op(...) begins a call, and the next action of    *)
(* the same thread needs Idle, the end of that call.                       *)
(*                                                                         *)
(* zs__messageloop_abort is reached through zs__thread_abort only, which   *)
(* calls it with thread_map_mutex locked and while the loop's thread is in *)
(* the thread map: one abort at a time, and the thread does not leave the  *)
(* map ("done") while one is in progress.                                  *)
(***************************************************************************)
EXTENDS ZsSemaphore, Sequences

CONSTANTS
  Loop,       \* the loop's thread
  Aborters,   \* the threads that abort the loop (the loop may abort itself)
  Nobody,     \* no thread
  NoElement,  \* the null pointer
  MaxPosts,   \* bound: how many messages each thread posts
  MaxAborts,  \* bound: how often the loop is aborted
  AbortLast   \* TRUE: the clients make the abort their last call on the loop

ASSUME LoopAssumption ==
  /\ Count = 2
  /\ Loop \in Threads /\ Aborters \subseteq Threads
  /\ MaxPosts \in [Threads -> Nat] /\ MaxAborts \in Nat
  /\ AbortLast \in BOOLEAN
  /\ Nobody \notin Threads
  /\ NoElement \notin Threads \X Nat   \* it is no message

VARIABLES
  queue,      \* the list from first to last
  aborting,
  pc,         \* where each thread is in zs__messageloop_post or _abort
  loop,       \* where the loop's thread is in zs__messageloop_run
  element,    \* a_element of zs__messageloop_run
  posts,      \* how many messages each thread has tried to post
  aborts,     \* how many aborts were begun
  mapOwner,   \* the thread that keeps thread_map_mutex for its abort
  accepted,   \* the messages whose post returns true, in order
  handled     \* the messages whose response returned, in order

loopVars == <<queue, aborting, pc, loop, element, posts, aborts, mapOwner, accepted, handled>>
vars == <<semVars, loopVars>>

Messages == UNION {{t} \X (1 .. MaxPosts[t]) : t \in Threads}
Labels   == {"idle", "post", "abort", "added", "leaving"}
Places   == {"start", "waiting", "locking", "unlocking", "responding", "afterAbort",
             "destroying", "freed", "done"}
Finished == {"afterAbort", "destroying", "freed", "done"}

(* zs__messageloop_create *)
Init ==
  /\ SemInit([s \in SemIds |-> IF s = 0 THEN 1 ELSE 0])
  /\ queue = <<>> /\ accepted = <<>> /\ handled = <<>>
  /\ aborting = FALSE /\ aborts = 0 /\ mapOwner = Nobody
  /\ pc = [t \in Threads |-> "idle"]
  /\ loop = "start"
  /\ element = NoElement
  /\ posts = [t \in Threads |-> 0]

(***************************************************************************)
(* The two memory blocks, and when they are gone: the handle is freed at   *)
(* the end of zs__semaphore_destroy, the struct right after it.            *)
(***************************************************************************)
Gone == loop \in {"freed", "done"} \/ (loop = "destroying" /\ Idle(Loop))

UsesLoop(t) == IF Idle(t) THEN pc[t] \in {"post", "abort", "added"}
                          ELSE pc[t] # "idle" /\ stage[t] = "inc"

(***************************************************************************)
(* A client call begins.  The loop's own thread makes calls only from the  *)
(* response and from after_abort.                                          *)
(***************************************************************************)
Free(t) ==
  /\ pc[t] = "idle" /\ Idle(t)
  /\ t = Loop => loop \in {"responding", "afterAbort"}

BeginPost(t) ==
  /\ Free(t) /\ posts[t] < MaxPosts[t]
  /\ AbortLast /\ t # Loop => aborts = 0
  /\ Op(t, 0, -1, FALSE)
  /\ pc' = [pc EXCEPT ![t] = "post"]
  /\ posts' = [posts EXCEPT ![t] = @ + 1]
  /\ UNCHANGED <<queue, aborting, loop, element, aborts, mapOwner, accepted, handled>>

BeginAbort(t) ==
  /\ t \in Aborters /\ Free(t) /\ loop # "done" /\ aborts < MaxAborts
  /\ AbortLast => aborts = 0 /\ \A u \in Threads \ {Loop} : pc[u] = "idle"
  /\ mapOwner = Nobody /\ mapOwner' = t
  /\ Op(t, 0, -1, FALSE)
  /\ pc' = [pc EXCEPT ![t] = "abort"]
  /\ aborts' = aborts + 1
  /\ UNCHANGED <<queue, aborting, loop, element, posts, accepted, handled>>

(***************************************************************************)
(* With the mutex: zs__messageloop_post puts its message at the end of the *)
(* queue, zs__messageloop_abort sets the flag, and either adds 1 to        *)
(* semaphore 1.  After an abort both just go on to unlock.                 *)
(***************************************************************************)
Message(t) == <<t, posts[t]>>

(* Mutants of Add: the message goes to the front; aborting is not looked at. *)
AddInFront(t) ==
  /\ pc[t] = "post" /\ ~aborting
  /\ queue' = <<Message(t)>> \o queue
  /\ accepted' = Append(accepted, Message(t))
  /\ Op(t, 1, 1, FALSE)
  /\ pc' = [pc EXCEPT ![t] = "added"]
  /\ UNCHANGED <<aborting, loop, element, posts, aborts, mapOwner, handled>>

AddAlways(t) ==
  /\ pc[t] = "post"
  /\ queue' = Append(queue, Message(t))
  /\ accepted' = Append(accepted, Message(t))
  /\ Op(t, 1, 1, FALSE)
  /\ pc' = [pc EXCEPT ![t] = "added"]
  /\ UNCHANGED <<aborting, loop, element, posts, aborts, mapOwner, handled>>

Add(t) ==
  /\ pc[t] = "post" /\ ~aborting
  /\ queue' = Append(queue, Message(t))
  /\ accepted' = Append(accepted, Message(t))
  /\ Op(t, 1, 1, FALSE)
  /\ pc' = [pc EXCEPT ![t] = "added"]
  /\ UNCHANGED <<aborting, loop, element, posts, aborts, mapOwner, handled>>

(* Mutant of Abort: the loop is not told. *)
AbortSilently(t) ==
  /\ pc[t] = "abort" /\ ~aborting /\ Idle(t) /\ ~crashed
  /\ aborting' = TRUE
  /\ pc' = [pc EXCEPT ![t] = "added"]
  /\ UNCHANGED <<semVars, queue, loop, element, posts, aborts, mapOwner, accepted, handled>>

Abort(t) ==
  /\ pc[t] = "abort" /\ ~aborting
  /\ aborting' = TRUE
  /\ Op(t, 1, 1, FALSE)
  /\ pc' = [pc EXCEPT ![t] = "added"]
  /\ UNCHANGED <<queue, loop, element, posts, aborts, mapOwner, accepted, handled>>

(* Mutant of Unlock: a refused call returns with the mutex locked. *)
UnlockUnlessRefused(t) ==
  IF pc[t] = "added"
    THEN /\ Op(t, 0, 1, FALSE)
         /\ pc' = [pc EXCEPT ![t] = "leaving"]
         /\ UNCHANGED <<queue, aborting, loop, element, posts, aborts, mapOwner, accepted, handled>>
    ELSE /\ pc[t] \in {"post", "abort"} /\ aborting /\ Idle(t) /\ ~crashed
         /\ pc' = [pc EXCEPT ![t] = "leaving"]
         /\ UNCHANGED <<semVars, queue, aborting, loop, element, posts, aborts, mapOwner, accepted, handled>>

Unlock(t) ==
  /\ pc[t] = "added" \/ (pc[t] \in {"post", "abort"} /\ aborting)
  /\ Op(t, 0, 1, FALSE)
  /\ pc' = [pc EXCEPT ![t] = "leaving"]
  /\ UNCHANGED <<queue, aborting, loop, element, posts, aborts, mapOwner, accepted, handled>>

Return(t) ==
  /\ pc[t] = "leaving" /\ Idle(t) /\ ~crashed
  /\ pc' = [pc EXCEPT ![t] = "idle"]
  /\ mapOwner' = IF mapOwner = t THEN Nobody ELSE mapOwner
  /\ UNCHANGED <<semVars, queue, aborting, loop, element, posts, aborts, accepted, handled>>

(***************************************************************************)
(* zs__messageloop_run: wait for a message, lock, take the first element   *)
(* if there is one, unlock, and call the response with it.                 *)
(***************************************************************************)
Goto(from, to) == loop = from /\ loop' = to

LoopWait ==
  /\ Goto("start", "waiting")
  /\ Op(Loop, 1, -1, FALSE)
  /\ UNCHANGED <<queue, aborting, pc, element, posts, aborts, mapOwner, accepted, handled>>

LoopLock ==
  /\ Goto("waiting", "locking")
  /\ Op(Loop, 0, -1, FALSE)
  /\ UNCHANGED <<queue, aborting, pc, element, posts, aborts, mapOwner, accepted, handled>>

LoopTake ==
  /\ Goto("locking", "unlocking")
  /\ element' = IF queue = <<>> THEN NoElement ELSE Head(queue)
  /\ queue' = IF queue = <<>> THEN <<>> ELSE Tail(queue)
  /\ Op(Loop, 0, 1, FALSE)
  /\ UNCHANGED <<aborting, pc, posts, aborts, mapOwner, accepted, handled>>

LoopRespond ==
  /\ element # NoElement /\ Idle(Loop) /\ ~crashed
  /\ Goto("unlocking", "responding")
  /\ UNCHANGED <<semVars, queue, aborting, pc, element, posts, aborts, mapOwner, accepted, handled>>

(* The response, which may have posted and aborted, returns. *)
LoopResponded ==
  /\ Idle(Loop) /\ pc[Loop] = "idle" /\ ~crashed
  /\ Goto("responding", "start")
  /\ handled' = Append(handled, element)
  /\ element' = NoElement
  /\ UNCHANGED <<semVars, queue, aborting, pc, posts, aborts, mapOwner, accepted>>

(* Mutant of LoopExit: the loop is left as soon as aborting is set. *)
LoopExitAtOnce ==
  /\ aborting /\ Idle(Loop) /\ ~crashed
  /\ Goto("unlocking", "afterAbort")
  /\ UNCHANGED <<semVars, queue, aborting, pc, element, posts, aborts, mapOwner, accepted, handled>>

(***************************************************************************)
(* No element: the loop is left, after_abort is called, and the loop's     *)
(* thread frees the handle and the struct and leaves the thread map.       *)
(***************************************************************************)
LoopExit ==
  /\ element = NoElement /\ Idle(Loop) /\ ~crashed
  /\ Goto("unlocking", "afterAbort")
  /\ UNCHANGED <<semVars, queue, aborting, pc, element, posts, aborts, mapOwner, accepted, handled>>

(* Mutant of LoopDestroy: the semaphores are forgotten. *)
LoopDestroyNothing ==
  /\ pc[Loop] = "idle" /\ Idle(Loop) /\ ~crashed
  /\ Goto("afterAbort", "destroying")
  /\ UNCHANGED <<semVars, queue, aborting, pc, element, posts, aborts, mapOwner, accepted, handled>>

LoopDestroy ==
  /\ pc[Loop] = "idle"
  /\ Goto("afterAbort", "destroying")
  /\ Destroy(Loop)
  /\ UNCHANGED <<queue, aborting, pc, element, posts, aborts, mapOwner, accepted, handled>>

LoopFree ==
  /\ Idle(Loop) /\ ~crashed
  /\ Goto("destroying", "freed")
  /\ UNCHANGED <<semVars, queue, aborting, pc, element, posts, aborts, mapOwner, accepted, handled>>

LoopLeave ==
  /\ mapOwner = Nobody /\ ~crashed
  /\ Goto("freed", "done")
  /\ UNCHANGED <<semVars, queue, aborting, pc, element, posts, aborts, mapOwner, accepted, handled>>

(***************************************************************************)
(* A call that uses the freed struct or handle either goes on with what    *)
(* the memory holds (the actions above) or ends the process.               *)
(***************************************************************************)
FaultLoop(t) ==
  /\ Gone /\ UsesLoop(t) /\ ~crashed
  /\ crashed' = TRUE
  /\ UNCHANGED <<val, removed, references, freed, stage, call, loaded, result, loopVars>>

CallStage(t) == CallStep(t) /\ UNCHANGED loopVars

Call(t) == BeginPost(t) \/ BeginAbort(t)
Go(t)     == Add(t) \/ Abort(t) \/ Unlock(t) \/ Return(t) \/ CallStage(t)
RunLoop   == \/ LoopWait \/ LoopLock \/ LoopTake \/ LoopRespond \/ LoopResponded
             \/ LoopExit \/ LoopDestroy \/ LoopFree \/ LoopLeave

Next == (\E t \in Threads : Call(t) \/ Go(t) \/ FaultLoop(t)) \/ RunLoop

(***************************************************************************)
(* The scheduler runs every thread that is in a call, and the loop's       *)
(* thread; nobody has to make a call.                                      *)
(***************************************************************************)
Spec == Init /\ [][Next]_vars /\ WF_vars(RunLoop) /\ \A t \in Threads : WF_vars(Go(t))

-----------------------------------------------------------------------------
(***************************************************************************)
(* Every variable has its type.                                            *)
(***************************************************************************)
TypeOK ==
  /\ SemTypeOK
  /\ queue \in Seq(Messages) /\ accepted \in Seq(Messages) /\ handled \in Seq(Messages)
  /\ \A t \in Threads : pc[t] = "post" => Message(t) \in Messages
  /\ aborting \in BOOLEAN
  /\ pc \in [Threads -> Labels]
  /\ loop \in Places
  /\ element \in Messages \cup {NoElement}
  /\ posts \in [Threads -> Nat] /\ aborts \in Nat
  /\ mapOwner \in Threads \cup {Nobody}

(***************************************************************************)
(* The thread has done its P and not yet its V on semaphore 0.             *)
(***************************************************************************)
BeforeKernel == {"inc", "incStore", "kernel"}
AfterKernel  == {"dec", "decStore", "test", "idle"}

HasMutex(t) ==
  \/ pc[t] \in {"post", "abort"} /\ stage[t] \in AfterKernel
  \/ pc[t] = "added"
  \/ pc[t] = "leaving" /\ stage[t] \in BeforeKernel
  \/ t = Loop /\ loop = "locking" /\ stage[t] \in AfterKernel
  \/ t = Loop /\ loop = "unlocking" /\ stage[t] \in BeforeKernel

(***************************************************************************)
(* Semaphore 0 is a mutex: at most one of the posting threads, the aborter *)
(* and the loop is at the queue and the flag, and its value says whether   *)
(* one is (zslib.c:389, 418, 441: "sperre Request-Queue").                 *)
(***************************************************************************)
Exclusive ==
  /\ val[0] \in {0, 1}
  /\ val[0] = 1 <=> \A t \in Threads : ~HasMutex(t)
  /\ \A t, u \in Threads : HasMutex(t) /\ HasMutex(u) => t = u

(***************************************************************************)
(* Semaphore 1 tells the loop exactly what there is to do: its value, plus *)
(* the V a thread is about to do and the P the loop has done, is the       *)
(* length of the queue plus one for the abort.  Neither a message nor the  *)
(* abort can be overlooked, nor the loop woken for nothing.                *)
(***************************************************************************)
Announcing == \E t \in Threads : pc[t] = "added" /\ stage[t] \in BeforeKernel

LoopWoken ==
  \/ loop = "waiting" /\ stage[Loop] \in AfterKernel
  \/ loop = "locking"
  \/ loop = "unlocking" /\ element = NoElement
  \/ loop \in Finished

One(b) == IF b THEN 1 ELSE 0

Tokens == Len(queue) + One(aborting) = val[1] + One(Announcing) + One(LoopWoken)

(***************************************************************************)
(* What was accepted is what was handled, what is being handled and what   *)
(* waits, in this order: no message is lost, handled twice or overtaken.   *)
(***************************************************************************)
InHand == IF element = NoElement THEN <<>> ELSE <<element>>

InOrder == accepted = handled \o InHand \o queue

(***************************************************************************)
(* The abort loses nothing: when after_abort is called, all the messages   *)
(* accepted before the abort have been handled, and a post that still      *)
(* comes, from after_abort itself too, is refused.                         *)
(***************************************************************************)
Drained == loop \in Finished => aborting /\ queue = <<>> /\ handled = accepted

(***************************************************************************)
(* If the abort is the clients' last call, nothing uses the struct or the  *)
(* handle after the loop's thread freed them, not even the abort itself,   *)
(* whose last V may let the loop's thread run to its end.  (The semaphore  *)
(* set outlives the handle by the duplicate of that V.)                    *)
(***************************************************************************)
NoUseAfterFree ==
  /\ \A t \in Threads : ~(Gone /\ UsesLoop(t)) /\ ~(freed /\ TouchesCell(t))
  /\ ~crashed

(***************************************************************************)
(* When the loop is freed and all calls are over, the kernel's semaphore   *)
(* set is removed: the library does not leak System V semaphores.          *)
(***************************************************************************)
NoLeak == Gone /\ (\A t \in Threads : Idle(t)) => removed /\ freed

(***************************************************************************)
(* The loop's thread ends after an abort: what zs__thread_wait after       *)
(* zs__thread_abort relies on (example/messageloop/c/test.c:58-60).        *)
(***************************************************************************)
AbortEnds == (aborts > 0) ~> (loop = "done")

(***************************************************************************)
(* One thing can keep an aborted loop from its end: semaphore 1 at SEMVMX, *)
(* 32767 messages.  Then a post (or an abort) waits for room with the      *)
(* mutex locked, and the loop, which would make room, waits for the mutex; *)
(* that is for ever.                                                       *)
(***************************************************************************)
OnlyFullStops == [](aborts > 0 => <>(loop = "done" \/ [](val[1] = ShortMax)))

(***************************************************************************)
(* The loop implements the abstract queue: Queue!Safety is the part that   *)
(* says what it may do, Queue!Fairness the part that says what it must do, *)
(* which it does unless semaphore 1 stays full for ever.                   *)
(***************************************************************************)
Queue == INSTANCE MessageQueue WITH
  open <- ~aborting, finished <- loop \in Finished

QueueSafety == Queue!Safety
QueueLives  == Queue!Fairness \/ <>[](val[1] = ShortMax)
=============================================================================
