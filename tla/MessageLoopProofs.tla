------------------------- MODULE MessageLoopProofs --------------------------
(***************************************************************************)
(* What is proved of ZsMessageLoop for every set of threads, any number of *)
(* messages, any ShortMax and RefMod, interruptible ++ and -- or not, and  *)
(* whether or not the clients' abort is their last call.                   *)
(***************************************************************************)
EXTENDS ZsMessageLoop, SemaphoreProofs, FiniteSets, FiniteSetTheorems, SequenceTheorems

LEMMA TwoSemaphores == SemIds = {0, 1}
  BY LoopAssumption DEF SemIds

-----------------------------------------------------------------------------
(***************************************************************************)
(* Type correctness.  The semaphore's part holds of every call by itself.  *)
(***************************************************************************)
LEMMA LoopOpType ==
  ASSUME SemTypeOK, NEW t \in Threads,
         \/ Op(t, 0, -1, FALSE) \/ Op(t, 0, 1, FALSE)
         \/ Op(t, 1, -1, FALSE) \/ Op(t, 1, 1, FALSE)
  PROVE  SemTypeOK'
<1>1. {0, 1} \subseteq Nat /\ {1, -1} \subseteq Int
  OBVIOUS
<1>2. PICK id \in {0, 1}, v \in {1, -1} : Op(t, id, v, FALSE)
  OBVIOUS
<1> QED BY <1>1, <1>2, OpType

-----------------------------------------------------------------------------
(***************************************************************************)
(* The place of a thread tells which semaphore call it is in, or was in    *)
(* last: Linked.  It makes an operation of every stage of a call either    *)
(* Quiet, or Applied, the one step that changes the kernel's value.        *)
(***************************************************************************)
Doing(t, id, v) == call[t].kind = "op" /\ call[t].id = id /\ call[t].value = v

LinkedCall(t) ==
  /\ pc[t] \in {"post", "abort"} => Doing(t, 0, -1)
  /\ pc[t] = "added" => Doing(t, 1, 1)
  /\ pc[t] = "leaving" => Doing(t, 0, 1)
  /\ pc[t] = "idle" /\ t # Loop => Idle(t)

LinkedLoop ==
  /\ pc[Loop] # "idle" => loop \in {"responding", "afterAbort"}
  /\ loop = "waiting" => Doing(Loop, 1, -1)
  /\ loop = "locking" => Doing(Loop, 0, -1)
  /\ loop = "unlocking" => Doing(Loop, 0, 1)
  /\ loop = "destroying" => call[Loop].kind = "destroy" /\ stage[Loop] \in AfterKernel
  /\ loop \in {"start", "freed", "done"} => Idle(Loop)
  /\ loop \in {"responding", "afterAbort"} /\ pc[Loop] = "idle" => Idle(Loop)
  /\ loop = "responding" => element # NoElement

Linked == (\A t \in Threads : LinkedCall(t)) /\ LinkedLoop

Quiet(t) ==
  /\ val' = val
  /\ \E s \in Stages :
       /\ stage' = [stage EXCEPT ![t] = s]
       /\ stage[t] # "idle"
       /\ s \in BeforeKernel <=> stage[t] \in BeforeKernel

Applied(t) ==
  /\ stage[t] = "kernel" /\ stage' = [stage EXCEPT ![t] = "dec"]
  /\ call[t].kind = "op"
  /\ val[call[t].id] + call[t].value \in 0 .. ShortMax
  /\ val' = [val EXCEPT ![call[t].id] = val[call[t].id] + call[t].value]

Began(t, id, v) ==
  /\ Idle(t) /\ stage' = [stage EXCEPT ![t] = "inc"] /\ Doing(t, id, v)'
  /\ \A u \in Threads : u # t => call'[u] = call[u] /\ stage'[u] = stage[u]
  /\ val' = val

LEMMA OpBegins ==
  ASSUME SemTypeOK, NEW t \in Threads, NEW id, NEW v, Op(t, id, v, FALSE)
  PROVE  Began(t, id, v)
  BY DEF Op, Begin, SemTypeOK, Doing, Idle, Began

Busy(t) ==
  \/ \E id \in {0, 1}, v \in {1, -1} : Doing(t, id, v)
  \/ call[t].kind = "destroy" /\ stage[t] \in AfterKernel

LEMMA CallStepEffect ==
  ASSUME SemTypeOK, NEW t \in Threads, CallStep(t), Busy(t)
  PROVE  call' = call /\ (Quiet(t) \/ Applied(t))
<1>1. stage \in [Threads -> Stages] /\ call[t].kind # "duplicate"
  BY DEF SemTypeOK, Busy, Doing
<1>2. call[t].kind = "op" => ~Refused(call[t])
  BY LoopAssumption DEF Busy, Doing, Refused
<1>3. ASSUME NEW base, IncrementFrom(t, base), stage[t] \in {"inc", "incStore"}
      PROVE  call' = call /\ Quiet(t)
  <2>1. call[t].kind = "op"
    BY <1>3 DEF Busy, Doing, AfterKernel
  <2>2. AfterIncrement(call[t]) = "kernel"
    BY <1>2, <2>1 DEF AfterIncrement
  <2> QED BY <1>3, <2>2 DEF IncrementFrom, Quiet, BeforeKernel, Stages
<1>4. ASSUME NEW from, NEW to, Load(t, from, to),
             <<from, to>> \in {<<"inc", "incStore">>, <<"dec", "decStore">>}
      PROVE  call' = call /\ Quiet(t)
  BY <1>4 DEF Load, Quiet, BeforeKernel, Stages
<1>5. CASE Increment(t)
  BY <1>3, <1>4, <1>5 DEF Increment
<1>6. CASE SemTimedOp(t)
  <2>1. call[t].kind = "op" /\ Short(call[t].value) = call[t].value /\ call[t].value \in {1, -1}
    BY <1>6, ShortOfOne DEF SemTimedOp, Busy, Doing, AfterKernel
  <2>2. call[t].id \in SemIds /\ val \in [SemIds -> 0 .. ShortMax]
    BY <1>6, TwoSemaphores DEF SemTimedOp, Busy, Doing, AfterKernel, SemTypeOK
  <2> QED BY <1>6, <2>1, <2>2 DEF SemTimedOp, Applied
<1>7. CASE Decrement(t)
  <2>1. ASSUME NEW left, EndDestroy(t, left), stage[t] \in {"dec", "test"}
        PROVE  call' = call /\ Quiet(t)
    BY <2>1 DEF EndDestroy, Quiet, BeforeKernel, Stages
  <2>2. CASE stage[t] = "decStore" /\ stage' = [stage EXCEPT ![t] = "test"]
             /\ UNCHANGED <<val, call>>
    BY <2>2 DEF Quiet, BeforeKernel, Stages
  <2> QED BY <1>4, <1>7, <2>1, <2>2 DEF Decrement
<1>8. CASE Fault(t)
  <2>1. stage' = [stage EXCEPT ![t] = stage[t]] /\ stage[t] \in Stages /\ stage[t] # "idle"
    BY <1>1, <1>8 DEF Fault, TouchesCell
  <2> QED BY <1>8, <2>1 DEF Fault, Quiet
<1> QED BY <1>5, <1>6, <1>7, <1>8 DEF CallStep

LEMMA CallsAreBusy ==
  ASSUME TypeOK, Linked, NEW t \in Threads, CallStep(t)
  PROVE  SemTypeOK /\ Busy(t) /\ (call[t].id \in SemIds \/ stage[t] # "kernel")
<1>1. SemTypeOK /\ pc[t] \in Labels /\ loop \in Places
  BY DEF TypeOK
<1>2. stage[t] # "idle"
  BY DEF CallStep, Increment, IncrementFrom, Load, SemTimedOp, Decrement, Fault, TouchesCell
<1>3. Busy(t)
  BY <1>1, <1>2 DEF Linked, LinkedCall, LinkedLoop, Busy, Labels, Places, Idle
<1>4. call[t].id \in SemIds \/ stage[t] # "kernel"
  BY <1>3, TwoSemaphores DEF Busy, Doing, AfterKernel
<1> QED BY <1>1, <1>3, <1>4

LEMMA TypeInit == Init => TypeOK
<1> SUFFICES ASSUME Init PROVE TypeOK
  OBVIOUS
<1>1. SemTypeOK
  <2>1. [kind |-> "op", id |-> 0, value |-> 0, timed |-> FALSE] \in Calls
    BY DEF Calls
  <2>2. val \in [SemIds -> 0 .. ShortMax]
    BY TwoSemaphores, SemaphoreAssumption DEF Init, SemInit
  <2>3. references \in 0 .. RefMod - 1 /\ 0 \in 0 .. RefMod - 1
    BY SemaphoreAssumption DEF Init, SemInit
  <2>4. {removed, freed, crashed} \subseteq BOOLEAN
    BY DEF Init, SemInit
  <2> QED BY <2>1, <2>2, <2>3, <2>4 DEF Init, SemInit, SemTypeOK, Stages
<1>2. \A t \in Threads : pc[t] = "idle" /\ posts[t] = 0
  BY DEF Init
<1>3. <<>> \in Seq(Messages)
  OBVIOUS
<1> QED BY <1>1, <1>2, <1>3 DEF Init, TypeOK, Labels, Places

LEMMA TypeStep == TypeOK /\ Linked /\ [Next]_vars => TypeOK'
<1> SUFFICES ASSUME TypeOK, Linked, [Next]_vars PROVE TypeOK'
  OBVIOUS
<1> USE DEF TypeOK
<1>1. ASSUME NEW t \in Threads, BeginPost(t) PROVE TypeOK'
  <2>1. SemTypeOK'
    BY <1>1, LoopOpType DEF BeginPost
  <2>2. posts' = [posts EXCEPT ![t] = @ + 1] /\ posts[t] + 1 \in 1 .. MaxPosts[t]
    <3>1. posts[t] \in Nat /\ MaxPosts[t] \in Nat
      BY LoopAssumption
    <3> QED BY <1>1, <3>1 DEF BeginPost
  <2>3. \A u \in Threads : pc'[u] = "post" => Message(u)' \in Messages
    <3> SUFFICES ASSUME NEW u \in Threads, pc'[u] = "post" PROVE Message(u)' \in Messages
      OBVIOUS
    <3>1. CASE u = t
      <4>1. Message(u)' = <<t, posts[t] + 1>>
        BY <3>1, <2>2 DEF Message
      <4> QED BY <4>1, <2>2 DEF Messages
    <3>2. CASE u # t
      BY <1>1, <2>2, <3>2 DEF BeginPost, Message
    <3> QED BY <3>1, <3>2
  <2> QED BY <1>1, <2>1, <2>2, <2>3 DEF BeginPost, Labels
<1>2. ASSUME NEW t \in Threads, BeginAbort(t) PROVE TypeOK'
  <2>1. SemTypeOK'
    BY <1>2, LoopOpType DEF BeginAbort
  <2> QED BY <1>2, <2>1 DEF BeginAbort, Labels, Message
<1>3. ASSUME NEW t \in Threads, Add(t) PROVE TypeOK'
  <2>1. SemTypeOK'
    BY <1>3, LoopOpType DEF Add
  <2>2. Message(t) \in Messages
    BY <1>3 DEF Add
  <2> QED BY <1>3, <2>1, <2>2 DEF Add, Labels, Message
<1>4. ASSUME NEW t \in Threads, Abort(t) PROVE TypeOK'
  <2>1. SemTypeOK'
    BY <1>4, LoopOpType DEF Abort
  <2> QED BY <1>4, <2>1 DEF Abort, Labels, Message
<1>5. ASSUME NEW t \in Threads, Unlock(t) PROVE TypeOK'
  <2>1. SemTypeOK'
    BY <1>5, LoopOpType DEF Unlock
  <2> QED BY <1>5, <2>1 DEF Unlock, Labels, Message
<1>6. ASSUME NEW t \in Threads, Return(t) PROVE TypeOK'
  BY <1>6 DEF Return, Labels, Message, semVars, SemTypeOK
<1>7. ASSUME NEW t \in Threads, CallStage(t) PROVE TypeOK'
  <2>1. SemTypeOK'
    BY <1>7, CallsAreBusy, CallStepType DEF CallStage
  <2> QED BY <1>7, <2>1 DEF CallStage, loopVars, Message
<1>8. ASSUME NEW t \in Threads, FaultLoop(t) PROVE TypeOK'
  BY <1>8 DEF FaultLoop, loopVars, Message, SemTypeOK
<1>9. CASE RunLoop
  <2>1. CASE LoopWait \/ LoopLock
    <3>1. SemTypeOK'
      BY <2>1, LoopOpType, LoopAssumption DEF LoopWait, LoopLock
    <3> QED BY <2>1, <3>1 DEF LoopWait, LoopLock, Goto, Places, Message
  <2>2. CASE LoopTake
    <3>1. SemTypeOK'
      BY <2>2, LoopOpType, LoopAssumption DEF LoopTake
    <3>2. queue # <<>> => Head(queue) \in Messages /\ Tail(queue) \in Seq(Messages)
      OBVIOUS
    <3> QED BY <2>2, <3>1, <3>2 DEF LoopTake, Goto, Places, Message
  <2>3. CASE LoopDestroy
    <3>1. SemTypeOK'
      BY <2>3, DestroyType, LoopAssumption DEF LoopDestroy
    <3> QED BY <2>3, <3>1 DEF LoopDestroy, Goto, Places, Message
  <2>4. CASE LoopResponded
    <3>1. element \in Messages
      BY <2>4 DEF LoopResponded, Goto, Linked, LinkedLoop
    <3>2. Append(handled, element) \in Seq(Messages)
      BY <3>1
    <3> QED BY <2>4, <3>2 DEF LoopResponded, Goto, Places, Message, semVars, SemTypeOK
  <2>5. CASE LoopRespond \/ LoopExit \/ LoopFree \/ LoopLeave
    BY <2>5 DEF LoopRespond, LoopExit, LoopFree, LoopLeave, Goto, Places, Message, semVars, SemTypeOK
  <2> QED BY <1>9, <2>1, <2>2, <2>3, <2>4, <2>5 DEF RunLoop
<1>10. CASE UNCHANGED vars
  BY <1>10 DEF vars, semVars, loopVars, SemTypeOK, Message
<1> QED BY <1>1, <1>2, <1>3, <1>4, <1>5, <1>6, <1>7, <1>8, <1>9, <1>10 DEF Next, Call, Go

LEMMA LinkedInit == Init => Linked
  BY LoopAssumption DEF Init, SemInit, Linked, LinkedCall, LinkedLoop, Idle

LEMMA LinkedStep == TypeOK /\ Linked /\ [Next]_vars => Linked'
<1> SUFFICES ASSUME TypeOK, Linked, [Next]_vars PROVE Linked'
  OBVIOUS
<1>0. SemTypeOK /\ pc \in [Threads -> Labels] /\ loop \in Places /\ Loop \in Threads
      /\ stage \in [Threads -> Stages]
  BY LoopAssumption DEF TypeOK, SemTypeOK
<1> USE DEF Linked, LinkedCall, LinkedLoop, Began
<1>1. ASSUME NEW t \in Threads, BeginPost(t) PROVE Linked'
  <2>1. Began(t, 0, -1)
    BY <1>0, <1>1, OpBegins DEF BeginPost
  <2> QED BY <1>0, <1>1, <2>1 DEF BeginPost, Free, Doing, Idle
<1>2. ASSUME NEW t \in Threads, BeginAbort(t) PROVE Linked'
  <2>1. Began(t, 0, -1)
    BY <1>0, <1>2, OpBegins DEF BeginAbort
  <2> QED BY <1>0, <1>2, <2>1 DEF BeginAbort, Free, Doing, Idle
<1>3. ASSUME NEW t \in Threads, Add(t) PROVE Linked'
  <2>1. Began(t, 1, 1)
    BY <1>0, <1>3, OpBegins DEF Add
  <2> QED BY <1>0, <1>3, <2>1 DEF Add, Doing, Idle
<1>4. ASSUME NEW t \in Threads, Abort(t) PROVE Linked'
  <2>1. Began(t, 1, 1)
    BY <1>0, <1>4, OpBegins DEF Abort
  <2> QED BY <1>0, <1>4, <2>1 DEF Abort, Doing, Idle
<1>5. ASSUME NEW t \in Threads, Unlock(t) PROVE Linked'
  <2>1. Began(t, 0, 1)
    BY <1>0, <1>5, OpBegins DEF Unlock
  <2> QED BY <1>0, <1>5, <2>1 DEF Unlock, Doing, Idle
<1>6. ASSUME NEW t \in Threads, Return(t) PROVE Linked'
  BY <1>0, <1>6 DEF Return, semVars, Doing, Idle
<1>7. ASSUME NEW t \in Threads, CallStage(t) PROVE Linked'
  <2>1. call' = call /\ (Quiet(t) \/ Applied(t))
    BY <1>7, CallsAreBusy, CallStepEffect DEF CallStage
  <2>2. stage[t] # "idle" /\ \E s \in Stages : stage' = [stage EXCEPT ![t] = s]
             /\ (stage[t] \in AfterKernel => s \in AfterKernel)
    BY <1>0, <2>1 DEF Quiet, Applied, Stages, BeforeKernel, AfterKernel
  <2>3. \A u \in Threads : Idle(u) => Idle(u)'
    BY <1>0, <2>2 DEF Idle
  <2>4. stage[Loop] \in AfterKernel => stage'[Loop] \in AfterKernel
    BY <1>0, <2>2
  <2> QED BY <1>0, <1>7, <2>1, <2>3, <2>4 DEF CallStage, loopVars, Doing
<1>8. ASSUME NEW t \in Threads, FaultLoop(t) PROVE Linked'
  BY <1>8 DEF FaultLoop, loopVars, Doing, Idle
<1>9. CASE RunLoop
  <2>1. CASE LoopWait
    <3>1. Began(Loop, 1, -1)
      BY <1>0, <2>1, OpBegins DEF LoopWait
    <3> QED BY <1>0, <2>1, <3>1 DEF LoopWait, Goto, Doing, Idle
  <2>2. CASE LoopLock
    <3>1. Began(Loop, 0, -1)
      BY <1>0, <2>2, OpBegins DEF LoopLock
    <3> QED BY <1>0, <2>2, <3>1 DEF LoopLock, Goto, Doing, Idle
  <2>3. CASE LoopTake
    <3>1. Began(Loop, 0, 1)
      BY <1>0, <2>3, OpBegins DEF LoopTake
    <3> QED BY <1>0, <2>3, <3>1 DEF LoopTake, Goto, Doing, Idle
  <2>4. CASE LoopDestroy
    <3>1. /\ stage' = [stage EXCEPT ![Loop] = "dec"] /\ call'[Loop].kind = "destroy"
          /\ \A u \in Threads : u # Loop => call'[u] = call[u]
      BY <1>0, <2>4 DEF LoopDestroy, Destroy, Begin, SemTypeOK
    <3> QED BY <1>0, <2>4, <3>1 DEF LoopDestroy, Goto, Doing, Idle, AfterKernel
  <2>5. CASE LoopRespond \/ LoopResponded \/ LoopExit \/ LoopFree \/ LoopLeave
    BY <1>0, <2>5 DEF LoopRespond, LoopResponded, LoopExit, LoopFree, LoopLeave, Goto,
                      semVars, Doing, Idle
  <2> QED BY <1>9, <2>1, <2>2, <2>3, <2>4, <2>5 DEF RunLoop
<1>10. CASE UNCHANGED vars
  BY <1>10 DEF vars, semVars, loopVars, Doing, Idle
<1> QED BY <1>1, <1>2, <1>3, <1>4, <1>5, <1>6, <1>7, <1>8, <1>9, <1>10 DEF Next, Call, Go

(***************************************************************************)
(* Every reachable state is well typed.                                    *)
(***************************************************************************)
THEOREM TypeCorrect == Spec => []TypeOK
<1>1. Init => TypeOK /\ Linked
  BY TypeInit, LinkedInit
<1>2. TypeOK /\ Linked /\ [Next]_vars => TypeOK' /\ Linked'
  BY TypeStep, LinkedStep
<1> QED BY <1>1, <1>2, PTL DEF Spec

-----------------------------------------------------------------------------
(***************************************************************************)
(* Mutual exclusion.  A step leaves the mutex as it is, or a thread gets   *)
(* it, or a thread gives it back.                                          *)
(***************************************************************************)
KeepsMutex == val'[0] = val[0] /\ \A u \in Threads : HasMutex(u)' <=> HasMutex(u)

GetsMutex(t) ==
  /\ val'[0] = val[0] - 1 /\ val'[0] >= 0
  /\ HasMutex(t)'
  /\ \A u \in Threads : u # t => (HasMutex(u)' <=> HasMutex(u))

GivesMutex(t) ==
  /\ val'[0] = val[0] + 1
  /\ HasMutex(t) /\ ~HasMutex(t)'
  /\ \A u \in Threads : u # t => (HasMutex(u)' <=> HasMutex(u))

LEMMA MutexStep ==
  ASSUME TypeOK, Linked, [Next]_vars
  PROVE  KeepsMutex \/ \E t \in Threads : GetsMutex(t) \/ GivesMutex(t)
<1>0. SemTypeOK /\ pc \in [Threads -> Labels] /\ loop \in Places /\ Loop \in Threads
      /\ stage \in [Threads -> Stages] /\ val \in [{0, 1} -> 0 .. ShortMax] /\ ShortMax \in Nat
  BY LoopAssumption, SemaphoreAssumption, TwoSemaphores DEF TypeOK, SemTypeOK
<1>a. \A t \in Threads : LinkedCall(t)
  BY DEF Linked
<1>b. LinkedLoop
  BY DEF Linked
<1> USE DEF HasMutex, BeforeKernel, AfterKernel
<1>1. ASSUME NEW t \in Threads, BeginPost(t) \/ BeginAbort(t) PROVE KeepsMutex
  <2>1. Began(t, 0, -1)
    BY <1>0, <1>1, OpBegins DEF BeginPost, BeginAbort
  <2> QED BY <1>0, <1>1, <2>1 DEF BeginPost, BeginAbort, Free, Idle, Began, KeepsMutex
<1>2. ASSUME NEW t \in Threads, Add(t) \/ Abort(t) PROVE KeepsMutex
  <2>1. Began(t, 1, 1)
    BY <1>0, <1>2, OpBegins DEF Add, Abort
  <2> QED BY <1>0, <1>b, <1>2, <2>1 DEF Add, Abort, Idle, Began, KeepsMutex, LinkedLoop
<1>3. ASSUME NEW t \in Threads, Unlock(t) PROVE KeepsMutex
  <2>1. Began(t, 0, 1)
    BY <1>0, <1>3, OpBegins DEF Unlock
  <2> QED BY <1>0, <1>b, <1>3, <2>1 DEF Unlock, Idle, Began, KeepsMutex, LinkedLoop
<1>4. ASSUME NEW t \in Threads, Return(t) PROVE KeepsMutex
  BY <1>0, <1>b, <1>4 DEF Return, Idle, semVars, KeepsMutex, LinkedLoop
<1>5. ASSUME NEW t \in Threads, CallStage(t)
      PROVE  KeepsMutex \/ GetsMutex(t) \/ GivesMutex(t)
  <2>1. call' = call /\ (Quiet(t) \/ Applied(t)) /\ pc' = pc /\ loop' = loop
    BY <1>5, CallsAreBusy, CallStepEffect DEF CallStage, loopVars
  <2>2. CASE Quiet(t)
    <3>1. PICK s \in Stages : stage' = [stage EXCEPT ![t] = s]
                              /\ (s \in BeforeKernel <=> stage[t] \in BeforeKernel)
      BY <2>2 DEF Quiet
    <3> QED BY <1>0, <2>1, <2>2, <3>1 DEF Quiet, KeepsMutex, Stages
  <2>3. CASE Applied(t)
    <3>0. stage[t] = "kernel" /\ stage' = [stage EXCEPT ![t] = "dec"] /\ call[t].kind = "op"
      BY <2>3 DEF Applied
    <3>1. ASSUME NEW id \in {0, 1}, NEW v \in {1, -1}, Doing(t, id, v)
          PROVE  val[id] + v >= 0 /\ val' = [val EXCEPT ![id] = val[id] + v]
      BY <1>0, <2>3, <3>1 DEF Applied, Doing
    <3>2. CASE pc[t] \in {"post", "abort"} \/ (t = Loop /\ loop = "locking")
      <4>1. Doing(t, 0, -1) /\ (t = Loop /\ loop = "locking" => pc[t] = "idle")
        BY <1>0, <1>a, <1>b, <3>2 DEF LinkedCall, LinkedLoop, Labels
      <4>2. val'[0] = val[0] - 1 /\ val'[0] >= 0
        BY <1>0, <3>1, <4>1
      <4> QED BY <1>0, <2>1, <3>0, <3>2, <4>1, <4>2 DEF GetsMutex
    <3>3. CASE pc[t] = "leaving" \/ (t = Loop /\ loop = "unlocking")
      <4>1. Doing(t, 0, 1) /\ (t = Loop /\ loop = "unlocking" => pc[t] = "idle")
            /\ (t = Loop /\ pc[t] = "leaving" => loop \in {"responding", "afterAbort"})
        BY <1>0, <1>a, <1>b, <3>3 DEF LinkedCall, LinkedLoop, Labels
      <4>2. val'[0] = val[0] + 1
        BY <1>0, <3>1, <4>1
      <4> QED BY <1>0, <2>1, <3>0, <3>3, <4>1, <4>2 DEF GivesMutex
    <3>4. CASE pc[t] = "added" \/ (t = Loop /\ loop = "waiting")
      <4>1. PICK v \in {1, -1} : Doing(t, 1, v)
        BY <1>a, <1>b, <3>4 DEF LinkedCall, LinkedLoop
      <4>2. val'[0] = val[0]
        BY <1>0, <3>1, <4>1
      <4>3. t = Loop /\ loop = "waiting" => pc[t] = "idle"
        BY <1>b DEF LinkedLoop
      <4> QED BY <1>0, <2>1, <3>0, <3>4, <4>2, <4>3 DEF KeepsMutex
    <3>5. pc[t] # "idle" \/ (t = Loop /\ loop \in {"waiting", "locking", "unlocking"})
      BY <1>0, <1>a, <1>b, <3>0 DEF LinkedCall, LinkedLoop, Idle, Places
    <3> QED BY <1>0, <3>2, <3>3, <3>4, <3>5 DEF Labels
  <2> QED BY <2>1, <2>2, <2>3
<1>6. ASSUME NEW t \in Threads, FaultLoop(t) PROVE KeepsMutex
  BY <1>6 DEF FaultLoop, loopVars, KeepsMutex
<1>7. CASE RunLoop
  <2>1. CASE LoopWait
    <3>1. Began(Loop, 1, -1)
      BY <1>0, <2>1, OpBegins DEF LoopWait
    <3> QED BY <1>0, <1>b, <2>1, <3>1 DEF LoopWait, Goto, Idle, Began, KeepsMutex, LinkedLoop
  <2>2. CASE LoopLock
    <3>1. Began(Loop, 0, -1)
      BY <1>0, <2>2, OpBegins DEF LoopLock
    <3> QED BY <1>0, <1>b, <2>2, <3>1 DEF LoopLock, Goto, Idle, Began, KeepsMutex, LinkedLoop
  <2>3. CASE LoopTake
    <3>1. Began(Loop, 0, 1)
      BY <1>0, <2>3, OpBegins DEF LoopTake
    <3> QED BY <1>0, <1>b, <2>3, <3>1 DEF LoopTake, Goto, Idle, Began, KeepsMutex, LinkedLoop
  <2>4. CASE LoopDestroy
    <3>1. stage' = [stage EXCEPT ![Loop] = "dec"] /\ val' = val
      BY <2>4 DEF LoopDestroy, Destroy, Begin
    <3> QED BY <1>0, <2>4, <3>1 DEF LoopDestroy, Goto, KeepsMutex
  <2>5. CASE LoopRespond \/ LoopResponded \/ LoopExit \/ LoopFree \/ LoopLeave
    BY <1>0, <2>5 DEF LoopRespond, LoopResponded, LoopExit, LoopFree, LoopLeave, Goto,
                      semVars, Idle, KeepsMutex
  <2> QED BY <1>7, <2>1, <2>2, <2>3, <2>4, <2>5 DEF RunLoop
<1>8. CASE UNCHANGED vars
  BY <1>8 DEF vars, semVars, loopVars, KeepsMutex
<1> QED BY <1>1, <1>2, <1>3, <1>4, <1>5, <1>6, <1>7, <1>8 DEF Next, Call, Go

LEMMA ExclusiveStep == TypeOK /\ Linked /\ Exclusive /\ [Next]_vars => Exclusive'
<1> SUFFICES ASSUME TypeOK, Linked, Exclusive, [Next]_vars PROVE Exclusive'
  OBVIOUS
<1>1. CASE KeepsMutex
  BY <1>1 DEF KeepsMutex, Exclusive
<1>2. ASSUME NEW t \in Threads, GetsMutex(t) PROVE Exclusive'
  BY <1>2 DEF GetsMutex, Exclusive
<1>3. ASSUME NEW t \in Threads, GivesMutex(t) PROVE Exclusive'
  BY <1>3 DEF GivesMutex, Exclusive
<1> QED BY <1>1, <1>2, <1>3, MutexStep

LEMMA ExclusiveInit == Init => Exclusive
<1> SUFFICES ASSUME Init PROVE Exclusive
  OBVIOUS
<1>1. val[0] = 1
  BY TwoSemaphores DEF Init, SemInit
<1>2. \A t \in Threads : ~HasMutex(t)
  BY DEF Init, HasMutex
<1> QED BY <1>1, <1>2 DEF Exclusive

(***************************************************************************)
(* Semaphore 0 is a mutex.                                                 *)
(***************************************************************************)
THEOREM MutualExclusion == Spec => []Exclusive
<1>1. Init => TypeOK /\ Linked /\ Exclusive
  BY TypeInit, LinkedInit, ExclusiveInit
<1>2. TypeOK /\ Linked /\ Exclusive /\ [Next]_vars => TypeOK' /\ Linked' /\ Exclusive'
  BY TypeStep, LinkedStep, ExclusiveStep
<1> QED BY <1>1, <1>2, PTL DEF Spec

-----------------------------------------------------------------------------
(***************************************************************************)
(* The count of semaphore 1.  Only the thread with the mutex can be at     *)
(* "added", so at most one V is outstanding.                               *)
(***************************************************************************)
LEMMA OneAdded ==
  ASSUME Exclusive, NEW t \in Threads, HasMutex(t)
  PROVE  \A u \in Threads : u # t => pc[u] # "added"
  BY DEF Exclusive, HasMutex

TokensKept == /\ val'[1] = val[1] /\ (Announcing' <=> Announcing) /\ (LoopWoken' <=> LoopWoken)
              /\ queue' = queue /\ aborting' = aborting

LEMMA TokensStep == TypeOK /\ Linked /\ Exclusive /\ Tokens /\ [Next]_vars => Tokens'
<1> SUFFICES ASSUME TypeOK, Linked, Exclusive, Tokens, [Next]_vars PROVE Tokens'
  OBVIOUS
<1>0. /\ SemTypeOK /\ pc \in [Threads -> Labels] /\ loop \in Places /\ Loop \in Threads
      /\ stage \in [Threads -> Stages] /\ val \in [{0, 1} -> 0 .. ShortMax] /\ ShortMax \in Nat
      /\ queue \in Seq(Messages) /\ aborting \in BOOLEAN
      /\ val[1] \in Nat /\ Len(queue) \in Nat
  BY LoopAssumption, SemaphoreAssumption, TwoSemaphores DEF TypeOK, SemTypeOK
<1>a. \A t \in Threads : LinkedCall(t)
  BY DEF Linked
<1>b. LinkedLoop
  BY DEF Linked
<1>c. TokensKept => Tokens'
  BY <1>0 DEF TokensKept, Tokens, One
<1>1. ASSUME NEW t \in Threads, BeginPost(t) \/ BeginAbort(t) PROVE Tokens'
  <2>1. Began(t, 0, -1)
    BY <1>0, <1>1, OpBegins DEF BeginPost, BeginAbort
  <2>2. val' = val /\ loop' = loop /\ element' = element /\ queue' = queue /\ aborting' = aborting
    BY <1>1, <2>1 DEF BeginPost, BeginAbort, Began
  <2>3. Announcing' <=> Announcing
    BY <1>0, <1>1, <2>1 DEF BeginPost, BeginAbort, Free, Began, Announcing
  <2>4. LoopWoken' <=> LoopWoken
    BY <1>0, <1>1, <2>1, <2>2 DEF BeginPost, BeginAbort, Free, Began, LoopWoken
  <2> QED BY <1>c, <2>2, <2>3, <2>4 DEF TokensKept
<1>2. ASSUME NEW t \in Threads, Add(t) \/ Abort(t) PROVE Tokens'
  <2>1. Began(t, 1, 1)
    BY <1>0, <1>2, OpBegins DEF Add, Abort
  <2>2. HasMutex(t) /\ pc[t] # "added"
    BY <1>2, <2>1 DEF Add, Abort, HasMutex, Began, Idle, AfterKernel
  <2>3. ~Announcing
    BY <2>2, OneAdded DEF Announcing
  <2>4. Announcing'
    BY <1>0, <1>2, <2>1 DEF Add, Abort, Began, Announcing, BeforeKernel
  <2>5. LoopWoken' <=> LoopWoken
    BY <1>0, <1>b, <1>2, <2>1, <2>2 DEF Add, Abort, Began, LoopWoken, LinkedLoop
  <2>6. val' = val /\ Len(queue') + One(aborting') = Len(queue) + One(aborting) + 1
    <3>1. CASE Add(t)
      <4>1. Message(t) \in Messages
        BY <3>1 DEF Add, TypeOK
      <4>2. Len(Append(queue, Message(t))) = Len(queue) + 1
        BY <1>0, <4>1
      <4> QED BY <1>0, <2>1, <3>1, <4>2 DEF Add, Began, One
    <3>2. CASE Abort(t)
      BY <1>0, <2>1, <3>2 DEF Abort, Began, One
    <3> QED BY <1>2, <3>1, <3>2
  <2> QED BY <1>0, <2>3, <2>4, <2>5, <2>6 DEF Tokens, One
<1>3. ASSUME NEW t \in Threads, Unlock(t) PROVE Tokens'
  <2>1. Began(t, 0, 1)
    BY <1>0, <1>3, OpBegins DEF Unlock
  <2>2. HasMutex(t)
    BY <1>3, <2>1 DEF Unlock, HasMutex, Began, Idle, AfterKernel
  <2>3. ~Announcing
    BY <2>1, <2>2, OneAdded DEF Announcing, Began, Idle, BeforeKernel
  <2>4. ~Announcing'
    BY <1>0, <1>3, <2>2, OneAdded DEF Unlock, Announcing
  <2>5. LoopWoken' <=> LoopWoken
    BY <1>0, <1>b, <1>3, <2>1 DEF Unlock, Began, LoopWoken, LinkedLoop
  <2> QED BY <1>3, <1>c, <2>1, <2>3, <2>4, <2>5 DEF Unlock, Began, TokensKept
<1>4. ASSUME NEW t \in Threads, Return(t) PROVE Tokens'
  BY <1>0, <1>4, <1>c DEF Return, Idle, semVars, TokensKept, Announcing, LoopWoken
<1>5. ASSUME NEW t \in Threads, CallStage(t) PROVE Tokens'
  <2>1. call' = call /\ (Quiet(t) \/ Applied(t)) /\ UNCHANGED loopVars
    BY <1>5, CallsAreBusy, CallStepEffect DEF CallStage
  <2>2. CASE Quiet(t)
    <3>1. PICK s \in Stages : stage' = [stage EXCEPT ![t] = s]
                              /\ (s \in BeforeKernel <=> stage[t] \in BeforeKernel)
      BY <2>2 DEF Quiet
    <3>2. \A u \in Threads : stage'[u] \in BeforeKernel <=> stage[u] \in BeforeKernel
      BY <1>0, <3>1
    <3>3. \A u \in Threads : stage'[u] \in AfterKernel <=> stage[u] \in AfterKernel
      BY <1>0, <3>1, <3>2 DEF BeforeKernel, AfterKernel, Stages
    <3> QED BY <1>0, <1>c, <2>1, <2>2, <3>2, <3>3
            DEF Quiet, loopVars, TokensKept, Announcing, LoopWoken
  <2>3. CASE Applied(t)
    <3>0. stage[t] = "kernel" /\ stage' = [stage EXCEPT ![t] = "dec"] /\ call[t].kind = "op"
      BY <2>3 DEF Applied
    <3>1. ASSUME NEW id \in {0, 1}, NEW v \in {1, -1}, Doing(t, id, v)
          PROVE  val' = [val EXCEPT ![id] = val[id] + v]
      BY <1>0, <2>3, <3>1 DEF Applied, Doing
    <3>2. CASE pc[t] = "added"
      <4>1. val'[1] = val[1] + 1
        BY <1>0, <1>a, <3>1, <3>2 DEF LinkedCall
      <4>2. Announcing
        BY <3>0, <3>2 DEF Announcing, BeforeKernel
      <4>3. HasMutex(t)
        BY <3>2 DEF HasMutex
      <4>4. ~Announcing'
        BY <1>0, <2>1, <3>0, <4>3, OneAdded DEF Announcing, BeforeKernel, loopVars
      <4>5. LoopWoken' <=> LoopWoken
        BY <1>0, <1>b, <2>1, <3>0, <3>2 DEF LoopWoken, loopVars, LinkedLoop
      <4> QED BY <1>0, <2>1, <4>1, <4>2, <4>4, <4>5 DEF Tokens, One, loopVars
    <3>3. CASE t = Loop /\ loop = "waiting"
      <4>1. val'[1] = val[1] + (-1) /\ pc[t] = "idle"
        BY <1>0, <1>b, <3>1, <3>3 DEF LinkedLoop
      <4>2. ~LoopWoken /\ LoopWoken'
        BY <1>0, <2>1, <3>0, <3>3 DEF LoopWoken, AfterKernel, Finished, loopVars
      <4>3. Announcing' <=> Announcing
        BY <1>0, <2>1, <3>0, <4>1 DEF Announcing, loopVars
      <4> QED BY <1>0, <2>1, <4>1, <4>2, <4>3 DEF Tokens, One, loopVars
    <3>4. CASE pc[t] # "added" /\ ~(t = Loop /\ loop = "waiting")
      <4>1. Doing(t, 0, 1) \/ Doing(t, 0, -1)
        BY <1>0, <1>a, <1>b, <3>0, <3>4 DEF LinkedCall, LinkedLoop, Idle, Places, Labels
      <4>2. val'[1] = val[1]
        BY <1>0, <3>1, <4>1
      <4>3. Announcing' <=> Announcing
        BY <1>0, <2>1, <3>0, <3>4 DEF Announcing, loopVars
      <4>4. LoopWoken' <=> LoopWoken
        BY <1>0, <2>1, <3>0, <3>4 DEF LoopWoken, loopVars
      <4> QED BY <1>c, <2>1, <4>2, <4>3, <4>4 DEF TokensKept, loopVars
    <3> QED BY <3>2, <3>3, <3>4
  <2> QED BY <2>1, <2>2, <2>3
<1>6. ASSUME NEW t \in Threads, FaultLoop(t) PROVE Tokens'
  BY <1>6, <1>c DEF FaultLoop, loopVars, TokensKept, Announcing, LoopWoken
<1>7. CASE RunLoop
  <2>1. CASE LoopWait
    <3>1. Began(Loop, 1, -1)
      BY <1>0, <2>1, OpBegins DEF LoopWait
    <3>2. ~LoopWoken /\ ~LoopWoken'
      BY <1>0, <2>1, <3>1 DEF LoopWait, Goto, Began, LoopWoken, AfterKernel, Finished
    <3>3. Announcing' <=> Announcing
      BY <1>0, <1>b, <2>1, <3>1 DEF LoopWait, Goto, Began, Announcing, LinkedLoop
    <3> QED BY <1>c, <2>1, <3>1, <3>2, <3>3 DEF LoopWait, Began, TokensKept
  <2>2. CASE LoopLock
    <3>1. Began(Loop, 0, -1)
      BY <1>0, <2>2, OpBegins DEF LoopLock
    <3>2. LoopWoken /\ LoopWoken'
      BY <1>0, <2>2, <3>1 DEF LoopLock, Goto, Began, LoopWoken, AfterKernel, Idle
    <3>3. Announcing' <=> Announcing
      BY <1>0, <1>b, <2>2, <3>1 DEF LoopLock, Goto, Began, Announcing, LinkedLoop
    <3> QED BY <1>c, <2>2, <3>1, <3>2, <3>3 DEF LoopLock, Began, TokensKept
  <2>3. CASE LoopTake
    <3>1. Began(Loop, 0, 1)
      BY <1>0, <2>3, OpBegins DEF LoopTake
    <3>2. LoopWoken /\ (LoopWoken' <=> element' = NoElement)
      BY <1>0, <2>3 DEF LoopTake, Goto, LoopWoken, Finished
    <3>3. Announcing' <=> Announcing
      BY <1>0, <1>b, <2>3, <3>1 DEF LoopTake, Goto, Began, Announcing, LinkedLoop
    <3>4. CASE queue = <<>>
      BY <1>c, <2>3, <3>1, <3>2, <3>3, <3>4 DEF LoopTake, Began, TokensKept
    <3>5. CASE queue # <<>>
      <4>1. Head(queue) \in Messages /\ Len(Tail(queue)) = Len(queue) - 1
        BY <1>0, <3>5
      <4>2. Head(queue) # NoElement
        BY <4>1, LoopAssumption DEF Messages
      <4> QED BY <1>0, <2>3, <3>1, <3>2, <3>3, <3>5, <4>1, <4>2 DEF LoopTake, Began, Tokens, One
    <3> QED BY <3>4, <3>5
  <2>4. CASE LoopDestroy
    <3>1. stage' = [stage EXCEPT ![Loop] = "dec"] /\ val' = val
      BY <2>4 DEF LoopDestroy, Destroy, Begin
    <3> QED BY <1>0, <1>c, <2>4, <3>1
            DEF LoopDestroy, Goto, TokensKept, LoopWoken, Announcing, Finished
  <2>5. CASE LoopRespond \/ LoopResponded \/ LoopExit \/ LoopFree \/ LoopLeave
    <3>1. val' = val /\ queue' = queue /\ aborting' = aborting /\ stage' = stage /\ pc' = pc
      BY <2>5 DEF LoopRespond, LoopResponded, LoopExit, LoopFree, LoopLeave, semVars
    <3>2. LoopWoken' <=> LoopWoken
      BY <2>5, <3>1 DEF LoopRespond, LoopResponded, LoopExit, LoopFree, LoopLeave, Goto,
                        LoopWoken, Finished
    <3> QED BY <1>c, <3>1, <3>2 DEF TokensKept, Announcing
  <2> QED BY <1>7, <2>1, <2>2, <2>3, <2>4, <2>5 DEF RunLoop
<1>8. CASE UNCHANGED vars
  BY <1>8, <1>c DEF vars, semVars, loopVars, TokensKept, Announcing, LoopWoken
<1> QED BY <1>1, <1>2, <1>3, <1>4, <1>5, <1>6, <1>7, <1>8 DEF Next, Call, Go

LEMMA TokensInit == Init => Tokens
<1> SUFFICES ASSUME Init PROVE Tokens
  OBVIOUS
<1>1. val[1] = 0 /\ queue = <<>> /\ aborting = FALSE
  BY TwoSemaphores DEF Init, SemInit
<1>2. ~Announcing /\ ~LoopWoken
  BY DEF Init, Announcing, LoopWoken, Finished
<1> QED BY <1>1, <1>2 DEF Tokens, One

(***************************************************************************)
(* The inductive invariant: types, the link between places and calls, the  *)
(* mutex and the count.                                                    *)
(***************************************************************************)
Inv == TypeOK /\ Linked /\ Exclusive /\ Tokens

LEMMA InvInit == Init => Inv
  BY TypeInit, LinkedInit, ExclusiveInit, TokensInit DEF Inv

LEMMA InvStep == Inv /\ [Next]_vars => Inv'
  BY TypeStep, LinkedStep, ExclusiveStep, TokensStep DEF Inv

(***************************************************************************)
(* Semaphore 1 counts what there is to do.                                 *)
(***************************************************************************)
THEOREM NothingOverlooked == Spec => []Tokens
<1>1. Inv => Tokens
  BY DEF Inv
<1> QED BY <1>1, InvInit, InvStep, PTL DEF Spec

-----------------------------------------------------------------------------
(***************************************************************************)
(* Order, and what the loop's end means.  Ending is the part of Drained    *)
(* that holds already when the loop finds no element.                      *)
(***************************************************************************)
ElementPlace == element # NoElement => loop \in {"unlocking", "responding"}

Ending == loop \in Finished \/ (loop = "unlocking" /\ element = NoElement)
            => aborting /\ queue = <<>>

OrderInv == ElementPlace /\ Ending /\ InOrder

LEMMA OrderInit == Init => OrderInv
  BY ConcatEmptySeq, EmptySeq DEF Init, OrderInv, ElementPlace, Ending, InOrder, InHand, Finished

LEMMA AppendLast ==
  \A a, b \in Seq(Messages) : \A m \in Messages : Append(a \o b, m) = a \o Append(b, m)
  OBVIOUS

LEMMA HeadFirst ==
  ASSUME NEW S, NEW b \in Seq(S), b # <<>>
  PROVE  <<Head(b)>> \o Tail(b) = b
<1>1. Head(b) \in S /\ Tail(b) \in Seq(S) /\ <<Head(b)>> \o Tail(b) \in Seq(S)
  OBVIOUS
<1>2. Len(<<Head(b)>> \o Tail(b)) = Len(b)
  OBVIOUS
<1>3. \A i \in 1 .. Len(b) : (<<Head(b)>> \o Tail(b))[i] = b[i]
  OBVIOUS
<1> QED BY <1>1, <1>2, <1>3, SeqEqual

LEMMA LastHandled ==
  ASSUME NEW S, NEW a \in Seq(S), NEW m \in S
  PROVE  a \o <<m>> = Append(a, m)
  OBVIOUS

OrderVars == <<queue, aborting, loop, element, accepted, handled>>

LEMMA OrderStep == Inv /\ OrderInv /\ [Next]_vars => OrderInv'
<1> SUFFICES ASSUME Inv, OrderInv, [Next]_vars PROVE OrderInv'
  OBVIOUS
<1>0. /\ queue \in Seq(Messages) /\ accepted \in Seq(Messages) /\ handled \in Seq(Messages)
      /\ InHand \in Seq(Messages) /\ handled \o InHand \in Seq(Messages)
      /\ LinkedLoop /\ ElementPlace /\ Ending /\ InOrder /\ loop \in Places
      /\ accepted = (handled \o InHand) \o queue /\ Tokens /\ val[1] \in Nat
  <2>1. TypeOK /\ LinkedLoop /\ ElementPlace /\ Ending /\ InOrder /\ Tokens
    BY DEF Inv, Linked, OrderInv
  <2>2. val[1] \in Nat
    BY <2>1, TwoSemaphores, SemaphoreAssumption DEF TypeOK, SemTypeOK
  <2>3. InHand \in Seq(Messages)
    BY <2>1 DEF TypeOK, InHand
  <2> QED BY <2>1, <2>2, <2>3 DEF TypeOK, InOrder
<1>1. CASE UNCHANGED OrderVars
  BY <1>0, <1>1 DEF OrderVars, OrderInv, ElementPlace, Ending, InOrder, InHand
<1>2. ASSUME NEW t \in Threads, Add(t) PROVE OrderInv'
  <2>1. Message(t) \in Messages
    BY <1>2 DEF Add, Inv, TypeOK
  <2>2. ElementPlace' /\ Ending'
    BY <1>0, <1>2 DEF Add, ElementPlace, Ending
  <2>3. InOrder'
    <3>1. Append((handled \o InHand) \o queue, Message(t))
            = (handled \o InHand) \o Append(queue, Message(t))
      <4>1. handled \o InHand \in Seq(Messages) /\ queue \in Seq(Messages)
        BY <1>0
      <4> QED BY <2>1, <4>1, AppendLast
    <3>2. accepted' = Append(accepted, Message(t)) /\ queue' = Append(queue, Message(t))
          /\ handled' = handled /\ InHand' = InHand
      BY <1>2 DEF Add, InHand
    <3> QED BY <1>0, <3>1, <3>2 DEF InOrder
  <2> QED BY <2>2, <2>3 DEF OrderInv
<1>3. ASSUME NEW t \in Threads, Abort(t) PROVE OrderInv'
  BY <1>0, <1>3 DEF Abort, OrderInv, ElementPlace, Ending, InOrder, InHand
<1>4. CASE LoopTake
  <2>1. element = NoElement /\ loop = "locking" /\ loop' = "unlocking"
    BY <1>0, <1>4 DEF LoopTake, Goto, ElementPlace
  <2>2. InHand = <<>> /\ accepted = handled \o queue
    BY <1>0, <2>1, ConcatEmptySeq DEF InHand
  <2>3. CASE queue = <<>>
    <3>1. aborting
      BY <1>0, <2>1, <2>3 DEF Tokens, LoopWoken, One
    <3>2. UNCHANGED <<queue, aborting, element, accepted, handled>>
      BY <1>4, <2>1, <2>3 DEF LoopTake
    <3> QED BY <1>0, <2>1, <2>3, <3>1, <3>2 DEF OrderInv, ElementPlace, Ending, InOrder, InHand
  <2>4. CASE queue # <<>>
    <3>1. Head(queue) \in Messages /\ Tail(queue) \in Seq(Messages)
      BY <1>0, <2>4
    <3>2. Head(queue) # NoElement
      BY <3>1, LoopAssumption DEF Messages
    <3>3. InHand' = <<Head(queue)>> /\ queue' = Tail(queue) /\ accepted' = accepted
          /\ handled' = handled /\ element' = Head(queue)
      BY <1>4, <2>4, <3>2 DEF LoopTake, InHand
    <3>4. (handled \o <<Head(queue)>>) \o Tail(queue) = handled \o (<<Head(queue)>> \o Tail(queue))
      BY <1>0, <3>1, ConcatAssociative
    <3>5. InOrder'
      BY <1>0, <2>2, <2>4, <3>3, <3>4, HeadFirst DEF InOrder
    <3> QED BY <2>1, <3>2, <3>3, <3>5 DEF OrderInv, ElementPlace, Ending, Finished
  <2> QED BY <2>3, <2>4
<1>5. CASE LoopResponded
  <2>1. element # NoElement /\ element \in Messages /\ loop' = "start"
    BY <1>0, <1>5 DEF LoopResponded, Goto, LinkedLoop, Inv, TypeOK
  <2>2. handled' = Append(handled, element) /\ element' = NoElement
        /\ UNCHANGED <<queue, aborting, accepted>>
    BY <1>5 DEF LoopResponded
  <2>3. InHand = <<element>> /\ InHand' = <<>>
    BY <2>1, <2>2 DEF InHand
  <2>4. handled \o InHand = handled'
    BY <1>0, <2>1, <2>2, <2>3, LastHandled
  <2>5. handled' \o InHand' = handled'
    BY <1>0, <2>1, <2>2, <2>3, ConcatEmptySeq
  <2> QED BY <1>0, <2>1, <2>2, <2>4, <2>5
          DEF OrderInv, ElementPlace, Ending, InOrder, Finished
<1>6. CASE LoopWait \/ LoopLock
  BY <1>0, <1>6 DEF LoopWait, LoopLock, Goto, OrderInv, ElementPlace, Ending, InOrder, InHand, Finished
<1>7. CASE LoopRespond \/ LoopExit \/ LoopDestroy \/ LoopFree \/ LoopLeave
  BY <1>0, <1>7 DEF LoopRespond, LoopExit, LoopDestroy, LoopFree, LoopLeave, Goto,
     OrderInv, ElementPlace, Ending, InOrder, InHand, Finished
<1>8. ASSUME NEW t \in Threads, Call(t) \/ Unlock(t) \/ Return(t) \/ CallStage(t) \/ FaultLoop(t)
      PROVE  UNCHANGED OrderVars
  BY <1>8 DEF Call, BeginPost, BeginAbort, Unlock, Return, CallStage, FaultLoop, loopVars, OrderVars
<1>9. CASE UNCHANGED vars
  BY <1>1, <1>9 DEF vars, loopVars, OrderVars
<1> QED BY <1>1, <1>2, <1>3, <1>4, <1>5, <1>6, <1>7, <1>8, <1>9 DEF Next, Go, RunLoop

(***************************************************************************)
(* No message is lost, handled twice or overtaken.                         *)
(***************************************************************************)
THEOREM OrderKept == Spec => []InOrder
<1>1. Init => Inv /\ OrderInv
  BY InvInit, OrderInit
<1>2. Inv /\ OrderInv /\ [Next]_vars => Inv' /\ OrderInv'
  BY InvStep, OrderStep
<1>3. OrderInv => InOrder
  BY DEF OrderInv
<1> QED BY <1>1, <1>2, <1>3, PTL DEF Spec

LEMMA AllHandled ==
  ASSUME Inv, OrderInv, loop \in Finished \/ (loop = "unlocking" /\ element = NoElement)
  PROVE  aborting /\ queue = <<>> /\ handled = accepted
<1>1. aborting /\ queue = <<>>
  BY DEF OrderInv, Ending
<1>2. InHand = <<>>
  BY DEF OrderInv, ElementPlace, InHand, Finished
<1>3. handled \in Seq(Messages) /\ accepted = handled \o InHand \o queue
  BY DEF Inv, TypeOK, OrderInv, InOrder
<1>4. accepted = handled
  BY <1>1, <1>2, <1>3, ConcatEmptySeq
<1> QED BY <1>1, <1>4

(***************************************************************************)
(* When after_abort is called, every accepted message has been handled.    *)
(***************************************************************************)
THEOREM AbortDrains == Spec => []Drained
<1>1. Init => Inv /\ OrderInv
  BY InvInit, OrderInit
<1>2. Inv /\ OrderInv /\ [Next]_vars => Inv' /\ OrderInv'
  BY InvStep, OrderStep
<1>3. Inv /\ OrderInv => Drained
  BY AllHandled DEF Drained
<1> QED BY <1>1, <1>2, <1>3, PTL DEF Spec

(***************************************************************************)
(* The step simulation: the action that appends to accepted is the         *)
(* abstract Accept, the flag's is Close, the return of the response is     *)
(* Handle, the exit of the loop is Finish, and all others stutter.         *)
(***************************************************************************)
LEMMA QueueStep == Inv /\ OrderInv /\ [Next]_vars => [Queue!Next]_(Queue!vars)
<1> SUFFICES ASSUME Inv, OrderInv, [Next]_vars PROVE [Queue!Next]_(Queue!vars)
  OBVIOUS
<1> DEFINE Still == UNCHANGED <<accepted, handled, aborting>> /\ (loop' \in Finished <=> loop \in Finished)
<1>1. ASSUME Still PROVE UNCHANGED Queue!vars
  BY <1>1 DEF Queue!vars
<1>2. ASSUME NEW t \in Threads, Add(t) PROVE Queue!Accept(Message(t))
  BY <1>2 DEF Add, Queue!Accept
<1>3. ASSUME NEW t \in Threads, Add(t) PROVE Message(t) \in Messages
  BY <1>3 DEF Add, Inv, TypeOK
<1>4. ASSUME NEW t \in Threads, Abort(t) PROVE Queue!Close
  BY <1>4 DEF Abort, Queue!Close
<1>5. CASE LoopResponded
  <2>1. element \in Messages /\ InHand = <<element>>
    BY <1>5 DEF LoopResponded, Goto, Inv, Linked, LinkedLoop, TypeOK, InHand
  <2>2. handled \in Seq(Messages) /\ queue \in Seq(Messages) /\ accepted \in Seq(Messages)
    BY DEF Inv, TypeOK
  <2>3. accepted = (handled \o <<element>>) \o queue
    BY <2>1 DEF OrderInv, InOrder
  <2>4. Len(handled) < Len(accepted) /\ accepted[Len(handled) + 1] = element
    BY <2>1, <2>2, <2>3
  <2> QED BY <1>5, <2>4 DEF LoopResponded, Goto, Finished, Queue!Handle, Queue!Next
<1>6. CASE LoopExit
  <2>1. aborting /\ handled = accepted
    BY <1>6, AllHandled DEF LoopExit, Goto
  <2> QED BY <1>6, <2>1 DEF LoopExit, Goto, Finished, Queue!Finish, Queue!Next
<1>7. CASE LoopWait \/ LoopLock \/ LoopTake \/ LoopRespond \/ LoopDestroy \/ LoopFree \/ LoopLeave
  <2>1. Still
    BY <1>7 DEF LoopWait, LoopLock, LoopTake, LoopRespond, LoopDestroy, LoopFree, LoopLeave, Goto, Finished
  <2> QED BY <1>1, <2>1
<1>8. ASSUME NEW t \in Threads, Call(t) \/ Unlock(t) \/ Return(t) \/ CallStage(t) \/ FaultLoop(t)
      PROVE  Still
  BY <1>8 DEF Call, BeginPost, BeginAbort, Unlock, Return, CallStage, FaultLoop, loopVars
<1>9. CASE UNCHANGED vars
  BY <1>1, <1>9 DEF vars, loopVars
<1> HIDE DEF Still
<1> QED BY <1>1, <1>2, <1>3, <1>4, <1>5, <1>6, <1>7, <1>8, <1>9 DEF Next, Go, RunLoop, Queue!Next

(***************************************************************************)
(* The message loop implements the abstract queue: whatever the clients    *)
(* do, accepted messages are handled in order and once, none is accepted   *)
(* after the abort, and after_abort is called once, when all are handled.  *)
(***************************************************************************)
THEOREM ImplementsQueue == Spec => QueueSafety
<1>1. Init => Inv /\ OrderInv /\ Queue!Init
  BY InvInit, OrderInit DEF Init, Queue!Init, Finished
<1>2. Inv /\ OrderInv /\ [Next]_vars => Inv' /\ OrderInv' /\ [Queue!Next]_(Queue!vars)
  BY InvStep, OrderStep, QueueStep
<1> QED BY <1>1, <1>2, PTL DEF Spec, QueueSafety, Queue!Safety

-----------------------------------------------------------------------------
(***************************************************************************)
(* The memory.  What follows needs what the examples' clients and one      *)
(* processor give: the abort is the last call on the loop, ++ and -- of    *)
(* *references are one instruction, and there are fewer threads than an    *)
(* unsigned int counts.                                                    *)
(***************************************************************************)
Careful ==
  /\ ~Smp /\ AbortLast
  /\ IsFiniteSet(Threads) /\ Cardinality(Threads) + 1 < RefMod

Others == Threads \ {Loop}

(* Once an abort was begun only the aborter and the loop's thread are in calls. *)
LastCall ==
  /\ aborting \/ mapOwner # Nobody => aborts # 0
  /\ \A t \in Threads : pc[t] = "abort" => mapOwner = t
  /\ \A t \in Others : aborts # 0 =>
       pc[t] = "idle" \/ (mapOwner = t /\ pc[t] \in {"abort", "added", "leaving"})
  /\ \A t \in Others : aborting => pc[t] # "abort"

(* Once the loop has found no element the aborter has done its last V. *)
Over == loop \in Finished \/ (loop = "unlocking" /\ element = NoElement)

LeftAlone == Over => \A t \in Others :
  pc[t] = "idle" \/ (pc[t] = "leaving" /\ stage[t] \in AfterKernel)

(* The handles: the loop's own, and one in every call that has counted it. *)
Held   == IF loop \in {"destroying", "freed", "done"} THEN 0 ELSE 1
InCall == {t \in Threads : stage[t] \in {"kernel", "dec"}}

CellCounted ==
  /\ \A t \in Threads : stage[t] \in {"idle", "inc", "kernel", "dec"}
  /\ references = Held + Cardinality(InCall)
  /\ removed = freed
  /\ freed <=> Held = 0 /\ InCall = {}
  /\ ~crashed

CarefulInv == Inv /\ OrderInv /\ LastCall /\ LeftAlone /\ CellCounted

LEMMA LastCallStep == ASSUME AbortLast PROVE Inv /\ LastCall /\ [Next]_vars => LastCall'
<1> SUFFICES ASSUME Inv, LastCall, [Next]_vars PROVE LastCall'
  OBVIOUS
<1>0. /\ pc \in [Threads -> Labels] /\ aborts \in Nat /\ Nobody \notin Threads
      /\ mapOwner \in Threads \cup {Nobody}
  BY LoopAssumption DEF Inv, TypeOK
<1> USE DEF LastCall, Others
<1>1. ASSUME NEW t \in Threads, BeginPost(t) PROVE LastCall'
  BY <1>0, <1>1 DEF BeginPost, Free
<1>2. ASSUME NEW t \in Threads, BeginAbort(t) PROVE LastCall'
  <2>1. /\ aborts = 0 /\ aborts' # 0 /\ ~aborting /\ aborting' = aborting /\ mapOwner' = t
        /\ pc' = [pc EXCEPT ![t] = "abort"] /\ \A u \in Others : pc[u] = "idle"
        /\ \A u \in Threads : pc[u] # "abort"
    BY <1>0, <1>2 DEF BeginAbort
  <2> QED BY <1>0, <2>1
<1>3. ASSUME NEW t \in Threads, Add(t) PROVE LastCall'
  BY <1>0, <1>3 DEF Add
<1>4. ASSUME NEW t \in Threads, Abort(t) PROVE LastCall'
  BY <1>0, <1>4 DEF Abort
<1>5. ASSUME NEW t \in Threads, Unlock(t) PROVE LastCall'
  BY <1>0, <1>5 DEF Unlock
<1>6. ASSUME NEW t \in Threads, Return(t) PROVE LastCall'
  BY <1>0, <1>6 DEF Return
<1>7. ASSUME UNCHANGED <<aborting, pc, aborts, mapOwner>> PROVE LastCall'
  BY <1>7
<1>8. CASE RunLoop
  BY <1>7, <1>8 DEF RunLoop, LoopWait, LoopLock, LoopTake, LoopRespond, LoopResponded, LoopExit,
                    LoopDestroy, LoopFree, LoopLeave
<1>9. ASSUME NEW t \in Threads, CallStage(t) \/ FaultLoop(t) PROVE LastCall'
  BY <1>7, <1>9 DEF CallStage, FaultLoop, loopVars
<1>10. CASE UNCHANGED vars
  BY <1>7, <1>10 DEF vars, loopVars
<1> QED BY <1>1, <1>2, <1>3, <1>4, <1>5, <1>6, <1>8, <1>9, <1>10 DEF Next, Call, Go

(***************************************************************************)
(* The loop takes nothing: it has the mutex, so the aborter has given it   *)
(* back, and nobody else is in a call.                                     *)
(***************************************************************************)
LEMMA TakesNothing ==
  ASSUME Inv, LastCall, LoopTake, aborting, NEW t \in Others
  PROVE  pc[t] = "idle" \/ (pc[t] = "leaving" /\ stage[t] \in AfterKernel)
<1>1. HasMutex(Loop) /\ Loop \in Threads /\ t \in Threads /\ t # Loop
  BY LoopAssumption DEF LoopTake, Goto, Op, Begin, Idle, HasMutex, AfterKernel, Others
<1>2. ~HasMutex(t)
  BY <1>1 DEF Inv, Exclusive
<1>3. pc[t] = "idle" \/ pc[t] \in {"added", "leaving"}
  BY DEF LastCall
<1>4. stage[t] \in BeforeKernel \cup AfterKernel
  BY <1>1 DEF Inv, TypeOK, SemTypeOK, Stages, BeforeKernel, AfterKernel
<1> QED BY <1>2, <1>3, <1>4 DEF HasMutex

LEMMA LeftAloneStep ==
  ASSUME AbortLast
  PROVE  Inv /\ OrderInv /\ OrderInv' /\ LastCall /\ LeftAlone /\ [Next]_vars => LeftAlone'
<1> SUFFICES ASSUME Inv, OrderInv, OrderInv', LastCall, LeftAlone, [Next]_vars, Over',
                    NEW u \in Others
             PROVE  (pc[u] = "idle" \/ (pc[u] = "leaving" /\ stage[u] \in AfterKernel))'
  BY DEF LeftAlone
<1>0. /\ pc \in [Threads -> Labels] /\ stage \in [Threads -> Stages] /\ SemTypeOK
      /\ u \in Threads /\ u # Loop /\ Loop \in Threads
  BY LoopAssumption DEF Inv, TypeOK, SemTypeOK, Others
<1>1. Over => /\ aborting /\ aborts # 0
              /\ pc[u] = "idle" \/ (pc[u] = "leaving" /\ stage[u] \in AfterKernel)
  BY DEF Over, OrderInv, Ending, LastCall, LeftAlone
<1>2. ASSUME NEW t \in Threads, BeginPost(t) \/ BeginAbort(t) PROVE Over /\ t # u
  BY <1>0, <1>1, <1>2 DEF BeginPost, BeginAbort, Over
<1>3. ASSUME NEW t \in Threads, Add(t) \/ Abort(t) \/ Unlock(t) \/ Return(t)
      PROVE  Over /\ (t = u => Return(t))
  BY <1>0, <1>1, <1>3 DEF Add, Abort, Unlock, Return, Over
<1>4. ASSUME NEW t \in Threads, t # u, Over, pc'[u] = pc[u], stage'[u] = stage[u]
      PROVE  (pc[u] = "idle" \/ (pc[u] = "leaving" /\ stage[u] \in AfterKernel))'
  BY <1>1, <1>4
<1>5. ASSUME NEW t \in Threads, t # u, Call(t) \/ Add(t) \/ Abort(t) \/ Unlock(t) \/ Return(t)
      PROVE  pc'[u] = pc[u] /\ stage'[u] = stage[u]
  BY <1>0, <1>5 DEF Call, BeginPost, BeginAbort, Add, Abort, Unlock, Return, Op, Begin, semVars
<1>6. ASSUME NEW t \in Threads, Call(t) \/ Add(t) \/ Abort(t) \/ Unlock(t) \/ Return(t)
      PROVE  (pc[u] = "idle" \/ (pc[u] = "leaving" /\ stage[u] \in AfterKernel))'
  <2>1. CASE t # u
    BY <1>2, <1>3, <1>4, <1>5, <1>6, <2>1 DEF Call
  <2>2. CASE t = u
    BY <1>0, <1>2, <1>3, <1>6, <2>2 DEF Call, Return
  <2> QED BY <2>1, <2>2
<1>7. ASSUME NEW t \in Threads, CallStage(t)
      PROVE  (pc[u] = "idle" \/ (pc[u] = "leaving" /\ stage[u] \in AfterKernel))'
  <2>1. Over /\ pc' = pc
    BY <1>7 DEF CallStage, loopVars, Over
  <2>2. Quiet(t) \/ Applied(t)
    BY <1>7, CallsAreBusy, CallStepEffect DEF CallStage, Inv
  <2>3. stage[u] \in AfterKernel => stage'[u] \in AfterKernel
    BY <1>0, <2>2 DEF Quiet, Applied, Stages, BeforeKernel, AfterKernel
  <2> QED BY <1>1, <2>1, <2>3
<1>8. CASE LoopTake
  <2>1. aborting
    BY <1>8 DEF LoopTake, OrderInv, Ending, Over
  <2>2. pc'[u] = pc[u] /\ stage'[u] = stage[u]
    BY <1>0, <1>8 DEF LoopTake, Op, Begin
  <2> QED BY <1>8, <2>1, <2>2, TakesNothing
<1>9. CASE RunLoop /\ ~LoopTake
  <2>1. Over
    BY <1>9 DEF RunLoop, LoopWait, LoopLock, LoopRespond, LoopResponded, LoopExit, LoopDestroy,
                LoopFree, LoopLeave, Goto, Over, Finished
  <2>2. pc' = pc /\ stage'[u] = stage[u]
    BY <1>0, <1>9 DEF RunLoop, LoopWait, LoopLock, LoopRespond, LoopResponded, LoopExit,
                      LoopDestroy, LoopFree, LoopLeave, Op, Destroy, Begin, semVars
  <2> QED BY <1>1, <2>1, <2>2
<1>10. CASE UNCHANGED vars \/ \E t \in Threads : FaultLoop(t)
  BY <1>1, <1>10 DEF vars, semVars, loopVars, FaultLoop, Over
<1> QED BY <1>6, <1>7, <1>8, <1>9, <1>10 DEF Next, Go

(***************************************************************************)
(* So nothing touches what is freed.                                       *)
(***************************************************************************)
LEMMA NothingTouched ==
  ASSUME CarefulInv, NEW t \in Threads
  PROVE  ~(Gone /\ UsesLoop(t)) /\ ~(freed /\ TouchesCell(t))
<1>0. /\ stage[t] \in {"idle", "inc", "kernel", "dec"} /\ (freed <=> Held = 0 /\ InCall = {})
      /\ LinkedLoop /\ pc[t] \in Labels
  BY DEF CarefulInv, CellCounted, Inv, Linked, TypeOK
<1>1. Gone \/ freed => loop \in {"destroying", "freed", "done"} /\ Over
  BY <1>0 DEF Gone, Held, Over, Finished
<1>2. CASE t = Loop
  <2>1. Gone \/ freed => pc[t] = "idle" /\ stage[t] # "inc"
    BY <1>0, <1>1, <1>2 DEF LinkedLoop, AfterKernel, Idle
  <2>2. ~(Gone /\ UsesLoop(t))
    BY <2>1 DEF UsesLoop
  <2>3. ~(freed /\ TouchesCell(t))
    BY <1>0, <2>1 DEF TouchesCell, InCall
  <2> QED BY <2>2, <2>3
<1>3. CASE t # Loop
  <2>1. Gone \/ freed => pc[t] = "idle" \/ (pc[t] = "leaving" /\ stage[t] \in AfterKernel)
    BY <1>1, <1>3 DEF CarefulInv, LeftAlone, Others
  <2>2. pc[t] = "idle" => Idle(t)
    BY <1>3 DEF CarefulInv, Inv, Linked, LinkedCall
  <2>3. ~(Gone /\ UsesLoop(t))
    BY <2>1, <2>2 DEF UsesLoop, AfterKernel, Idle
  <2>4. ~(freed /\ TouchesCell(t))
    BY <1>0, <2>1, <2>2 DEF TouchesCell, InCall, AfterKernel, Idle
  <2> QED BY <2>3, <2>4
<1> QED BY <1>2, <1>3

(***************************************************************************)
(* What a stage does to the cell.                                          *)
(***************************************************************************)
Enters(t) ==
  /\ stage[t] = "inc" /\ stage' = [stage EXCEPT ![t] = "kernel"]
  /\ references' = (references + 1) % RefMod
  /\ UNCHANGED <<removed, freed, crashed>>

Operates(t) ==
  /\ stage[t] = "kernel" /\ stage' = [stage EXCEPT ![t] = "dec"]
  /\ UNCHANGED <<references, removed, freed, crashed>>

Leaves(t) ==
  /\ stage[t] = "dec" /\ stage' = [stage EXCEPT ![t] = "idle"]
  /\ references' = Less(references)
  /\ removed' = (removed \/ references' = 0) /\ freed' = (freed \/ references' = 0)
  /\ crashed' = (freed /\ references' = 0)

LEMMA CellEffect ==
  ASSUME Careful, CarefulInv, NEW t \in Threads, CallStep(t)
  PROVE  Enters(t) \/ Operates(t) \/ Leaves(t)
<1>0. stage[t] \in {"idle", "inc", "kernel", "dec"} /\ ~Smp /\ ~Fault(t) /\ Busy(t)
  <2>1. Busy(t)
    BY CallsAreBusy DEF CarefulInv, Inv
  <2> QED BY <2>1, NothingTouched DEF Careful, CarefulInv, CellCounted, Fault
<1>1. stage[t] = "inc" => AfterIncrement(call[t]) = "kernel"
  BY <1>0, LoopAssumption DEF Busy, Doing, AfterIncrement, Refused, AfterKernel
<1>2. CASE Increment(t)
  BY <1>0, <1>1, <1>2 DEF Increment, IncrementFrom, Load, Enters
<1>3. CASE SemTimedOp(t)
  BY <1>3 DEF SemTimedOp, Operates
<1>4. CASE Decrement(t)
  BY <1>0, <1>4 DEF Decrement, EndDestroy, Load, Leaves
<1> QED BY <1>0, <1>2, <1>3, <1>4 DEF CallStep

(***************************************************************************)
(* The number of the calls, and what one more or one less makes of it.     *)
(***************************************************************************)
LEMMA Small ==
  ASSUME NEW n \in Nat, n < RefMod
  PROVE  n % RefMod = n /\ (n >= 1 => Less(n) = n - 1)
<1>1. RefMod \in Nat \ {0}
  BY SemaphoreAssumption
<1>2. n % RefMod = n
  BY <1>1, SmallMod
<1>3. n >= 1 => (n - 1) % RefMod = n - 1
  BY <1>1, SmallMod
<1> QED BY <1>2, <1>3 DEF Less

LEMMA CallsCounted ==
  ASSUME Careful, NEW t \in Threads, NEW C \in SUBSET Threads
  PROVE  /\ Cardinality(C) \in Nat /\ Cardinality(C) + 1 < RefMod
         /\ Cardinality(C) = 0 <=> C = {}
         /\ t \notin C => Cardinality(C \cup {t}) = Cardinality(C) + 1
         /\ t \in C => Cardinality(C \ {t}) = Cardinality(C) - 1
<1>1. IsFiniteSet(C) /\ Cardinality(C) \in Nat /\ Cardinality(C) <= Cardinality(Threads)
      /\ Cardinality(Threads) \in Nat
  BY FS_Subset, FS_CardinalityType DEF Careful
<1>2. Cardinality(C) + 1 < RefMod
  BY <1>1, SemaphoreAssumption DEF Careful
<1>3. Cardinality(C) = 0 <=> C = {}
  BY <1>1, FS_EmptySet
<1>4. /\ t \notin C => Cardinality(C \cup {t}) = Cardinality(C) + 1
      /\ t \in C => Cardinality(C \ {t}) = Cardinality(C) - 1
  BY <1>1, FS_AddElement, FS_RemoveElement
<1> QED BY <1>1, <1>2, <1>3, <1>4

LEMMA CellStep == ASSUME Careful PROVE CarefulInv /\ [Next]_vars => CellCounted'
<1> SUFFICES ASSUME CarefulInv, [Next]_vars PROVE CellCounted'
  OBVIOUS
<1>0. /\ stage \in [Threads -> Stages] /\ Loop \in Threads /\ CellCounted
      /\ InCall \in SUBSET Threads /\ Held \in {0, 1}
  BY LoopAssumption DEF CarefulInv, Inv, TypeOK, SemTypeOK, InCall, Held
<1>1. ASSUME UNCHANGED <<stage, references, removed, freed, crashed>>, Held' = Held
      PROVE  CellCounted'
  BY <1>0, <1>1 DEF CellCounted, InCall
<1>2. ASSUME NEW t \in Threads, Held' = Held, Idle(t), stage' = [stage EXCEPT ![t] = "inc"],
             UNCHANGED <<references, removed, freed, crashed>>
      PROVE  CellCounted'
  <2>1. InCall' = InCall
    BY <1>0, <1>2 DEF InCall, Idle
  <2>2. \A u \in Threads : stage'[u] \in {"idle", "inc", "kernel", "dec"}
    BY <1>0, <1>2 DEF CellCounted
  <2> QED BY <1>0, <1>2, <2>1, <2>2 DEF CellCounted
<1>3. ASSUME NEW t \in Threads, BeginPost(t) \/ BeginAbort(t) \/ Add(t) \/ Abort(t) \/ Unlock(t)
      PROVE  CellCounted'
  BY <1>2, <1>3 DEF BeginPost, BeginAbort, Add, Abort, Unlock, Op, Begin, Held
<1>4. ASSUME NEW t \in Threads, Return(t) PROVE CellCounted'
  BY <1>1, <1>4 DEF Return, semVars, Held
<1>5. ASSUME NEW t \in Threads, CallStage(t) PROVE CellCounted'
  <2>0. /\ Cardinality(InCall) \in Nat /\ Cardinality(InCall) + 1 < RefMod
        /\ references = Held + Cardinality(InCall) /\ references \in Nat /\ references < RefMod
        /\ (freed <=> Held = 0 /\ InCall = {}) /\ removed = freed /\ ~crashed /\ Held' = Held
        /\ \A u \in Threads : stage[u] \in {"idle", "inc", "kernel", "dec"}
    <3>1. Held' = Held
      BY <1>5 DEF CallStage, loopVars, Held
    <3>2. Cardinality(InCall) \in Nat /\ Cardinality(InCall) + 1 < RefMod
      BY <1>0, CallsCounted
    <3> QED BY <1>0, <3>1, <3>2, SemaphoreAssumption DEF CellCounted
  <2>1. CASE Enters(t)
    <3>1. InCall' = InCall \cup {t} /\ t \notin InCall
      BY <1>0, <2>1 DEF Enters, InCall
    <3>2. ~freed
      BY <1>0, <2>1, NothingTouched DEF Enters, TouchesCell
    <3>3. Cardinality(InCall') = Cardinality(InCall) + 1
      BY <1>0, <3>1, CallsCounted
    <3>4. InCall # {} \/ Held = 1
      BY <1>0, <2>0, <3>2
    <3>5. references + 1 \in Nat /\ references + 1 <= RefMod /\ Held + Cardinality(InCall) + 1 = references + 1
      BY <1>0, <2>0, SemaphoreAssumption
    <3>6. references' = references + 1
      <4>1. CASE references + 1 < RefMod
        BY <2>1, <3>5, <4>1, Small DEF Enters
      <4>2. InCall \cup {t} \in SUBSET Threads
        BY <1>0
      <4>3. Cardinality(InCall \cup {t}) + 1 < RefMod
        BY <4>2, CallsCounted
      <4>4. references + 1 < RefMod
        BY <1>0, <2>0, <3>1, <3>3, <4>3, SemaphoreAssumption
      <4> QED BY <4>1, <4>4
    <3>7. \A u \in Threads : stage'[u] \in {"idle", "inc", "kernel", "dec"}
      BY <1>0, <2>0, <2>1 DEF Enters
    <3>8. references' = Held' + Cardinality(InCall')
      BY <1>0, <2>0, <3>3, <3>6
    <3> QED BY <2>0, <2>1, <3>1, <3>2, <3>7, <3>8 DEF Enters, CellCounted
  <2>2. CASE Operates(t)
    <3>1. InCall' = InCall
      BY <1>0, <2>2 DEF Operates, InCall
    <3>2. \A u \in Threads : stage'[u] \in {"idle", "inc", "kernel", "dec"}
      BY <1>0, <2>0, <2>2 DEF Operates
    <3> QED BY <2>0, <2>2, <3>1, <3>2 DEF Operates, CellCounted
  <2>3. CASE Leaves(t)
    <3>1. InCall' = InCall \ {t} /\ t \in InCall
      BY <1>0, <2>3 DEF Leaves, InCall
    <3>2. Cardinality(InCall') = Cardinality(InCall) - 1 /\ Cardinality(InCall') \in Nat
      BY <1>0, <3>1, CallsCounted
    <3>3. (Cardinality(InCall') = 0) <=> (InCall' = {})
      <4>1. InCall \ {t} \in SUBSET Threads
        BY <1>0
      <4> QED BY <3>1, <4>1, CallsCounted
    <3>4. references' = references - 1
      BY <1>0, <2>0, <2>3, <3>2, Small DEF Leaves
    <3>5. references' = Held' + Cardinality(InCall')
      BY <1>0, <2>0, <3>2, <3>4
    <3>6. references' = 0 <=> Held' = 0 /\ InCall' = {}
      BY <1>0, <2>0, <3>2, <3>3, <3>5
    <3>7. ~freed
      BY <2>0, <3>1
    <3>8. \A u \in Threads : stage'[u] \in {"idle", "inc", "kernel", "dec"}
      BY <1>0, <2>0, <2>3 DEF Leaves
    <3>9. removed' = (references' = 0) /\ freed' = (references' = 0) /\ ~crashed'
      BY <2>0, <2>3, <3>7 DEF Leaves
    <3> QED BY <3>5, <3>6, <3>8, <3>9 DEF CellCounted
  <2> QED BY <1>5, <2>1, <2>2, <2>3, CellEffect DEF CallStage
<1>6. CASE LoopWait \/ LoopLock \/ LoopTake
  BY <1>0, <1>2, <1>6 DEF LoopWait, LoopLock, LoopTake, Op, Begin, Goto, Held
<1>7. CASE LoopRespond \/ LoopResponded \/ LoopExit \/ LoopFree \/ LoopLeave
  BY <1>1, <1>7 DEF LoopRespond, LoopResponded, LoopExit, LoopFree, LoopLeave, semVars, Goto, Held
<1>8. CASE LoopDestroy
  <2>1. /\ Idle(Loop) /\ stage' = [stage EXCEPT ![Loop] = "dec"] /\ Held = 1 /\ Held' = 0
        /\ UNCHANGED <<references, removed, freed, crashed>>
    BY <1>8 DEF LoopDestroy, Destroy, Begin, Goto, Held
  <2>2. InCall' = InCall \cup {Loop} /\ Loop \notin InCall
    BY <1>0, <2>1 DEF InCall, Idle
  <2>3. Cardinality(InCall') = Cardinality(InCall) + 1 /\ Cardinality(InCall) \in Nat
    BY <1>0, <2>2, CallsCounted
  <2>4. \A u \in Threads : stage'[u] \in {"idle", "inc", "kernel", "dec"}
    BY <1>0, <2>1 DEF CellCounted
  <2>5. references' = Held' + Cardinality(InCall')
    BY <1>0, <2>1, <2>3 DEF CellCounted
  <2> QED BY <1>0, <2>1, <2>2, <2>4, <2>5 DEF CellCounted
<1>9. ASSUME NEW t \in Threads PROVE ~FaultLoop(t)
  BY NothingTouched DEF FaultLoop
<1>10. CASE UNCHANGED vars
  BY <1>1, <1>10 DEF vars, semVars, loopVars, Held
<1> QED BY <1>3, <1>4, <1>5, <1>6, <1>7, <1>8, <1>9, <1>10 DEF Next, Call, Go, RunLoop

LEMMA CarefulInit == ASSUME Careful PROVE Init => CarefulInv
<1> SUFFICES ASSUME Init PROVE CarefulInv
  OBVIOUS
<1>1. InCall = {} /\ Held = 1
  BY DEF Init, SemInit, InCall, Held
<1>2. Cardinality(InCall) = 0
  BY <1>1, FS_EmptySet
<1>3. CellCounted
  <2>1. /\ references = 1 /\ freed = FALSE /\ removed = FALSE /\ ~crashed
        /\ \A t \in Threads : stage[t] = "idle"
    BY DEF Init, SemInit
  <2>2. references = Held + Cardinality(InCall)
    BY <1>1, <1>2, <2>1
  <2>3. freed <=> Held = 0 /\ InCall = {}
    BY <1>1, <2>1
  <2>4. \A t \in Threads : stage[t] \in {"idle", "inc", "kernel", "dec"}
    BY <2>1
  <2>5. removed = freed /\ ~crashed
    BY <2>1
  <2> QED BY <2>2, <2>3, <2>4, <2>5 DEF CellCounted
<1>4. LastCall /\ LeftAlone
  BY DEF Init, LastCall, LeftAlone, Over, Others, Finished
<1> QED BY <1>3, <1>4, InvInit, OrderInit DEF CarefulInv

LEMMA AlwaysCareful == ASSUME Careful PROVE Spec => []CarefulInv
<1>1. CarefulInv /\ [Next]_vars => CarefulInv'
  <2> SUFFICES ASSUME CarefulInv, [Next]_vars PROVE CarefulInv'
    OBVIOUS
  <2>1. AbortLast /\ Inv /\ OrderInv /\ LastCall /\ LeftAlone
    BY DEF Careful, CarefulInv
  <2>2. Inv' /\ OrderInv' /\ LastCall'
    BY <2>1, InvStep, OrderStep, LastCallStep
  <2>3. LeftAlone' /\ CellCounted'
    BY <2>1, <2>2, LeftAloneStep, CellStep
  <2> QED BY <2>2, <2>3 DEF CarefulInv
<1> QED BY <1>1, CarefulInit, PTL DEF Spec

(***************************************************************************)
(* No zs__messageloop_post or zs__messageloop_abort uses the struct, the   *)
(* handle or the cell after zs__messageloop_run freed them, not even the   *)
(* abort whose V let it run to its end; and no cell is freed twice.        *)
(***************************************************************************)
THEOREM UsedBeforeFreed == ASSUME Careful PROVE Spec => []NoUseAfterFree
<1>1. CarefulInv => NoUseAfterFree
  BY NothingTouched DEF CarefulInv, CellCounted, NoUseAfterFree
<1> QED BY <1>1, AlwaysCareful, PTL

(***************************************************************************)
(* The last zs__semaphore_destroy, that of zs__messageloop_run or that in  *)
(* the V of the abort, removes the kernel's semaphore set and frees the    *)
(* cell.                                                                   *)
(***************************************************************************)
THEOREM SetRemoved == ASSUME Careful PROVE Spec => []NoLeak
<1>1. ASSUME CarefulInv, Gone, \A t \in Threads : Idle(t) PROVE removed /\ freed
  <2>1. InCall = {}
    BY <1>1 DEF InCall, Idle
  <2>2. Held = 0
    BY <1>1 DEF Gone, Held
  <2> QED BY <1>1, <2>1, <2>2 DEF CarefulInv, CellCounted
<1> QED BY <1>1, AlwaysCareful, PTL DEF NoLeak
=============================================================================
