-------------------------- MODULE SemaphoreClients --------------------------
(***************************************************************************)
(* Threads that use one semaphore set the way class ZSSemaphore of         *)
(* zssemaphore.h does: every object holds a zs__semaphore handle, a copy   *)
(* constructor duplicates it, the destructor destroys it, and Op, Set go   *)
(* through the handle of an object.  Any thread uses, copies and destroys  *)
(* any object: a copy may go to another thread, as in                      *)
(* example/semaphore/cpp, and a handle may be destroyed by one thread      *)
(* while an operation of another, made with it, is blocked.                *)
(***************************************************************************)
EXTENDS ZsSemaphore, FiniteSets

CONSTANTS
  Handles,    \* names for the handles that may exist at the same time
  NoHandle,   \* what a thread reads that reads no handle
  Initial,    \* the values the creator sets
  OpArgs,     \* <<id, value, timed>> of the zs__semaphore_op calls
  SetArgs     \* <<id, value>> of the zs__semaphore_set calls

ASSUME ClientsAssumption ==
  /\ IsFiniteSet(Threads) /\ IsFiniteSet(Handles)
  /\ Cardinality(Threads) + Cardinality(Handles) < RefMod
  /\ Threads # {} /\ Handles # {}
  /\ NoHandle \notin Handles
  /\ Initial \in [SemIds -> 0 .. ShortMax]
  /\ OpArgs \subseteq Nat \X Int \X BOOLEAN

VARIABLES
  live,    \* the handles of the objects
  via,     \* the handle each thread's call is made with, as long as it reads it
  raced    \* history: two threads were between load and test of *references at once

vars == <<semVars, live, via, raced>>

(***************************************************************************)
(* The threads whose call holds a counted handle of its own: the duplicate *)
(* of an operation, or the handle that is being destroyed.                 *)
(***************************************************************************)
InCall == {t \in Threads : stage[t] \in {"kernel", "dec", "decStore"}}

(* Two threads change *references at the same time. *)
Changing(t) == stage[t] \in {"incStore", "decStore", "test"}
Overlap == \E t, u \in Threads : t # u /\ Changing(t) /\ Changing(u)

Init ==
  /\ SemInit(Initial)
  /\ \E h \in Handles : live = {h}
  /\ via = [t \in Threads |-> NoHandle]
  /\ raced = FALSE

(* ZSSemaphore::Op *)
DoOp(t) ==
  /\ \E a \in OpArgs : Op(t, a[1], a[2], a[3])
  /\ \E h \in live : via' = [via EXCEPT ![t] = h]
  /\ UNCHANGED <<live, raced>>

(* ZSSemaphore::Set *)
DoSet(t) ==
  /\ live # {}
  /\ \E a \in SetArgs : Set(t, a[1], a[2])
  /\ UNCHANGED <<live, via, raced>>

(***************************************************************************)
(* The copy constructor; the new handle appears when the call is through.  *)
(* Bound: as many handles as there are names.                              *)
(***************************************************************************)
Copying == {t \in Threads : call[t].kind = "duplicate" /\ stage[t] # "idle"}

DoCopy(t) ==
  /\ Cardinality(live) + Cardinality(Copying) < Cardinality(Handles)
  /\ Duplicate(t)
  /\ \E h \in live : via' = [via EXCEPT ![t] = h]
  /\ UNCHANGED <<live, raced>>

(***************************************************************************)
(* The destructor: from here on nobody else can use the handle.  A client  *)
(* may destroy it while an operation made with it is blocked or on its way *)
(* out, not while a call has still to duplicate it: that would read the    *)
(* freed struct zs__semaphore.                                             *)
(***************************************************************************)
DoDestroy(t) ==
  /\ \E h \in live :
       /\ \A u \in Threads : via[u] # h
       /\ Destroy(t)
       /\ live' = live \ {h}
  /\ UNCHANGED <<via, raced>>

(***************************************************************************)
(* One stage of the call of t.  With its ++ done a call no longer needs    *)
(* the handle it was made with, and a duplication gives out the new one.   *)
(***************************************************************************)
Step(t) ==
  /\ CallStep(t)
  /\ via' = IF stage'[t] \in {"inc", "incStore"} THEN via ELSE [via EXCEPT ![t] = NoHandle]
  /\ IF t \in Copying /\ stage'[t] = "idle"
       THEN \E h \in Handles \ live : live' = live \cup {h}
       ELSE live' = live
  /\ raced' = (raced \/ Overlap')

Next == \E t \in Threads :
  DoOp(t) \/ DoSet(t) \/ DoCopy(t) \/ DoDestroy(t) \/ Step(t)

(***************************************************************************)
(* The scheduler runs every thread that is in a call.                      *)
(***************************************************************************)
Spec == Init /\ [][Next]_vars /\ \A t \in Threads : WF_vars(Step(t))

(***************************************************************************)
(* Every variable has its type.                                            *)
(***************************************************************************)
TypeOK ==
  /\ SemTypeOK
  /\ live \subseteq Handles /\ via \in [Threads -> Handles \cup {NoHandle}]
  /\ raced \in BOOLEAN

(***************************************************************************)
(* *references is the number of handles: those of the objects and those of *)
(* the calls in progress.  What zs__semaphore_duplicate and                *)
(* zs__semaphore_destroy keep until two threads change it at the same      *)
(* time; that is the only thing that can go wrong.                         *)
(***************************************************************************)
ReferencesCountHandles ==
  raced \/ references = Cardinality(live) + Cardinality(InCall)

(***************************************************************************)
(* A thread blocked in the kernel, or on its way out, and whoever has a    *)
(* handle find the set and the cell, also when the handle the operation    *)
(* was made with is destroyed meanwhile, and when it was the last: the     *)
(* operation's duplicate keeps them.                                       *)
(***************************************************************************)
NotRemovedInUse == raced \/ ((live \cup InCall) # {} => ~removed /\ ~freed)

(***************************************************************************)
(* The last zs__semaphore_destroy removes the set: no kernel semaphore set *)
(* outlives the handles, and the process never frees the cell twice.       *)
(***************************************************************************)
LastDestroyRemoves == raced \/
  /\ live = {} /\ (\A t \in Threads : Idle(t)) => removed /\ freed
  /\ ~crashed
=============================================================================
