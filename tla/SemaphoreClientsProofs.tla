----------------------- MODULE SemaphoreClientsProofs ------------------------
(***************************************************************************)
(* What is proved of SemaphoreClients for every set of threads and of      *)
(* handles, every set of calls, any ShortMax and RefMod, and ++ and --     *)
(* interruptible or not.                                                   *)
(***************************************************************************)
EXTENDS SemaphoreClients, SemaphoreProofs, FiniteSetTheorems

(***************************************************************************)
(* The stage of a call tells its kind, and that the handle it was made     *)
(* with is still there as long as it has not counted the duplicate.        *)
(***************************************************************************)
CallsMade == \A t \in Threads :
  /\ stage[t] \in {"inc", "incStore"} => call[t].kind # "destroy" /\ via[t] \in live
  /\ stage[t] = "kernel" => call[t].kind = "op" /\ ~Refused(call[t])
  /\ stage[t] \in {"dec", "decStore", "test"} => call[t].kind # "duplicate"

(* The set and the cell are needed: by a handle, or by a call's end. *)
Used == live # {} \/ \E t \in Threads : stage[t] \in {"kernel", "dec", "decStore", "test"}

(***************************************************************************)
(* As long as no two threads change *references at the same time, the one  *)
(* that does has its value in a register, the value is the number of the   *)
(* handles, and the set and the cell are there exactly while they are      *)
(* needed.                                                                 *)
(***************************************************************************)
Counted ==
  /\ references = Cardinality(live) + Cardinality(InCall)
  /\ \A t \in Threads : Changing(t) => Smp /\ loaded[t] = references
  /\ removed = freed
  /\ freed <=> ~Used
  /\ ~crashed

Inv == TypeOK /\ CallsMade /\ (raced \/ (~Overlap /\ Counted))

-----------------------------------------------------------------------------
LEMMA InvInit == Init => Inv
<1> SUFFICES ASSUME Init PROVE Inv
  OBVIOUS
<1>1. PICK h \in Handles : live = {h}
  BY DEF Init
<1>2. live = {h} /\ InCall = {}
  BY <1>1 DEF Init, SemInit, InCall
<1>3. Cardinality(live) = 1 /\ Cardinality(InCall) = 0
  BY <1>2, FS_Singleton, FS_EmptySet
<1>4. [kind |-> "op", id |-> 0, value |-> 0, timed |-> FALSE] \in Calls
  BY DEF Calls
<1>5. TypeOK
  <2>1. val \in [SemIds -> 0 .. ShortMax] /\ result \in [Threads -> {0, -1, -2}]
    BY ClientsAssumption DEF Init, SemInit
  <2>2. references \in 0 .. RefMod - 1 /\ loaded \in [Threads -> 0 .. RefMod - 1]
    BY SemaphoreAssumption DEF Init, SemInit
  <2>3. /\ {removed, freed, crashed} \subseteq BOOLEAN /\ raced \in BOOLEAN
        /\ stage \in [Threads -> Stages] /\ call \in [Threads -> Calls]
    BY <1>4 DEF Init, SemInit, Stages
  <2>4. live \subseteq Handles /\ via \in [Threads -> Handles \cup {NoHandle}]
    BY <1>1 DEF Init
  <2> QED BY <2>1, <2>2, <2>3, <2>4 DEF TypeOK, SemTypeOK
<1>6. CallsMade
  BY DEF Init, SemInit, CallsMade
<1>7. ~Overlap /\ \A u \in Threads : ~Changing(u)
  BY DEF Init, SemInit, Overlap, Changing
<1>8. Used
  BY <1>2 DEF Used
<1>9. references = Cardinality(live) + Cardinality(InCall)
  BY <1>3 DEF Init, SemInit
<1>10. removed = freed /\ ~freed /\ ~crashed
  BY DEF Init, SemInit
<1>11. Counted
  BY <1>7, <1>8, <1>9, <1>10 DEF Counted
<1> QED BY <1>5, <1>6, <1>7, <1>11 DEF Inv

-----------------------------------------------------------------------------
(***************************************************************************)
(* Types.                                                                  *)
(***************************************************************************)
LEMMA TypeStep == TypeOK /\ CallsMade /\ [Next]_vars => TypeOK'
<1> SUFFICES ASSUME TypeOK, CallsMade, [Next]_vars PROVE TypeOK'
  OBVIOUS
<1>0. /\ SemTypeOK /\ raced \in BOOLEAN
      /\ live \subseteq Handles /\ via \in [Threads -> Handles \cup {NoHandle}]
  BY DEF TypeOK
<1>1. ASSUME NEW t \in Threads, DoOp(t) PROVE TypeOK'
  <2>1. PICK a \in OpArgs : Op(t, a[1], a[2], a[3])
    BY <1>1 DEF DoOp
  <2>2. a[1] \in Nat /\ a[2] \in Int /\ a[3] \in BOOLEAN
    BY ClientsAssumption
  <2> QED BY <1>0, <1>1, <2>1, <2>2, OpType DEF DoOp, TypeOK
<1>2. ASSUME NEW t \in Threads, DoSet(t) PROVE TypeOK'
  <2>1. PICK a \in SetArgs : Set(t, a[1], a[2])
    BY <1>2 DEF DoSet
  <2>2. val' \in [SemIds -> 0 .. ShortMax]
    BY <1>0, <2>1 DEF Set, SemTypeOK
  <2> QED BY <1>0, <1>2, <2>1, <2>2 DEF DoSet, Set, TypeOK, SemTypeOK
<1>3. ASSUME NEW t \in Threads, DoCopy(t) PROVE TypeOK'
  <2>1. Begin(t, "duplicate", 0, 0, FALSE, "inc")
    BY <1>3 DEF DoCopy, Duplicate
  <2>a. "inc" \in Stages /\ 0 \in Nat /\ 0 \in Int /\ FALSE \in BOOLEAN
    BY DEF Stages
  <2>2. SemTypeOK'
    BY <1>0, <2>1, <2>a, BeginType
  <2> QED BY <1>0, <1>3, <2>2 DEF DoCopy, TypeOK
<1>4. ASSUME NEW t \in Threads, DoDestroy(t) PROVE TypeOK'
  BY <1>0, <1>4, DestroyType DEF DoDestroy, TypeOK
<1>5. ASSUME NEW t \in Threads, Step(t) PROVE TypeOK'
  <2>1. stage[t] = "kernel" => call[t].id \in SemIds
    <3> SUFFICES ASSUME stage[t] = "kernel" PROVE call[t].id \in SemIds
      OBVIOUS
    <3>1. call[t].id \in Nat /\ ~(call[t].id >= Count)
      BY <1>0 DEF SemTypeOK, Calls, CallsMade, Refused
    <3> QED BY <3>1, SemaphoreAssumption DEF SemIds
  <2>2. SemTypeOK'
    BY <1>0, <1>5, <2>1, CallStepType DEF Step
  <2>3. live' \subseteq Handles /\ via' \in [Threads -> Handles \cup {NoHandle}]
    BY <1>0, <1>5 DEF Step
  <2>4. raced' \in BOOLEAN
    BY <1>0, <1>5 DEF Step, Overlap
  <2> QED BY <2>2, <2>3, <2>4 DEF TypeOK
<1>6. CASE UNCHANGED vars
  BY <1>0, <1>6 DEF vars, semVars, TypeOK, SemTypeOK
<1> QED BY <1>1, <1>2, <1>3, <1>4, <1>5, <1>6 DEF Next

-----------------------------------------------------------------------------
(***************************************************************************)
(* What a stage of a call does: it goes in, counting its handle, it goes   *)
(* on, it counts itself out, or it meets the freed cell.                   *)
(***************************************************************************)
GoesTo(t, s) == stage[t] \in Stages /\ stage' = [stage EXCEPT ![t] = s] /\ call' = call

Enters(t) == \E base \in {references, loaded[t]} :
  /\ \/ stage[t] = "inc" /\ ~Smp /\ base = references
     \/ stage[t] = "incStore" /\ base = loaded[t]
  /\ GoesTo(t, AfterIncrement(call[t]))
  /\ references' = (base + 1) % RefMod
  /\ UNCHANGED <<removed, freed, crashed, loaded>>

GoesOn(t) ==
  /\ \/ Smp /\ stage[t] = "inc" /\ GoesTo(t, "incStore") /\ loaded'[t] = references
     \/ Smp /\ stage[t] = "dec" /\ GoesTo(t, "decStore") /\ loaded'[t] = references
     \/ stage[t] = "kernel" /\ GoesTo(t, "dec") /\ loaded' = loaded
  /\ \A u \in Threads : u # t => loaded'[u] = loaded[u]
  /\ UNCHANGED <<references, removed, freed, crashed>>

Stores(t) ==
  /\ stage[t] = "decStore" /\ GoesTo(t, "test")
  /\ references' = Less(loaded[t]) /\ loaded'[t] = Less(loaded[t])
  /\ UNCHANGED <<removed, freed, crashed>>

Leaves(t, left) ==
  /\ GoesTo(t, "idle")
  /\ removed' = (removed \/ left = 0) /\ freed' = (freed \/ left = 0)
  /\ crashed' = (freed /\ left = 0)
  /\ loaded' = loaded

LeavesAtOnce(t) ==
  stage[t] = "dec" /\ ~Smp /\ references' = Less(references) /\ Leaves(t, Less(references))

LeavesAfterTest(t) ==
  /\ stage[t] = "test" /\ references' = references
  /\ \E seen \in {references, loaded[t]} : Leaves(t, seen)

Faults(t) == freed /\ stage[t] \notin {"idle", "kernel"} /\ GoesTo(t, stage[t])

LEMMA StageEffect ==
  ASSUME TypeOK, NEW t \in Threads, CallStep(t)
  PROVE  \/ Enters(t) \/ GoesOn(t) \/ Stores(t) \/ LeavesAtOnce(t) \/ LeavesAfterTest(t)
         \/ Faults(t)
<1>0. stage[t] \in Stages /\ loaded \in [Threads -> 0 .. RefMod - 1] /\ stage \in [Threads -> Stages]
  BY DEF TypeOK, SemTypeOK
<1>1. CASE Increment(t)
  <2>1. ASSUME NEW base \in {references, loaded[t]}, IncrementFrom(t, base),
               \/ stage[t] = "inc" /\ ~Smp /\ base = references
               \/ stage[t] = "incStore" /\ base = loaded[t]
        PROVE  Enters(t)
    BY <1>0, <2>1 DEF IncrementFrom, Enters, GoesTo
  <2>2. CASE Load(t, "inc", "incStore")
    BY <1>0, <2>2 DEF Load, GoesOn, GoesTo
  <2> QED BY <1>1, <2>1, <2>2 DEF Increment
<1>2. CASE SemTimedOp(t)
  BY <1>0, <1>2 DEF SemTimedOp, GoesOn, GoesTo
<1>3. CASE Decrement(t)
  <2>1. CASE Load(t, "dec", "decStore")
    BY <1>0, <2>1 DEF Load, GoesOn, GoesTo
  <2>2. CASE /\ ~Smp /\ stage[t] = "dec"
             /\ references' = Less(references)
             /\ EndDestroy(t, Less(references))
    BY <1>0, <2>2 DEF EndDestroy, LeavesAtOnce, Leaves, GoesTo
  <2>3. CASE /\ stage[t] = "decStore"
             /\ references' = Less(loaded[t])
             /\ loaded' = [loaded EXCEPT ![t] = Less(@)]
             /\ stage' = [stage EXCEPT ![t] = "test"]
             /\ UNCHANGED <<val, removed, freed, call, result, crashed>>
    BY <1>0, <2>3 DEF Stores, GoesTo
  <2>4. CASE /\ stage[t] = "test"
             /\ \E seen \in {references, loaded[t]} : EndDestroy(t, seen)
             /\ UNCHANGED references
    BY <1>0, <2>4 DEF EndDestroy, LeavesAfterTest, Leaves, GoesTo
  <2> QED BY <1>3, <2>1, <2>2, <2>3, <2>4 DEF Decrement
<1>4. CASE Fault(t)
  BY <1>0, <1>4 DEF Fault, Faults, TouchesCell, GoesTo
<1> QED BY <1>1, <1>2, <1>3, <1>4 DEF CallStep

(***************************************************************************)
(* The numbers of handles and calls, and what one more or one less makes   *)
(* of them; the sum stays below RefMod.                                    *)
(***************************************************************************)
LEMMA Finite ==
  ASSUME TypeOK
  PROVE  /\ IsFiniteSet(live) /\ Cardinality(live) \in Nat
         /\ Cardinality(live) <= Cardinality(Handles)
         /\ IsFiniteSet(InCall) /\ Cardinality(InCall) \in Nat
         /\ Cardinality(InCall) <= Cardinality(Threads)
         /\ Cardinality(Handles) \in Nat /\ Cardinality(Threads) \in Nat
<1>1. live \in SUBSET Handles /\ InCall \in SUBSET Threads
  BY DEF TypeOK, InCall
<1> QED BY <1>1, ClientsAssumption, FS_Subset, FS_CardinalityType

LEMMA OneMoreCall ==
  ASSUME TypeOK, NEW t \in Threads, t \notin InCall
  PROVE  /\ Cardinality(InCall \cup {t}) = Cardinality(InCall) + 1
         /\ Cardinality(live) + Cardinality(InCall) + 1 < RefMod
<1>1. /\ IsFiniteSet(InCall \cup {t}) /\ Cardinality(InCall \cup {t}) = Cardinality(InCall) + 1
  BY Finite, FS_AddElement
<1>2. InCall \cup {t} \in SUBSET Threads
  BY DEF InCall
<1>3. Cardinality(InCall \cup {t}) <= Cardinality(Threads)
  BY <1>2, ClientsAssumption, FS_Subset
<1> QED BY <1>1, <1>3, Finite, ClientsAssumption, SemaphoreAssumption

LEMMA OneMoreHandle ==
  ASSUME TypeOK, NEW h \in Handles \ live
  PROVE  /\ Cardinality(live \cup {h}) = Cardinality(live) + 1
         /\ Cardinality(live) + Cardinality(InCall) + 1 < RefMod
<1>1. /\ IsFiniteSet(live \cup {h}) /\ Cardinality(live \cup {h}) = Cardinality(live) + 1
  BY Finite, FS_AddElement
<1>2. live \cup {h} \in SUBSET Handles
  BY DEF TypeOK
<1>3. Cardinality(live \cup {h}) <= Cardinality(Handles)
  BY <1>2, ClientsAssumption, FS_Subset
<1> QED BY <1>1, <1>3, Finite, ClientsAssumption, SemaphoreAssumption

LEMMA OneCallLess ==
  ASSUME TypeOK, NEW t \in InCall
  PROVE  Cardinality(InCall \ {t}) = Cardinality(InCall) - 1 /\ Cardinality(InCall) >= 1
<1>1. /\ IsFiniteSet(InCall \ {t}) /\ Cardinality(InCall \ {t}) = Cardinality(InCall) - 1
  BY Finite, FS_RemoveElement
<1>2. Cardinality(InCall \ {t}) \in Nat
  BY <1>1, FS_CardinalityType
<1> QED BY <1>1, <1>2, Finite

LEMMA NoneLeft ==
  ASSUME NEW L \in SUBSET Handles, NEW C \in SUBSET Threads
  PROVE  Cardinality(L) + Cardinality(C) = 0 <=> L = {} /\ C = {}
<1>1. IsFiniteSet(L) /\ IsFiniteSet(C) /\ Cardinality(L) \in Nat /\ Cardinality(C) \in Nat
  BY ClientsAssumption, FS_Subset, FS_CardinalityType
<1> QED BY <1>1, FS_EmptySet

LEMMA Plain ==
  ASSUME NEW n \in Nat, n < RefMod
  PROVE  n % RefMod = n /\ (n >= 1 => Less(n) = n - 1)
<1>1. RefMod \in Nat \ {0}
  BY SemaphoreAssumption
<1>2. n % RefMod = n
  BY <1>1, SmallMod
<1>3. n >= 1 => (n - 1) % RefMod = n - 1
  BY <1>1, SmallMod
<1> QED BY <1>2, <1>3 DEF Less

-----------------------------------------------------------------------------
(***************************************************************************)
(* The call that begins, and the stages, keep CallsMade, also after a      *)
(* race.                                                                   *)
(***************************************************************************)
Starts(t, kind, first) ==
  /\ stage[t] = "idle" /\ stage' = [stage EXCEPT ![t] = first]
  /\ \A u \in Threads : u # t => call'[u] = call[u]
  /\ call'[t].kind = kind
  /\ UNCHANGED <<removed, references, freed, loaded, crashed, raced>>

Uses(t) == live' = live /\ \E h \in live : via' = [via EXCEPT ![t] = h]
Drops == via' = via /\ \E h \in live : live' = live \ {h} /\ \A u \in Threads : via[u] # h

LEMMA StartsCall ==
  ASSUME TypeOK, NEW t \in Threads, DoOp(t) \/ DoCopy(t) \/ DoDestroy(t)
  PROVE  \/ Uses(t) /\ (Starts(t, "op", "inc") \/ Starts(t, "duplicate", "inc"))
         \/ Starts(t, "destroy", "dec") /\ Drops
<1>0. call \in [Threads -> Calls]
  BY DEF TypeOK, SemTypeOK
<1>1. ASSUME NEW kind, NEW id, NEW value, NEW timed, NEW first, UNCHANGED raced,
             Begin(t, kind, id, value, timed, first)
      PROVE  Starts(t, kind, first)
  BY <1>0, <1>1 DEF Begin, Starts, Idle
<1> QED BY <1>1 DEF DoOp, DoCopy, DoDestroy, Op, Duplicate, Destroy, Uses, Drops

(***************************************************************************)
(* The handles after a stage: a duplication that ends adds one, and a call *)
(* forgets the handle it was made with when it has its own.                *)
(***************************************************************************)
HandlesAfter(t) ==
  /\ IF call[t].kind = "duplicate" /\ stage[t] # "idle" /\ stage'[t] = "idle"
       THEN \E h \in Handles \ live : live' = live \cup {h}
       ELSE live' = live
  /\ \A u \in Threads : u # t \/ stage'[t] \in {"inc", "incStore"} => via'[u] = via[u]

LEMMA StepHandles == ASSUME TypeOK, NEW t \in Threads, Step(t) PROVE HandlesAfter(t)
  BY DEF Step, HandlesAfter, Copying, TypeOK

LEMMA CallsMadeStep == TypeOK /\ CallsMade /\ [Next]_vars => CallsMade'
<1> SUFFICES ASSUME TypeOK, CallsMade, [Next]_vars PROVE CallsMade'
  OBVIOUS
<1>0. /\ stage \in [Threads -> Stages] /\ call \in [Threads -> Calls]
      /\ via \in [Threads -> Handles \cup {NoHandle}]
  BY DEF TypeOK, SemTypeOK
<1>1. ASSUME NEW t \in Threads, DoOp(t) \/ DoCopy(t) \/ DoDestroy(t) PROVE CallsMade'
  <2>1. CASE Uses(t) /\ (Starts(t, "op", "inc") \/ Starts(t, "duplicate", "inc"))
    BY <1>0, <2>1 DEF Starts, CallsMade, Uses, Refused
  <2>2. CASE Starts(t, "destroy", "dec") /\ Drops
    <3>1. \A u \in Threads : via[u] \in live => via'[u] \in live'
      BY <2>2 DEF Drops
    <3> QED BY <1>0, <2>2, <3>1 DEF Starts, CallsMade, Refused
  <2> QED BY <1>1, <2>1, <2>2, StartsCall
<1>2. ASSUME NEW t \in Threads, DoSet(t) PROVE CallsMade'
  BY <1>2 DEF DoSet, Set, CallsMade
<1>3. ASSUME NEW t \in Threads, Step(t) PROVE CallsMade'
  <2>1. \A u \in Threads : via[u] \in live =>
           via'[u] \in live' \/ (u = t /\ stage'[t] \notin {"inc", "incStore"})
    BY <1>3, StepHandles DEF HandlesAfter
  <2>2. CallStep(t)
    BY <1>3 DEF Step
  <2>3. ASSUME NEW s, GoesTo(t, s),
               s \in {"inc", "incStore"} => stage[t] \in {"inc", "incStore"},
               s = "kernel" => call[t].kind = "op" /\ ~Refused(call[t]),
               s \in {"dec", "decStore", "test"} => call[t].kind # "duplicate"
        PROVE  CallsMade'
    BY <1>0, <2>1, <2>3 DEF GoesTo, CallsMade
  <2>4. CASE Enters(t)
    <3>1. call[t].kind \in {"op", "duplicate"}
      BY <1>0, <2>4 DEF Enters, CallsMade, Calls
    <3> QED BY <2>3, <2>4, <3>1 DEF Enters, AfterIncrement
  <2>5. CASE GoesOn(t)
    BY <2>3, <2>5 DEF GoesOn, CallsMade
  <2>6. CASE Stores(t)
    BY <2>3, <2>6 DEF Stores, CallsMade
  <2>7. CASE LeavesAtOnce(t) \/ LeavesAfterTest(t)
    BY <2>3, <2>7 DEF LeavesAtOnce, LeavesAfterTest, Leaves
  <2>8. CASE Faults(t)
    BY <2>3, <2>8 DEF Faults, CallsMade
  <2> QED BY <2>2, <2>4, <2>5, <2>6, <2>7, <2>8, StageEffect
<1>4. CASE UNCHANGED vars
  BY <1>4 DEF vars, semVars, CallsMade
<1> QED BY <1>1, <1>2, <1>3, <1>4 DEF Next

-----------------------------------------------------------------------------
(***************************************************************************)
(* The count.  A stage whose update is not overlapped keeps Counted.       *)
(***************************************************************************)
LEMMA CountedBegin ==
  ASSUME TypeOK, CallsMade, ~Overlap, Counted, NEW t \in Threads,
         DoOp(t) \/ DoCopy(t) \/ DoDestroy(t)
  PROVE  ~Overlap' /\ Counted'
<1>0. stage \in [Threads -> Stages] /\ live \subseteq Handles
  BY DEF TypeOK, SemTypeOK
<1>1. ASSUME NEW kind, NEW first \in {"inc", "dec"}, Starts(t, kind, first)
      PROVE  ~Overlap' /\ \A u \in Threads : Changing(u)' => Smp /\ loaded'[u] = references'
  BY <1>0, <1>1 DEF Starts, Overlap, Changing, Counted
<1>2. CASE Uses(t) /\ (Starts(t, "op", "inc") \/ Starts(t, "duplicate", "inc"))
  <2>1. live' = live /\ InCall' = InCall /\ (Used' <=> Used)
    BY <1>0, <1>2 DEF Starts, Uses, InCall, Used
  <2> QED BY <1>1, <1>2, <2>1 DEF Counted, Starts
<1>3. CASE Starts(t, "destroy", "dec") /\ Drops
  <2>1. PICK h \in live : live' = live \ {h}
    BY <1>3 DEF Drops
  <2>2. live' = live \ {h} /\ h \in live /\ InCall' = InCall \cup {t} /\ t \notin InCall
    BY <1>0, <1>3, <2>1 DEF Starts, InCall
  <2>3. Used /\ Used'
    BY <1>0, <1>3, <2>2 DEF Starts, Used
  <2>4. Cardinality(live') = Cardinality(live) - 1
    BY <2>2, Finite, FS_RemoveElement
  <2>5. Cardinality(InCall') = Cardinality(InCall) + 1
    BY <2>2, OneMoreCall
  <2>6. references' = Cardinality(live') + Cardinality(InCall')
    BY <1>3, <2>4, <2>5, Finite DEF Starts, Counted
  <2> QED BY <1>1, <1>3, <2>3, <2>6 DEF Counted, Starts
<1> QED BY <1>2, <1>3, StartsCall

LEMMA CountedStage ==
  ASSUME TypeOK, CallsMade, ~Overlap, Counted, NEW t \in Threads, Step(t), ~raced'
  PROVE  ~Overlap' /\ Counted'
<1>0. /\ stage \in [Threads -> Stages] /\ call[t] \in Calls /\ references \in Nat
      /\ live \subseteq Handles
      /\ removed \in BOOLEAN /\ freed \in BOOLEAN
  BY SemaphoreAssumption DEF TypeOK, SemTypeOK
<1>1. ~Overlap' /\ CallStep(t) /\ HandlesAfter(t)
  BY StepHandles DEF Step
<1>2. /\ references = Cardinality(live) + Cardinality(InCall)
      /\ \A u \in Threads : Changing(u) => Smp /\ loaded[u] = references
      /\ removed = freed /\ (freed <=> ~Used) /\ ~crashed
  BY DEF Counted
<1>3. \A u \in Threads : Changing(t) /\ Changing(u) => u = t
  BY DEF Overlap
<1>a. live \in SUBSET Handles /\ InCall \in SUBSET Threads /\ InCall \ {t} \in SUBSET Threads
  BY <1>0 DEF InCall
<1>4. ASSUME NEW s, GoesTo(t, s), call[t].kind # "duplicate" \/ s # "idle" \/ stage[t] = "idle"
      PROVE  live' = live
  BY <1>0, <1>1, <1>4 DEF HandlesAfter, GoesTo
<1>5. CASE Enters(t)
  <2>1. stage[t] \in {"inc", "incStore"} /\ references' = (references + 1) % RefMod
        /\ GoesTo(t, AfterIncrement(call[t])) /\ UNCHANGED <<removed, freed, crashed, loaded>>
    BY <1>2, <1>5 DEF Enters, Changing
  <2>2. \A u \in Threads : u # t => ~Changing(u)
    BY <1>2, <1>3, <1>5 DEF Enters, Changing
  <2>3. live # {} /\ Used /\ ~freed
    BY <1>2, <2>1 DEF CallsMade, Used
  <2>4. \A u \in Threads : ~Changing(u)'
    BY <1>0, <2>1, <2>2 DEF Changing, GoesTo, AfterIncrement
  <2>5. t \notin InCall
    BY <2>1 DEF InCall
  <2>6. CASE call[t].kind = "duplicate"
    <3>1. AfterIncrement(call[t]) = "idle"
      BY <2>6 DEF AfterIncrement
    <3>2. PICK h \in Handles \ live : live' = live \cup {h}
      BY <1>0, <1>1, <2>1, <2>6, <3>1 DEF HandlesAfter, GoesTo
    <3>3. live' = live \cup {h} /\ InCall' = InCall
      BY <1>0, <2>1, <3>1, <3>2 DEF InCall, GoesTo
    <3>4. Cardinality(live') = Cardinality(live) + 1 /\ references + 1 < RefMod
      BY <1>2, <3>2, <3>3, OneMoreHandle
    <3>5. references' = Cardinality(live') + Cardinality(InCall')
      BY <1>0, <1>2, <2>1, <3>3, <3>4, Finite, Plain
    <3>6. Used'
      BY <3>3 DEF Used
    <3> QED BY <1>1, <1>2, <2>1, <2>3, <2>4, <3>5, <3>6 DEF Counted
  <2>7. CASE call[t].kind # "duplicate"
    <3>1. AfterIncrement(call[t]) \in {"kernel", "dec"}
      BY <2>7 DEF AfterIncrement
    <3>2. live' = live
      BY <1>4, <2>1, <2>7
    <3>3. InCall' = InCall \cup {t}
      BY <1>0, <2>1, <3>1 DEF InCall, GoesTo
    <3>4. Cardinality(InCall') = Cardinality(InCall) + 1 /\ references + 1 < RefMod
      BY <1>2, <2>5, <3>3, OneMoreCall
    <3>5. references' = Cardinality(live') + Cardinality(InCall')
      BY <1>0, <1>2, <2>1, <3>2, <3>4, Finite, Plain
    <3>6. Used'
      BY <2>3, <3>2 DEF Used
    <3> QED BY <1>1, <1>2, <2>1, <2>3, <2>4, <3>5, <3>6 DEF Counted
  <2> QED BY <2>6, <2>7
<1>6. CASE GoesOn(t)
  <2>1. PICK s \in {"incStore", "decStore", "dec"} : GoesTo(t, s)
    BY <1>6 DEF GoesOn
  <2>2. live' = live /\ InCall' = InCall /\ (Used' <=> Used)
    <3>1. live' = live
      BY <1>4, <2>1
    <3>2. s \in {"dec", "decStore"} <=> stage[t] \in {"kernel", "dec"}
      BY <1>0, <1>6, <2>1 DEF GoesOn, GoesTo
    <3> QED BY <1>0, <1>6, <2>1, <3>1, <3>2 DEF GoesOn, GoesTo, InCall, Used
  <2>3. \A u \in Threads : Changing(u)' => Smp /\ loaded'[u] = references'
    <3> SUFFICES ASSUME NEW u \in Threads, Changing(u)' PROVE Smp /\ loaded'[u] = references'
      OBVIOUS
    <3>1. CASE u = t
      BY <1>0, <1>6, <3>1 DEF GoesOn, GoesTo, Changing
    <3>2. CASE u # t
      BY <1>0, <1>2, <1>6, <2>1, <3>2 DEF GoesOn, GoesTo, Changing
    <3> QED BY <3>1, <3>2
  <2> QED BY <1>1, <1>2, <1>6, <2>2, <2>3 DEF Counted, GoesOn
<1>7. CASE Stores(t)
  <2>1. Changing(t) /\ t \in InCall /\ Used /\ ~freed
    BY <1>2, <1>7 DEF Stores, Changing, InCall, Used
  <2>2. live' = live /\ InCall' = InCall \ {t} /\ Used'
    BY <1>0, <1>4, <1>7 DEF Stores, GoesTo, InCall, Used
  <2>3. references' = Less(references) /\ loaded'[t] = references'
    BY <1>2, <1>7, <2>1 DEF Stores
  <2>4. references' = Cardinality(live') + Cardinality(InCall')
    <3>1. Cardinality(InCall') = Cardinality(InCall) - 1 /\ Cardinality(InCall) >= 1
      BY <2>1, <2>2, OneCallLess
    <3>2. references < RefMod
      BY SemaphoreAssumption DEF TypeOK, SemTypeOK
    <3> QED BY <1>0, <1>2, <2>2, <2>3, <3>1, <3>2, Finite, Plain
  <2>5. \A u \in Threads : Changing(u)' => Smp /\ loaded'[u] = references'
    BY <1>0, <1>2, <1>3, <1>7, <2>1, <2>3 DEF Stores, GoesTo, Changing
  <2> QED BY <1>1, <1>2, <1>7, <2>1, <2>2, <2>4, <2>5 DEF Counted, Stores
<1>8. CASE LeavesAtOnce(t)
  <2>1. t \in InCall /\ Used /\ ~freed /\ \A u \in Threads : ~Changing(u)
    BY <1>2, <1>8 DEF LeavesAtOnce, InCall, Used
  <2>2. call[t].kind # "duplicate"
    BY <1>8 DEF LeavesAtOnce, CallsMade
  <2>3. live' = live /\ InCall' = InCall \ {t} /\ \A u \in Threads : ~Changing(u)'
    BY <1>0, <1>4, <1>8, <2>1, <2>2 DEF LeavesAtOnce, Leaves, GoesTo, InCall, Changing
  <2>4. references' = Cardinality(live') + Cardinality(InCall')
    <3>1. Cardinality(InCall') = Cardinality(InCall) - 1 /\ Cardinality(InCall) >= 1
      BY <2>1, <2>3, OneCallLess
    <3>2. references < RefMod
      BY SemaphoreAssumption DEF TypeOK, SemTypeOK
    <3> QED BY <1>0, <1>2, <1>8, <2>3, <3>1, <3>2, Finite, Plain DEF LeavesAtOnce
  <2>5. Used' <=> references' # 0
    <3>1. references' = 0 <=> live' = {} /\ InCall' = {}
      BY <1>a, <2>3, <2>4, NoneLeft
    <3> QED BY <2>3, <3>1 DEF Used, InCall, Changing
  <2>6. removed' = freed' /\ (freed' <=> references' = 0) /\ ~crashed'
    BY <1>2, <1>8, <2>1 DEF LeavesAtOnce, Leaves
  <2> QED BY <1>1, <2>3, <2>4, <2>5, <2>6 DEF Counted
<1>9. CASE LeavesAfterTest(t)
  <2>1. Changing(t) /\ t \notin InCall /\ Used /\ ~freed
    BY <1>2, <1>9 DEF LeavesAfterTest, InCall, Used, Changing
  <2>2. call[t].kind # "duplicate"
    BY <1>9 DEF LeavesAfterTest, CallsMade
  <2>3. Leaves(t, references) /\ references' = references
    BY <1>2, <1>9, <2>1 DEF LeavesAfterTest
  <2>4. live' = live /\ InCall' = InCall
    BY <1>0, <1>4, <2>1, <2>2, <2>3, <1>9 DEF LeavesAfterTest, Leaves, GoesTo, InCall
  <2>5. \A u \in Threads : ~Changing(u)'
    BY <1>0, <1>3, <2>1, <2>3 DEF Leaves, GoesTo, Changing
  <2>6. Used' <=> references # 0
    <3>1. references = 0 <=> live' = {} /\ InCall' = {}
      BY <1>2, <1>a, <2>4, NoneLeft
    <3> QED BY <2>5, <3>1 DEF Used, InCall, Changing
  <2>7. removed' = freed' /\ (freed' <=> references = 0) /\ ~crashed'
    BY <1>2, <2>1, <2>3 DEF Leaves
  <2>8. references' = Cardinality(live') + Cardinality(InCall')
    BY <1>2, <2>3, <2>4
  <2> QED BY <1>1, <2>5, <2>6, <2>7, <2>8 DEF Counted
<1>10. CASE Faults(t)
  <2>1. Used
    BY <1>0, <1>10 DEF Faults, CallsMade, Used, Stages
  <2> QED BY <1>2, <1>10, <2>1 DEF Faults
<1> QED BY <1>1, <1>5, <1>6, <1>7, <1>8, <1>9, <1>10, StageEffect

LEMMA InvStep == Inv /\ [Next]_vars => Inv'
<1> SUFFICES ASSUME Inv, [Next]_vars PROVE Inv'
  OBVIOUS
<1>1. TypeOK /\ CallsMade /\ TypeOK' /\ CallsMade'
  BY TypeStep, CallsMadeStep DEF Inv
<1>2. ASSUME NEW t \in Threads, DoOp(t) \/ DoCopy(t) \/ DoDestroy(t)
      PROVE  raced' \/ (~Overlap' /\ Counted')
  BY <1>1, <1>2, CountedBegin DEF Inv, DoOp, DoCopy, DoDestroy
<1>3. ASSUME NEW t \in Threads, DoSet(t) PROVE raced' \/ (~Overlap' /\ Counted')
  BY <1>3 DEF Inv, DoSet, Set, Overlap, Changing, Counted, Used, InCall
<1>4. ASSUME NEW t \in Threads, Step(t) PROVE raced' \/ (~Overlap' /\ Counted')
  <2>1. raced => raced'
    BY <1>4 DEF Step
  <2> QED BY <1>1, <1>4, <2>1, CountedStage DEF Inv
<1>5. ASSUME UNCHANGED vars PROVE raced' \/ (~Overlap' /\ Counted')
  <2>1. /\ UNCHANGED <<stage, live, references, loaded, removed, freed, crashed, raced>>
    BY <1>5 DEF vars, semVars
  <2>2. live' = live /\ InCall' = InCall /\ (Used' <=> Used) /\ (Overlap' <=> Overlap)
    BY <2>1 DEF InCall, Used, Overlap, Changing
  <2> QED BY <2>1, <2>2 DEF Inv, Counted, Changing
<1>6. raced' \/ (~Overlap' /\ Counted')
  <2>1. CASE UNCHANGED vars
    BY <1>5, <2>1
  <2>2. CASE Next
    <3>1. PICK t \in Threads : DoOp(t) \/ DoSet(t) \/ DoCopy(t) \/ DoDestroy(t) \/ Step(t)
      BY <2>2 DEF Next
    <3> QED BY <1>2, <1>3, <1>4, <3>1
  <2> QED BY <2>1, <2>2
<1> QED BY <1>1, <1>6 DEF Inv

-----------------------------------------------------------------------------
(***************************************************************************)
(* Every variable has its type, before and after a race.                   *)
(***************************************************************************)
THEOREM TypeCorrect == Spec => []TypeOK
<1>1. Inv => TypeOK
  BY DEF Inv
<1> QED BY <1>1, InvInit, InvStep, PTL DEF Spec

(***************************************************************************)
(* *references counts the handles as long as no two updates overlap.       *)
(***************************************************************************)
THEOREM CountIsExact == Spec => []ReferencesCountHandles
<1>1. Inv => ReferencesCountHandles
  BY DEF Inv, Counted, ReferencesCountHandles
<1> QED BY <1>1, InvInit, InvStep, PTL DEF Spec

(***************************************************************************)
(* Nobody who has a handle or is in a call finds the set removed.          *)
(***************************************************************************)
THEOREM NeverRemovedInUse == Spec => []NotRemovedInUse
<1>1. Inv => NotRemovedInUse
  BY DEF Inv, Counted, Used, InCall, NotRemovedInUse
<1> QED BY <1>1, InvInit, InvStep, PTL DEF Spec

(***************************************************************************)
(* The last destroy removes the set and frees the cell, once.              *)
(***************************************************************************)
THEOREM RemovedByTheLast == Spec => []LastDestroyRemoves
<1>1. Inv => LastDestroyRemoves
  BY DEF Inv, Counted, Used, Idle, LastDestroyRemoves
<1> QED BY <1>1, InvInit, InvStep, PTL DEF Spec
=============================================================================
