----------------------------- MODULE ThreadProofs -----------------------------
(***************************************************************************)
(* What is proved of ZsThread for any number of threads.                   *)
(***************************************************************************)
EXTENDS ZsThread, ThreadMapProofs

-----------------------------------------------------------------------------
(***************************************************************************)
(* Clients that call what they like.  The count is the number of threads   *)
(* that were created and have not counted themselves down; no thread is    *)
(* left when the last one has signalled the end to zs__execute.            *)
(***************************************************************************)
Live == {t \in Threads : parent[t] # Nobody /\ pc[t] \notin {"signal", "free", "done"}}

(* A creator that is in zs__thread_create has a thread that does not run. *)
Creating(a) == pc[a] \in {"create", "spawn"} =>
  target[a] \in Threads /\ parent[target[a]] = a /\ pc[target[a]] = "none"

(* One that waits for a thread has it. *)
Waits(a) == pc[a] \in {"waitLock", "waitCv", "sleep", "woken"} => target[a] \in Threads

Counted ==
  /\ running = Cardinality(Live)
  /\ \A t \in Threads : pc[t] # "none" => parent[t] # Nobody
  /\ \A a \in Actors : Creating(a)
  /\ \A a \in Threads : Waits(a)
  /\ pc[Master] \in {"run", "create", "spawn", "await", "sleep", "woken", "endless"}
  /\ pc[Master] = "woken" => Live = {}

Inv == TypeOK /\ Counted

LEMMA Facts ==
  /\ Main \in Threads /\ Master \notin Threads /\ Nobody \notin Actors
  /\ Threads \subseteq Actors /\ Master \in Actors /\ Actors = Threads \cup {Master}
  /\ IsFiniteSet(Threads) /\ Null \notin Threads /\ Null \notin Blocks
  BY ThreadAssumption, MapAssumption DEF Actors

(* What is counted is finite. *)
LEMMA LiveCounted == /\ IsFiniteSet(Live) /\ Cardinality(Live) \in 0 .. Cardinality(Threads)
                     /\ Cardinality(Live) = 0 <=> Live = {}
<1>1. Live \subseteq Threads /\ IsFiniteSet(Threads)
  BY Facts DEF Live
<1>2. IsFiniteSet(Live) /\ Cardinality(Live) <= Cardinality(Threads)
  BY <1>1, FS_Subset
<1>3. Cardinality(Live) \in Nat /\ Cardinality(Threads) \in Nat
  BY <1>1, <1>2, FS_CardinalityType
<1>4. Cardinality(Live) = 0 <=> Live = {}
  BY <1>2, FS_EmptySet
<1> QED BY <1>2, <1>3, <1>4

LEMMA InvInit == Init => Inv
<1> SUFFICES ASSUME Init PROVE Inv
  OBVIOUS
<1>1. MapTypeOK
  BY DEF Init, MapInit, MapTypeOK
<1>2. TypeOK
  <2>1. /\ pc \in [Actors -> Places] /\ target \in [Actors -> Threads \cup {Nobody}]
        /\ parent \in [Threads -> Actors \cup {Nobody}] /\ mapOwner \in Actors \cup {Nobody}
        /\ waitOwner \in [Threads -> Actors \cup {Nobody}] /\ waiting \in [Threads -> Nat]
        /\ freed \subseteq Threads /\ cancelled \subseteq Threads /\ joined \subseteq Threads
    BY DEF Init, Places
  <2>2. running \in 0 .. Cardinality(Threads)
    BY Facts, FS_CardinalityType DEF Init
  <2>3. resumed \in [Threads -> Nat] /\ \A t \in Threads : resumed[t] <= MaxExecutes[t]
    BY ThreadAssumption DEF Init
  <2>4. {crashed, exited} \subseteq BOOLEAN
    BY DEF Init
  <2> QED BY <1>1, <2>1, <2>2, <2>3, <2>4 DEF TypeOK
<1>3. Counted
  <2>1. Live = {}
    BY DEF Init, Live
  <2>2. running = Cardinality(Live)
    BY <2>1, FS_EmptySet DEF Init
  <2>3. pc[Master] = "run" /\ \A t \in Threads : pc[t] = "none"
    BY Facts DEF Init
  <2>4. \A a \in Actors : Creating(a)
    BY <2>3, Facts DEF Creating
  <2> QED BY <2>1, <2>2, <2>3, <2>4 DEF Counted, Waits
<1> QED BY <1>2, <1>3 DEF Inv

-----------------------------------------------------------------------------
(* A thread goes to another place: nobody begins or counts down.           *)
Gone == {"signal", "free", "done"}

LEMMA MoveStep ==
  ASSUME Inv, UNCHANGED countVars, NEW a \in Actors, NEW place,
         pc' = [pc EXCEPT ![a] = place], pc[a] # "none", place # "none",
         place \in Gone <=> pc[a] \in Gone,
         place \in {"create", "spawn"} => pc[a] \in {"create", "spawn"},
         place \in {"waitLock", "waitCv", "sleep", "woken"} => a = Master \/ target'[a] \in Threads,
         target' = target \/ (place = "waitLock" /\ \A b \in Actors \ {a} : target'[b] = target[b]),
         a = Master => place \in {"run", "spawn", "await", "sleep", "endless"}
  PROVE  Counted'
<1>0. TypeOK /\ Counted
  BY DEF Inv
<1>1. \A b \in Actors : pc'[b] = IF b = a THEN place ELSE pc[b]
  BY <1>0 DEF TypeOK
<1>2. parent' = parent /\ running' = running
  BY DEF countVars
<1>3. Live' = Live
  BY <1>1, <1>2, Facts DEF Live, Gone
<1>4. \A t \in Threads : pc'[t] # "none" => parent'[t] # Nobody
  BY <1>0, <1>1, <1>2, Facts DEF Counted
<1>5. ASSUME NEW b \in Actors PROVE Creating(b)'
  <2> SUFFICES ASSUME pc'[b] \in {"create", "spawn"}
               PROVE  target'[b] \in Threads /\ parent'[target'[b]] = b /\ pc'[target'[b]] = "none"
    BY DEF Creating
  <2>1. pc[b] \in {"create", "spawn"} /\ (b = a => place # "waitLock")
    BY <1>1
  <2>2. target'[b] = target[b]
    BY <2>1
  <2>3. target[b] \in Threads /\ parent[target[b]] = b /\ pc[target[b]] = "none"
    BY <1>0, <2>1 DEF Counted, Creating
  <2> QED BY <1>1, <1>2, <2>3, <2>2, Facts
<1>6. ASSUME NEW b \in Threads PROVE Waits(b)'
  <2>1. CASE b = a
    BY <1>1, <2>1, Facts DEF Waits
  <2>2. CASE b # a
    BY <1>0, <1>1, <2>2, Facts DEF Waits, Counted
  <2> QED BY <2>1, <2>2
<1>7. /\ pc'[Master] \in {"run", "create", "spawn", "await", "sleep", "woken", "endless"}
      /\ pc'[Master] = "woken" => pc[Master] = "woken"
  BY <1>0, <1>1, Facts DEF Counted
<1> QED BY <1>0, <1>2, <1>3, <1>4, <1>5, <1>7, <1>6 DEF Counted

LEMMA StayStep == ASSUME Inv, UNCHANGED <<countVars, pc, target>> PROVE Counted'
  BY DEF Inv, Counted, Live, Creating, Waits, countVars

-----------------------------------------------------------------------------
(***************************************************************************)
(* zs__thread_create.                                                      *)
(***************************************************************************)
LEMMA BeginStep == ASSUME Inv, NEW a \in Actors, NEW t \in Threads, BeginCreate(a, t) PROVE Inv'
<1>0. TypeOK /\ Counted
  BY DEF Inv
<1>1. /\ pc[a] = "run" /\ parent[t] = Nobody /\ running' = running + 1
      /\ parent' = [parent EXCEPT ![t] = a] /\ target' = [target EXCEPT ![a] = t]
      /\ pc' = [pc EXCEPT ![a] = "create"]
      /\ UNCHANGED <<mapVars, mapOwner, waitVars, lifeVars, endVars>>
  BY DEF BeginCreate, At, Goto
<1>2. /\ \A b \in Actors : pc'[b] = IF b = a THEN "create" ELSE pc[b]
      /\ \A b \in Actors : target'[b] = IF b = a THEN t ELSE target[b]
      /\ \A u \in Threads : parent'[u] = IF u = t THEN a ELSE parent[u]
  BY <1>0, <1>1 DEF TypeOK
<1>3. pc[t] = "none" /\ t # a /\ t \notin Live /\ a # Nobody
  BY <1>0, <1>1, Facts DEF Counted, Live
<1>4. Live' = Live \cup {t}
  BY <1>1, <1>2, <1>3, Facts DEF Live
<1>5. running' = Cardinality(Live)' /\ running' \in 0 .. Cardinality(Threads)
  <2>1. Cardinality(Live \cup {t}) = Cardinality(Live) + 1
    BY <1>3, LiveCounted, FS_AddElement
  <2>2. Live \cup {t} \subseteq Threads
    BY DEF Live
  <2>3. Cardinality(Live \cup {t}) <= Cardinality(Threads) /\ Cardinality(Threads) \in Nat
    BY <2>2, Facts, FS_Subset, FS_CardinalityType
  <2>4. Cardinality(Live)' = Cardinality(Live) + 1
    BY <1>4, <2>1
  <2> QED BY <1>0, <1>1, <2>1, <2>3, <2>4, LiveCounted DEF Counted
<1>6. TypeOK'
  <2>1. /\ pc' \in [Actors -> Places] /\ target' \in [Actors -> Threads \cup {Nobody}]
        /\ parent' \in [Threads -> Actors \cup {Nobody}]
    BY <1>0, <1>1 DEF TypeOK, Places
  <2> QED BY <1>0, <1>1, <1>5, <2>1 DEF TypeOK, mapVars, waitVars, lifeVars, endVars, MapTypeOK
<1>7. pc[Master] # "woken"
  <2>1. CASE a = Master
    BY <1>1, <2>1
  <2>2. CASE a # Master
    <3>1. a \in Live
      BY <1>0, <1>1, <2>2, Facts DEF Counted, Live
    <3> QED BY <1>0, <3>1 DEF Counted
  <2> QED BY <2>1, <2>2
<1>8. pc'[Master] \in {"run", "create", "spawn", "await", "sleep", "endless"}
  BY <1>0, <1>2, <1>7, Facts DEF Counted
<1>9. ASSUME NEW b \in Actors PROVE Creating(b)'
  <2>1. CASE b = a
    BY <1>2, <1>3, <2>1, Facts DEF Creating
  <2>2. CASE b # a
    <3> SUFFICES ASSUME pc[b] \in {"create", "spawn"}
                 PROVE  target[b] \in Threads /\ parent'[target[b]] = b /\ pc'[target[b]] = "none"
      BY <1>2, <2>2 DEF Creating
    <3>1. target[b] \in Threads /\ parent[target[b]] = b /\ pc[target[b]] = "none"
      BY <1>0 DEF Counted, Creating
    <3>2. target[b] # t /\ target[b] # a
      BY <1>1, <3>1, Facts
    <3> QED BY <1>2, <3>1, <3>2, Facts
  <2> QED BY <2>1, <2>2
<1>10. \A u \in Threads : pc'[u] # "none" => parent'[u] # Nobody
  BY <1>0, <1>1, <1>2, <1>3, Facts DEF Counted, Live
<1>11. \A b \in Threads : Waits(b)'
  BY <1>0, <1>2, Facts DEF Counted, Waits
<1>12. Counted'
  BY <1>5, <1>8, <1>9, <1>10, <1>11 DEF Counted
<1> QED BY <1>6, <1>12 DEF Inv

LEMMA SpawnStep == ASSUME Inv, NEW a \in Actors, Spawn(a) PROVE Inv'
<1> DEFINE t == target[a]
<1>0. TypeOK /\ Counted
  BY DEF Inv
<1>1. /\ pc[a] = "spawn" /\ handle' = [handle EXCEPT ![t] = t]
      /\ pc' = [pc EXCEPT ![a] = "run", ![t] = "halt"]
      /\ UNCHANGED <<head, next, entryOf, allocated, target, countVars, mapOwner, waitVars,
                     lifeVars, endVars>>
  BY DEF Spawn, At
<1>2. t \in Threads /\ parent[t] = a /\ pc[t] = "none" /\ t # a
  BY <1>0, <1>1 DEF Counted, Creating
<1> HIDE DEF t
<1>3. \A b \in Actors : pc'[b] = IF b = t THEN "halt" ELSE IF b = a THEN "run" ELSE pc[b]
  BY <1>0, <1>1, <1>2 DEF TypeOK
<1>4. TypeOK'
  <2>1. pc' \in [Actors -> Places] /\ handle' \in [Threads -> Threads \cup {Null}]
    BY <1>0, <1>1, <1>2 DEF TypeOK, MapTypeOK, Places
  <2> QED BY <1>0, <1>1, <2>1 DEF TypeOK, countVars, waitVars, lifeVars, endVars, MapTypeOK
<1>5. parent' = parent /\ running' = running /\ target' = target
  BY <1>1 DEF countVars
<1>6. Live' = Live
  <2>1. \A u \in Threads : pc'[u] \in Gone <=> pc[u] \in Gone
    <3>1. pc[a] = "spawn" /\ pc[t] = "none" /\ \A u \in Threads : u \in Actors
      BY <1>1, <1>2, Facts
    <3> QED BY <1>3, <3>1 DEF Gone
  <2>2. Live = {u \in Threads : parent[u] # Nobody /\ pc[u] \notin Gone}
        /\ Live' = {u \in Threads : parent'[u] # Nobody /\ pc'[u] \notin Gone}
    BY DEF Live, Gone
  <2> QED BY <1>5, <2>1, <2>2
<1>7. \A u \in Threads : pc'[u] # "none" => parent'[u] # Nobody
  BY <1>0, <1>1, <1>2, <1>3, <1>5, Facts DEF Counted
<1>8. ASSUME NEW b \in Actors PROVE Creating(b)'
  <2> SUFFICES ASSUME pc'[b] \in {"create", "spawn"}
               PROVE  target[b] \in Threads /\ parent[target[b]] = b /\ pc'[target[b]] = "none"
    BY <1>5 DEF Creating
  <2>1. b # a /\ b # t /\ pc[b] \in {"create", "spawn"}
    BY <1>2, <1>3, Facts
  <2>2. target[b] \in Threads /\ parent[target[b]] = b /\ pc[target[b]] = "none"
    BY <1>0, <2>1 DEF Counted, Creating
  <2>3. target[b] # t /\ target[b] # a
    BY <1>1, <1>2, <2>1, <2>2
  <2> QED BY <1>3, <2>2, <2>3, Facts
<1>9. /\ pc'[Master] \in {"run", "create", "spawn", "await", "sleep", "woken", "endless"}
      /\ pc'[Master] = "woken" => pc[Master] = "woken"
  BY <1>0, <1>2, <1>3, Facts DEF Counted
<1>10. \A b \in Threads : Waits(b)'
  BY <1>0, <1>3, <1>5, Facts DEF Counted, Waits
<1>11. Counted'
  BY <1>0, <1>5, <1>6, <1>7, <1>8, <1>9, <1>10 DEF Counted
<1> QED BY <1>4, <1>11 DEF Inv

LEMMA InsertStep == ASSUME Inv, NEW a \in Actors, InsertThread(a) \/ SpawnFails(a) PROVE Inv'
<1>0. TypeOK /\ Counted
  BY DEF Inv
<1>1. CASE InsertThread(a)
  <2>1. /\ pc[a] = "create" /\ pc' = [pc EXCEPT ![a] = "spawn"]
        /\ waitOwner' = [waitOwner EXCEPT ![target[a]] = a]
        /\ UNCHANGED <<target, countVars, mapOwner, waiting, lifeVars, endVars>>
    BY <1>1 DEF InsertThread, At, Goto
  <2>2. target[a] \in Threads
    BY <1>0, <2>1 DEF Counted, Creating
  <2>3. PICK stale \in {Null} \cup freed : Insert(target[a], stale)
    BY <1>1 DEF InsertThread
  <2>4. MapTypeOK'
    BY <1>0, <2>2, <2>3 DEF Insert, MapTypeOK, TypeOK
  <2>5. pc' \in [Actors -> Places] /\ waitOwner' \in [Threads -> Actors \cup {Nobody}]
    BY <1>0, <2>1 DEF TypeOK, Places
  <2>6. TypeOK'
    BY <1>0, <2>1, <2>4, <2>5 DEF TypeOK, countVars, lifeVars, endVars
  <2>7. Counted'
    BY <2>1, MoveStep DEF Gone
  <2> QED BY <2>6, <2>7 DEF Inv
<1>2. CASE SpawnFails(a)
  <2>1. /\ pc[a] = "spawn" /\ pc' = [pc EXCEPT ![a] = "run"]
        /\ UNCHANGED <<mapVars, target, countVars, mapOwner, waitVars, lifeVars, endVars>>
    BY <1>2 DEF SpawnFails, At, Goto
  <2>2. pc' \in [Actors -> Places]
    BY <1>0, <2>1 DEF TypeOK, Places
  <2>3. TypeOK'
    BY <1>0, <2>1, <2>2 DEF TypeOK, mapVars, MapTypeOK, countVars, waitVars, lifeVars, endVars
  <2>4. Counted'
    BY <2>1, MoveStep DEF Gone
  <2> QED BY <2>3, <2>4 DEF Inv
<1> QED BY <1>1, <1>2

-----------------------------------------------------------------------------
(***************************************************************************)
(* The calls with a handle, and the start and the end of a thread.         *)
(***************************************************************************)
LEMMA FindsThread ==
  ASSUME TypeOK, NEW h, FindEnds(h), Find(h) # Null
  PROVE  Find(h) \in Blocks /\ entryOf[Find(h)] \in Threads /\ handle[entryOf[Find(h)]] = h
<1>1. MapTypeOK
  BY DEF TypeOK
<1>2. Find(h) \in Blocks /\ Names(Find(h), h)
  BY <1>1, Found
<1> QED BY <1>1, <1>2 DEF Names, MapTypeOK

LEMMA CallStep ==
  ASSUME Inv, NEW a \in Actors, NEW h \in Threads,
         Execute(a, h) \/ Available(a, h) \/ Abort(a, h) \/ AbortEnded(a, h) \/ WaitFind(a, h)
  PROVE  Inv'
<1>0. TypeOK /\ Counted
  BY DEF Inv
<1>1. CASE Execute(a, h)
  <2>1. /\ pc[a] = "run" /\ FindEnds(h) /\ resumed[h] < MaxExecutes[h]
        /\ UNCHANGED <<mapVars, target, countVars, mapOwner, waiting, freed, cancelled, joined, endVars>>
        /\ \/ UNCHANGED <<waitOwner, resumed>>
           \/ /\ waitOwner' = [waitOwner EXCEPT ![entryOf[Find(h)]] = Nobody]
              /\ resumed' = [resumed EXCEPT ![h] = @ + 1]
    BY <1>1 DEF Execute, At, Finds, MayExecute
  <2>2. PICK place \in {"run", "await"} :
          pc' = [pc EXCEPT ![a] = place]
    BY <1>1 DEF Execute, Goto
  <2>3. pc' \in [Actors -> Places] /\ waitOwner' \in [Threads -> Actors \cup {Nobody}]
    BY <1>0, <2>1, <2>2 DEF TypeOK, Places
  <2>4. resumed' \in [Threads -> Nat] /\ \A t \in Threads : resumed'[t] <= MaxExecutes[t]
    BY <1>0, <2>1, ThreadAssumption DEF TypeOK
  <2>5. TypeOK'
    BY <1>0, <2>1, <2>3, <2>4 DEF TypeOK, mapVars, MapTypeOK, countVars, endVars
  <2>6. Counted'
    BY <2>1, <2>2, MoveStep DEF Gone
  <2> QED BY <2>5, <2>6 DEF Inv
<1>2. CASE Available(a, h) \/ Abort(a, h) \/ AbortEnded(a, h)
  <2>1. /\ UNCHANGED <<mapVars, pc, target, countVars, mapOwner, waitVars, freed, resumed>>
        /\ joined' \subseteq joined \cup {h} /\ cancelled' \subseteq cancelled \cup {h}
        /\ {crashed', exited'} \subseteq {crashed, exited, TRUE}
    BY <1>2 DEF Available, Abort, AbortEnded, Sees, endVars, lifeVars
  <2>2. joined' \subseteq Threads /\ cancelled' \subseteq Threads /\ {crashed', exited'} \subseteq BOOLEAN
    BY <1>0, <2>1 DEF TypeOK
  <2>3. TypeOK'
    BY <1>0, <2>1, <2>2 DEF TypeOK, mapVars, MapTypeOK, countVars, waitVars
  <2> QED BY <2>1, <2>3, StayStep DEF Inv
<1>3. CASE WaitFind(a, h)
  <2>1. /\ pc[a] = "run" /\ a # Master /\ FindEnds(h)
        /\ UNCHANGED <<mapVars, countVars, waitVars, freed, cancelled, resumed, endVars>>
        /\ \/ Sees(a, h) /\ UNCHANGED <<pc, target, mapOwner>>
           \/ /\ Find(h) # Null /\ mapOwner' = a
              /\ target' = [target EXCEPT ![a] = entryOf[Find(h)]]
              /\ pc' = [pc EXCEPT ![a] = "waitLock"] /\ joined' = joined
    BY <1>3 DEF WaitFind, At, Finds, Goto
  <2>2. CASE Sees(a, h) /\ UNCHANGED <<pc, target, mapOwner>>
    <3>1. joined' \subseteq Threads
      BY <1>0, <2>2 DEF Sees, TypeOK
    <3>2. TypeOK'
      BY <1>0, <2>1, <2>2, <3>1 DEF TypeOK, mapVars, MapTypeOK, countVars, waitVars, endVars
    <3> QED BY <2>1, <2>2, <3>2, StayStep DEF Inv
  <2>3. CASE /\ Find(h) # Null /\ mapOwner' = a
             /\ target' = [target EXCEPT ![a] = entryOf[Find(h)]]
             /\ pc' = [pc EXCEPT ![a] = "waitLock"] /\ joined' = joined
    <3>1. entryOf[Find(h)] \in Threads
      BY <1>0, <2>1, <2>3, FindsThread
    <3>2. pc' \in [Actors -> Places] /\ target' \in [Actors -> Threads \cup {Nobody}]
      BY <1>0, <2>3, <3>1 DEF TypeOK, Places
    <3>3. TypeOK'
      BY <1>0, <2>1, <2>3, <3>2 DEF TypeOK, mapVars, MapTypeOK, countVars, waitVars, endVars
    <3>4. target'[a] \in Threads /\ \A b \in Actors \ {a} : target'[b] = target[b]
      BY <1>0, <2>3, <3>1 DEF TypeOK
    <3>5. Counted'
      BY <2>1, <2>3, <3>4, MoveStep DEF Gone
    <3> QED BY <3>3, <3>5 DEF Inv
  <2> QED BY <2>1, <2>2, <2>3
<1> QED BY <1>1, <1>2, <1>3

(* The steps that set nothing but a place and the mutex of a thread. *)
LEMMA MutexStep ==
  ASSUME Inv, NEW a \in Threads,
         \/ Start(a) \/ Started(a) \/ WaitLock(a) \/ WaitSleep(a) \/ WaitReturn(a)
         \/ End(a) \/ Cancelled(a) \/ FreeThread(a)
  PROVE  Inv'
<1>0. TypeOK /\ Counted /\ a \in Actors /\ a # Master
  BY Facts DEF Inv
<1>1. PICK place \in Places \ {"none", "create", "spawn", "waitLock"} :
        /\ pc' = [pc EXCEPT ![a] = place] /\ (place \in Gone <=> pc[a] \in Gone) /\ pc[a] # "none"
        /\ place \in {"waitCv", "sleep", "woken"} => pc[a] \in {"waitLock", "waitCv"}
  BY DEF Start, Started, WaitLock, WaitSleep, WaitReturn, End, Cancelled, FreeThread, At, Goto, Gone, Places
<1>2. UNCHANGED <<mapVars, target, countVars, cancelled, resumed, endVars>>
  BY DEF Start, Started, WaitLock, WaitSleep, WaitReturn, End, Cancelled, FreeThread, lifeVars, waitVars
<1>3. /\ mapOwner' \in {mapOwner, Nobody} /\ freed' \subseteq freed \cup {a}
      /\ joined' = joined \/ (pc[a] = "woken" /\ joined' \subseteq joined \cup {target[a]})
  BY DEF Start, Started, WaitLock, WaitSleep, WaitReturn, End, Cancelled, FreeThread, lifeVars, Sees, At
<1>4. waitOwner' = waitOwner \/ \E t \in Threads \cup {Nobody}, o \in {a, Nobody} : waitOwner' = [waitOwner EXCEPT ![t] = o]
  <2>1. a \in Threads /\ target[a] \in Threads \cup {Nobody}
    BY <1>0 DEF TypeOK
  <2>2. \/ waitOwner' = waitOwner
        \/ waitOwner' = [waitOwner EXCEPT ![a] = a] \/ waitOwner' = [waitOwner EXCEPT ![a] = Nobody]
        \/ waitOwner' = [waitOwner EXCEPT ![target[a]] = a] \/ waitOwner' = [waitOwner EXCEPT ![target[a]] = Nobody]
    BY DEF Start, Started, WaitLock, WaitSleep, WaitReturn, End, Cancelled, FreeThread, waitVars
  <2> QED BY <2>1, <2>2
<1>5. waiting' = waiting \/ waiting' = [waiting EXCEPT ![target[a]] = @ + 1]
  BY DEF Start, Started, WaitLock, WaitSleep, WaitReturn, End, Cancelled, FreeThread, waitVars
<1>6. pc' \in [Actors -> Places] /\ waitOwner' \in [Threads -> Actors \cup {Nobody}] /\ waiting' \in [Threads -> Nat]
  <2>1. pc' \in [Actors -> Places]
    BY <1>0, <1>1 DEF TypeOK
  <2>2. waitOwner' \in [Threads -> Actors \cup {Nobody}]
    BY <1>0, <1>4 DEF TypeOK
  <2>3. waiting' \in [Threads -> Nat]
    BY <1>0, <1>5 DEF TypeOK
  <2> QED BY <2>1, <2>2, <2>3
<1>7. freed' \subseteq Threads /\ joined' \subseteq Threads
  BY <1>0, <1>3 DEF TypeOK, Counted, Waits
<1>8. TypeOK'
  BY <1>0, <1>2, <1>3, <1>6, <1>7 DEF TypeOK, mapVars, MapTypeOK, countVars, endVars
<1>9. place \in {"waitCv", "sleep", "woken"} => target'[a] \in Threads
  BY <1>0, <1>1, <1>2 DEF Counted, Waits
<1>10. Counted'
  BY <1>0, <1>1, <1>2, <1>9, MoveStep
<1> QED BY <1>8, <1>10 DEF Inv

(* zs__thread_map_remove changes the list only. *)
LEMMA RemoveStep == ASSUME Inv, NEW t \in Threads, RemoveThread(t) PROVE Inv'
<1> DEFINE b == Find(handle[t])
<1>0. TypeOK /\ Counted /\ t \in Actors /\ t # Master
  BY Facts DEF Inv
<1>1. /\ pc[t] = "remove" /\ pc' = [pc EXCEPT ![t] = "count"] /\ FindEnds(handle[t])
      /\ UNCHANGED <<target, countVars, mapOwner, waitVars, lifeVars, endVars>>
      /\ UNCHANGED mapVars \/ (b # Null /\ Remove(b))
  BY DEF RemoveThread, Finds, At, Goto
<1>2. MapTypeOK'
  <2>1. CASE UNCHANGED mapVars
    BY <1>0, <2>1 DEF TypeOK, MapTypeOK, mapVars
  <2>2. CASE b # Null /\ Remove(b)
    <3>1. b \in Blocks
      BY <1>0, <1>1, <2>2, FindsThread
    <3> HIDE DEF b
    <3> QED BY <1>0, <2>2, <3>1 DEF TypeOK, MapTypeOK, Remove
  <2> QED BY <1>1, <2>1, <2>2
<1>3. pc' \in [Actors -> Places]
  BY <1>0, <1>1 DEF TypeOK, Places
<1>4. TypeOK'
  BY <1>0, <1>1, <1>2, <1>3 DEF TypeOK, countVars, waitVars, lifeVars, endVars
<1>5. Counted'
  BY <1>0, <1>1, MoveStep DEF Gone
<1> QED BY <1>4, <1>5 DEF Inv

(* The last thread finds the count at 1 and signals the end. *)
LEMMA CountStep == ASSUME Inv, NEW t \in Threads, CountDown(t) PROVE Inv'
<1>0. TypeOK /\ Counted /\ t \in Actors /\ t # Master
  BY Facts DEF Inv
<1>1. /\ pc[t] = "count" /\ running' = running - 1
      /\ pc' = [pc EXCEPT ![t] = "signal", ![Master] = IF running = 1 /\ @ = "sleep" THEN "woken" ELSE @]
      /\ UNCHANGED <<mapVars, target, parent, mapOwner, waitVars, lifeVars, endVars>>
  BY DEF CountDown, At
<1>2. /\ pc'[t] = "signal" /\ \A u \in Threads \ {t} : pc'[u] = pc[u]
      /\ pc'[Master] = IF running = 1 /\ pc[Master] = "sleep" THEN "woken" ELSE pc[Master]
  BY <1>0, <1>1, Facts DEF TypeOK
<1>3. t \in Live /\ parent' = parent /\ target' = target
  BY <1>0, <1>1 DEF Live, Counted
<1>4. Live' = Live \ {t}
  BY <1>2, <1>3 DEF Live
<1>5. running' = Cardinality(Live)' /\ running' \in 0 .. Cardinality(Threads)
  <2>1. Cardinality(Live \ {t}) = Cardinality(Live) - 1
    BY <1>3, LiveCounted, FS_RemoveElement
  <2>2. Cardinality(Live)' = Cardinality(Live) - 1
    BY <1>4, <2>1
  <2>3. Cardinality(Live) # 0 /\ Cardinality(Live) \in 0 .. Cardinality(Threads) /\ Cardinality(Threads) \in Nat
    BY <1>3, LiveCounted, Facts, FS_CardinalityType
  <2> QED BY <1>0, <1>1, <2>2, <2>3 DEF Counted
<1>6. TypeOK'
  <2>1. pc' \in [Actors -> Places]
    BY <1>0, <1>1, Facts DEF TypeOK, Places
  <2> QED BY <1>0, <1>1, <1>5, <2>1 DEF TypeOK, mapVars, MapTypeOK, waitVars, lifeVars, endVars
<1>7. /\ pc'[Master] \in {"run", "create", "spawn", "await", "sleep", "woken", "endless"}
      /\ pc'[Master] = "woken" => Live' = {}
  <2>1. pc'[Master] \in {"run", "create", "spawn", "await", "sleep", "woken", "endless"}
    BY <1>0, <1>2 DEF Counted
  <2>2. ASSUME pc'[Master] = "woken" PROVE Live' = {}
    <3>1. CASE pc[Master] = "woken"
      BY <1>0, <1>3, <3>1 DEF Counted
    <3>2. CASE pc[Master] # "woken"
      <4>1. running = 1 /\ Cardinality(Live) = 1
        BY <1>0, <1>2, <2>2, <3>2 DEF Counted
      <4>2. Cardinality(Live \ {t}) = 0 /\ IsFiniteSet(Live \ {t})
        BY <1>3, <4>1, LiveCounted, FS_RemoveElement
      <4> QED BY <1>4, <4>2, FS_EmptySet
    <3> QED BY <3>1, <3>2
  <2> QED BY <2>1, <2>2
<1>8. \A u \in Threads : pc'[u] # "none" => parent'[u] # Nobody
  BY <1>0, <1>1, <1>2, <1>3 DEF Counted
<1>9. ASSUME NEW c \in Actors PROVE Creating(c)'
  <2> SUFFICES ASSUME pc'[c] \in {"create", "spawn"}
               PROVE  target[c] \in Threads /\ parent[target[c]] = c /\ pc'[target[c]] = "none"
    BY <1>3 DEF Creating
  <2>1. pc[c] \in {"create", "spawn"}
    BY <1>2, Facts
  <2>2. target[c] \in Threads /\ parent[target[c]] = c /\ pc[target[c]] = "none"
    BY <1>0, <2>1 DEF Counted, Creating
  <2> QED BY <1>1, <1>2, <2>2
<1>10. \A c \in Threads : Waits(c)'
  BY <1>0, <1>2, <1>3 DEF Counted, Waits
<1>11. Counted'
  BY <1>5, <1>7, <1>8, <1>9, <1>10 DEF Counted
<1> QED BY <1>6, <1>11 DEF Inv

LEMMA SignalStep == ASSUME Inv, NEW t \in Threads, SignalWaiters(t) PROVE Inv'
<1>0. TypeOK /\ Counted /\ t \in Actors /\ t # Master
  BY Facts DEF Inv
<1>1. /\ pc[t] = "signal"
      /\ pc' = [a \in Actors |-> IF a = t THEN "free"
                                 ELSE IF waiting[t] > 0 /\ a \in Sleepers(t) THEN "woken"
                                 ELSE pc[a]]
      /\ UNCHANGED <<mapVars, target, countVars, mapOwner, waitVars, lifeVars, endVars>>
  BY DEF SignalWaiters, At
<1>2. /\ pc'[t] = "free" /\ pc'[Master] = pc[Master]
      /\ \A a \in Threads \ {t} : pc'[a] = pc[a] \/ (pc[a] = "sleep" /\ pc'[a] = "woken")
  BY <1>0, <1>1, Facts DEF Sleepers
<1>3. TypeOK'
  <2>1. pc' \in [Actors -> Places]
    BY <1>0, <1>1 DEF TypeOK, Places
  <2> QED BY <1>0, <1>1, <2>1 DEF TypeOK, mapVars, MapTypeOK, countVars, waitVars, lifeVars, endVars
<1>4. parent' = parent /\ running' = running /\ target' = target
  BY <1>1 DEF countVars
<1>5. Live' = Live
  <2>1. \A u \in Threads : pc'[u] \in Gone <=> pc[u] \in Gone
    BY <1>1, <1>2 DEF Gone
  <2>2. Live = {u \in Threads : parent[u] # Nobody /\ pc[u] \notin Gone}
        /\ Live' = {u \in Threads : parent'[u] # Nobody /\ pc'[u] \notin Gone}
    BY DEF Live, Gone
  <2> QED BY <1>4, <2>1, <2>2
<1>6. \A u \in Threads : pc'[u] # "none" => parent'[u] # Nobody
  BY <1>0, <1>1, <1>2, <1>4 DEF Counted
<1>7. ASSUME NEW c \in Actors PROVE Creating(c)'
  <2> SUFFICES ASSUME pc'[c] \in {"create", "spawn"}
               PROVE  target[c] \in Threads /\ parent[target[c]] = c /\ pc'[target[c]] = "none"
    BY <1>4 DEF Creating
  <2>1. pc[c] \in {"create", "spawn"}
    BY <1>2, Facts
  <2>2. target[c] \in Threads /\ parent[target[c]] = c /\ pc[target[c]] = "none"
    BY <1>0, <2>1 DEF Counted, Creating
  <2> QED BY <1>1, <1>2, <2>2
<1>8. \A c \in Threads : Waits(c)'
  BY <1>0, <1>2, <1>4 DEF Counted, Waits
<1>9. Counted'
  BY <1>0, <1>2, <1>4, <1>5, <1>6, <1>7, <1>8 DEF Counted
<1> QED BY <1>3, <1>9 DEF Inv

LEMMA MasterStepInv == ASSUME Inv, MasterWait \/ MasterReturn PROVE Inv'
<1>0. TypeOK /\ Counted /\ Master \in Actors
  BY Facts DEF Inv
<1>1. CASE MasterWait
  <2>1. /\ pc[Master] = "await" /\ pc' = [pc EXCEPT ![Master] = "sleep"]
        /\ UNCHANGED <<mapVars, target, countVars, mapOwner, waitVars, lifeVars, endVars>>
    BY <1>1 DEF MasterWait, At, Goto
  <2>2. pc' \in [Actors -> Places]
    BY <1>0, <2>1 DEF TypeOK, Places
  <2>3. TypeOK'
    BY <1>0, <2>1, <2>2 DEF TypeOK, mapVars, MapTypeOK, countVars, waitVars, lifeVars, endVars
  <2>4. Counted'
    BY <1>0, <2>1, MoveStep DEF Gone
  <2> QED BY <2>3, <2>4 DEF Inv
<1>2. CASE MasterReturn
  <2>1. exited' = TRUE /\ UNCHANGED <<mapVars, pc, target, countVars, mapOwner, waitVars, lifeVars, crashed>>
    BY <1>2 DEF MasterReturn
  <2>2. TypeOK'
    BY <1>0, <2>1 DEF TypeOK, mapVars, MapTypeOK, countVars, waitVars, lifeVars
  <2> QED BY <2>1, <2>2, StayStep DEF Inv
<1> QED BY <1>1, <1>2

LEMMA FaultStep == ASSUME Inv, NEW a \in Actors, Fault(a) \/ Hang(a) PROVE Inv'
<1>0. TypeOK /\ Counted
  BY DEF Inv
<1>1. CASE Fault(a)
  <2>1. crashed' = TRUE /\ UNCHANGED <<mapVars, pc, target, countVars, mapOwner, waitVars, lifeVars, exited>>
    BY <1>1 DEF Fault
  <2>2. TypeOK'
    BY <1>0, <2>1 DEF TypeOK, mapVars, MapTypeOK, countVars, waitVars, lifeVars
  <2> QED BY <2>1, <2>2, StayStep DEF Inv
<1>2. CASE Hang(a)
  <2>1. /\ pc[a] \in {"run", "remove"} /\ pc' = [pc EXCEPT ![a] = "endless"] /\ mapOwner' = a
        /\ UNCHANGED <<mapVars, target, countVars, waitVars, lifeVars, endVars>>
    BY <1>2 DEF Hang, LooksUp, At, Goto
  <2>2. pc' \in [Actors -> Places]
    BY <1>0, <2>1 DEF TypeOK, Places
  <2>3. TypeOK'
    BY <1>0, <2>1, <2>2 DEF TypeOK, mapVars, MapTypeOK, countVars, waitVars, lifeVars, endVars
  <2>4. Counted'
    BY <1>0, <2>1, MoveStep DEF Gone
  <2> QED BY <2>3, <2>4 DEF Inv
<1> QED BY <1>1, <1>2

LEMMA InvStep == Inv /\ [Next]_vars => Inv'
<1> SUFFICES ASSUME Inv, [Next]_vars PROVE Inv'
  OBVIOUS
<1>1. CASE \E a \in Actors : Client(a)
  BY <1>1, BeginStep, CallStep DEF Client
<1>2. CASE \E a \in Actors : Creation(a)
  BY <1>2, InsertStep, SpawnStep DEF Creation
<1>3. CASE \E a \in Actors : Fault(a) \/ Hang(a)
  BY <1>3, FaultStep
<1>4. CASE \E t \in Threads : Library(t) \/ End(t) \/ Cancelled(t)
  BY <1>4, MutexStep, RemoveStep, CountStep, SignalStep DEF Library
<1>5. CASE MasterWait \/ MasterReturn
  BY <1>5, MasterStepInv
<1>6. CASE UNCHANGED vars
  <2>1. TypeOK'
    BY <1>6 DEF Inv, TypeOK, MapTypeOK, vars, mapVars, countVars, waitVars, lifeVars, endVars
  <2> QED BY <1>6, <2>1, StayStep DEF Inv, vars
<1> QED BY <1>1, <1>2, <1>3, <1>4, <1>5, <1>6 DEF Next

LEMMA AlwaysInv == Spec => []Inv
  BY InvInit, InvStep, PTL DEF Spec

(***************************************************************************)
(* The variables of the threads, of the map and of zs__execute keep their  *)
(* types, whatever the clients call: threads_running is never below 0 and  *)
(* never above the number of threads.                                      *)
(***************************************************************************)
THEOREM TypeCorrect == Spec => []TypeOK
<1>1. Inv => TypeOK
  BY DEF Inv
<1> QED BY <1>1, AlwaysInv, PTL

(***************************************************************************)
(* zs__execute goes on from its wait for the last thread only when the     *)
(* function of every thread has ended and no thread is being created,      *)
(* whatever the clients call: the count of zs__thread_create is made       *)
(* before the thread exists, the one of zs__thread_cleanup after its end.  *)
(***************************************************************************)
THEOREM LastThreadEnded == Spec => []MasterLast
<1>1. Inv => MasterLast
  <2> SUFFICES ASSUME Inv, pc[Master] = "woken", NEW t \in Threads
               PROVE  pc[t] \in Ended /\ (pc[t] = "none" => parent[t] = Nobody)
    BY DEF MasterLast
  <2>1. t \notin Live /\ (pc[t] # "none" => parent[t] # Nobody)
    BY DEF Inv, Counted
  <2> QED BY <2>1 DEF Live, Ended
<1> QED BY <1>1, AlwaysInv, PTL

-----------------------------------------------------------------------------
(***************************************************************************)
(* Clients that keep the rules: each thread has at most one child that it  *)
(* has not seen end, so that the threads in the map are a chain, and the   *)
(* map their stack.                                                        *)
(***************************************************************************)
Late    == {"count", "signal", "free", "done"}
Waiting == {"waitLock", "waitCv", "sleep", "woken"}

Registry == {t \in Threads : Registered(t)}

Chain(k, b) ==
  /\ {entryOf[b[i]] : i \in 1 .. k} = Registry
  /\ \A i, j \in 1 .. k : entryOf[b[i]] = entryOf[b[j]] => i = j
  /\ \A i \in 1 .. k :
       parent[entryOf[b[i]]] = IF i = 1 THEN Master ELSE entryOf[b[i - 1]]

Stacked ==
  \E k \in 0 .. Cardinality(Blocks) : \E b \in [1 .. k -> Blocks] : Stack(k, b) /\ Chain(k, b)

Family ==
  /\ \A t \in joined : pc[t] \in Late
  /\ \A t \in Threads : pc[t] \in Late \cup {"remove"} => Children(t) \subseteq joined
  /\ \A t, u \in Threads :
       parent[t] = parent[u] /\ parent[t] # Nobody /\ t \notin joined /\ u \notin joined => t = u
  /\ \A t \in Threads : parent[t] = Master <=> t = Main /\ parent[Main] # Nobody
  /\ parent[Main] = Nobody => \A t \in Threads : parent[t] = Nobody
  /\ \A t \in Threads : parent[t] \in Threads => pc[parent[t]] # "none"

(* Nobody has ended unseen while a thread is created. *)
Quiet == (\E a \in Actors : pc[a] = "create") => \A t \in Threads : pc[t] \in Late => t \in joined

(* A thread in the map that was not spawned has the handle of a seen one.  *)
Named == \A t \in Threads :
  /\ pc[t] # "none" => handle[t] = t
  /\ pc[t] = "none" /\ Registered(t) => handle[t] \in {Null} \cup joined

WaitersAim == \A a \in Threads :
  /\ pc[a] \in Waiting =>
       parent[target[a]] = a /\ resumed[target[a]] > 0 /\ pc[target[a]] # "none"
  /\ pc[a] = "waitLock" => mapOwner = a /\ pc[target[a]] \notin Late
  /\ pc[a] = "woken" => pc[target[a]] \in {"free", "done"}

(* A thread that was not executed halts at its mutex. *)
Held == \A t \in Threads :
  /\ pc[t] \notin {"none", "halt"} => resumed[t] > 0
  /\ Registered(t) /\ resumed[t] = 0 => waitOwner[t] # Nobody

Tame ==
  /\ cancelled = {} /\ \A a \in Actors : pc[a] # "endless"
  /\ \A t \in freed : pc[t] = "done"

CInv ==
  Inv /\ Stacked /\ Family /\ Quiet /\ Named /\ WaitersAim /\ Held /\ Tame /\ CarefulFaults

LEMMA CInvInit == Init => CInv
<1> SUFFICES ASSUME Init PROVE CInv
  OBVIOUS
<1>1. Inv
  BY InvInit
<1>2. /\ \A a \in Actors : pc[a] \in {"run", "none"}
      /\ \A t \in Threads : pc[t] = "none" /\ parent[t] = Nobody
      /\ head = Null /\ allocated = {} /\ freed = {} /\ joined = {} /\ cancelled = {} /\ crashed = FALSE
  BY Facts DEF Init, MapInit
<1>3. Registry = {} /\ \A t \in Threads : ~Registered(t)
  BY <1>2 DEF Registry, Registered
<1>4. Stacked
  <2> DEFINE b == [i \in 1 .. 0 |-> Null]
  <2>1. 1 .. 0 = {} /\ 0 \in 0 .. Cardinality(Blocks) /\ Cardinality(allocated) = 0
    BY <1>2, BlocksCounted, FS_EmptySet
  <2>2. b \in [1 .. 0 -> Blocks]
    BY <2>1
  <2> HIDE DEF b
  <2>3. Stack(0, b)
    BY <1>2, <2>1, <2>2 DEF Stack
  <2>4. Chain(0, b)
    BY <1>3, <2>1 DEF Chain
  <2> QED BY <2>1, <2>2, <2>3, <2>4 DEF Stacked
<1>5. Family
  BY <1>2, Facts DEF Family, Late
<1>6. Quiet /\ Named /\ WaitersAim /\ Held /\ Tame /\ CarefulFaults
  BY <1>2, <1>3 DEF Quiet, Named, WaitersAim, Held, Tame, CarefulFaults, Late, Waiting
<1> QED BY <1>1, <1>4, <1>5, <1>6 DEF CInv

(***************************************************************************)
(* What the map tells.                                                     *)
(***************************************************************************)
LEMMA StackOf ==
  ASSUME CInv
  PROVE  \E k \in Nat : \E b \in [1 .. k -> Blocks] : k \in 0 .. Cardinality(Blocks) /\ Stack(k, b) /\ Chain(k, b)
  BY BlocksCounted DEF CInv, Stacked

LEMMA Entered ==
  ASSUME CInv
  PROVE  /\ MapTypeOK /\ \A x \in allocated : entryOf[x] \in Registry /\ entryOf[x] \notin freed
         /\ \A t \in Registry : t \in Threads /\ Registered(t) /\ pc[t] \notin Late /\ t \notin joined
<1>1. PICK k \in Nat : \E b \in [1 .. k -> Blocks] : Stack(k, b) /\ Chain(k, b)
  BY StackOf
<1>2. PICK b \in [1 .. k -> Blocks] : Stack(k, b) /\ Chain(k, b)
  BY <1>1
<1>3. \A x \in allocated : entryOf[x] \in Registry
  BY <1>2 DEF Stack, Chain
<1>4. \A t \in Registry : t \in Threads /\ Registered(t) /\ pc[t] \notin Late
  BY DEF Registry, Registered, Late, Ended
<1>5. \A t \in Registry : t \notin joined /\ t \notin freed
  BY <1>4 DEF CInv, Family, Tame, Late
<1> QED BY <1>3, <1>4, <1>5 DEF CInv, Inv, TypeOK

(* A handle in use finds its thread, as long as it is in the map.          *)
LEMMA LookedUp ==
  ASSUME CInv, NEW h \in Threads, h \notin joined, pc[h] # "none"
  PROVE  /\ FindEnds(h) /\ Visited(h) \subseteq allocated
         /\ Registered(h) => Find(h) \in allocated /\ Find(h) # Null /\ entryOf[Find(h)] = h
         /\ ~Registered(h) => Find(h) = Null
<1>0. MapTypeOK /\ Named
  BY DEF CInv, Inv, TypeOK
<1>1. PICK k \in Nat : \E b \in [1 .. k -> Blocks] : Stack(k, b) /\ Chain(k, b)
  BY StackOf
<1>2. PICK b \in [1 .. k -> Blocks] : Stack(k, b) /\ Chain(k, b)
  BY <1>1
<1>3. /\ FindEnds(h) /\ Visited(h) \subseteq allocated
      /\ Find(h) = Null \/ (Names(Find(h), h) /\ \E i \in 1 .. k : Find(h) = b[i])
      /\ \A i \in 1 .. k : Names(b[i], h) => Find(h) # Null
  BY <1>0, <1>2, StackFound
<1>4. ASSUME NEW i \in 1 .. k PROVE Names(b[i], h) <=> entryOf[b[i]] = h
  <2>1. entryOf[b[i]] \in Registry /\ b[i] # Null
    BY <1>2, MapAssumption DEF Chain
  <2>2. entryOf[b[i]] \in Threads /\ Registered(entryOf[b[i]]) /\ entryOf[b[i]] # Null
    BY <2>1, Facts DEF Registry
  <2> QED BY <1>0, <2>1, <2>2, Facts DEF Named, Names
<1>5. \A i \in 1 .. k : b[i] \in allocated
  BY <1>2 DEF Stack
<1>6. CASE Registered(h)
  <2>1. PICK i \in 1 .. k : entryOf[b[i]] = h
    <3>1. h \in Registry
      BY <1>6 DEF Registry
    <3> QED BY <1>2, <3>1 DEF Chain
  <2>2. Find(h) # Null
    BY <1>3, <1>4, <2>1
  <2>3. PICK j \in 1 .. k : Find(h) = b[j] /\ Names(b[j], h)
    BY <1>3, <2>2
  <2> QED BY <1>3, <1>4, <1>5, <1>6, <2>2, <2>3
<1>7. CASE ~Registered(h)
  <2>1. \A i \in 1 .. k : entryOf[b[i]] # h
    BY <1>2, <1>7 DEF Chain, Registry
  <2> QED BY <1>3, <1>4, <1>7, <2>1
<1> QED BY <1>6, <1>7

(* Who has no child in the map is at its head. *)
LEMMA AtTheHead ==
  ASSUME CInv, NEW a \in Registry, \A t \in Registry : parent[t] # a,
         NEW k \in Nat, NEW b \in [1 .. k -> Blocks], Chain(k, b)
  PROVE  k # 0 /\ k \in 1 .. k /\ entryOf[b[k]] = a
<1>1. PICK n \in 1 .. k : entryOf[b[n]] = a
  BY DEF Chain
<1>2. n = k
  <2> SUFFICES ASSUME n # k PROVE FALSE
    OBVIOUS
  <2>1. n + 1 \in 1 .. k /\ n + 1 # 1 /\ (n + 1) - 1 = n
    OBVIOUS
  <2>2. entryOf[b[n + 1]] \in Registry /\ parent[entryOf[b[n + 1]]] = a
    BY <1>1, <2>1 DEF Chain
  <2> QED BY <2>2
<1> QED BY <1>1, <1>2

(* When somebody in the map has seen the ends of all its children,         *)
(* everybody's end was seen.                                               *)
LEMMA AllSeen ==
  ASSUME CInv, NEW a \in Registry, Children(a) \subseteq joined
  PROVE  \A h \in Threads : pc[h] \in Late => h \in joined
<1>0. Family /\ Inv /\ \A t \in Registry : t \in Threads /\ pc[t] \notin Late /\ t \notin joined
  BY Entered DEF CInv
<1>1. PICK k \in Nat : \E b \in [1 .. k -> Blocks] : Stack(k, b) /\ Chain(k, b)
  BY StackOf
<1>2. PICK b \in [1 .. k -> Blocks] : Stack(k, b) /\ Chain(k, b)
  BY <1>1
<1>3. \A t \in Registry : parent[t] # a
  BY <1>0 DEF Children
<1>4. k # 0 /\ k \in 1 .. k /\ entryOf[b[k]] = a
  BY <1>2, <1>3, AtTheHead
<1>5. SUFFICES ASSUME NEW h \in Threads, pc[h] \in Late, h \notin joined PROVE FALSE
  OBVIOUS
<1>6. parent[h] # Nobody /\ parent[h] \in Actors /\ h \notin Registry
  BY <1>0, <1>5 DEF Inv, Counted, TypeOK, Late
<1>7. CASE parent[h] = Master
  <2>1. 1 \in 1 .. k
    BY <1>4
  <2>2. parent[entryOf[b[1]]] = Master /\ entryOf[b[1]] \in Registry
    BY <1>2, <2>1 DEF Chain
  <2>3. h = Main /\ entryOf[b[1]] = Main
    BY <1>0, <1>7, <2>2 DEF Family
  <2> QED BY <1>6, <2>2, <2>3
<1>8. CASE parent[h] # Master
  <2> DEFINE p == parent[h]
  <2>1. p \in Threads /\ pc[p] # "none"
    BY <1>0, <1>6, <1>8, Facts DEF Family
  <2>2. h \in Children(p)
    BY DEF Children
  <2>3. pc[p] \notin Late \cup {"remove"}
    BY <1>0, <1>5, <2>1, <2>2 DEF Family
  <2>4. p \in Registry
    BY <2>1, <2>3 DEF Registry, Registered, Late, Ended
  <2>5. \A t \in Registry : parent[t] # p
    BY <1>0, <1>5, <1>6 DEF Family
  <2>6. entryOf[b[k]] = p
    BY <1>2, <2>4, <2>5, AtTheHead
  <2> QED BY <1>4, <1>5, <2>2, <2>6
<1> QED BY <1>7, <1>8

(* The creator of a thread that is not in the map yet is at the head.      *)
LEMMA CreatorNewest ==
  ASSUME CInv, NEW a \in Actors, pc[a] = "create",
         NEW k \in Nat, NEW b \in [1 .. k -> Blocks], Chain(k, b)
  PROVE  /\ target[a] \in Threads /\ target[a] \notin Registry /\ parent[target[a]] = a
         /\ a = Master => k = 0
         /\ a # Master => k # 0 /\ k \in 1 .. k /\ entryOf[b[k]] = a
<1>0. Family /\ Inv /\ \A t \in Registry : t \in Threads /\ pc[t] \notin Late /\ t \notin joined
  BY Entered DEF CInv
<1> DEFINE t == target[a]
<1>1. t \in Threads /\ parent[t] = a /\ pc[t] = "none"
  BY <1>0 DEF Inv, Counted, Creating
<1>2. t \notin Registry
  BY <1>1 DEF Registry, Registered
<1>3. ASSUME a = Master, k # 0 PROVE FALSE
  <2>1. 1 \in 1 .. k
    BY <1>3
  <2>2. parent[entryOf[b[1]]] = Master /\ entryOf[b[1]] \in Registry
    BY <2>1 DEF Chain
  <2>3. t = Main /\ entryOf[b[1]] = Main
    BY <1>0, <1>1, <1>3, <2>2 DEF Family
  <2> QED BY <1>2, <2>2, <2>3
<1>4. ASSUME a # Master PROVE k # 0 /\ k \in 1 .. k /\ entryOf[b[k]] = a
  <2>1. a \in Registry
    BY <1>4, Facts DEF Registry, Registered, Ended
  <2>2. t \notin joined
    BY <1>0, <1>1 DEF Family, Late
  <2>3. \A u \in Registry : parent[u] # a
    BY <1>0, <1>1, <1>2, <2>2, Facts DEF Family
  <2> QED BY <2>1, <2>3, AtTheHead
<1> QED BY <1>1, <1>2, <1>3, <1>4

(***************************************************************************)
(* The steps that leave the map, and who is in it, alone.                  *)
(***************************************************************************)
SameMap ==
  /\ UNCHANGED <<head, next, entryOf, allocated>> /\ Registry' = Registry
  /\ \A t \in Registry : parent'[t] = parent[t]

LEMMA StackKept == ASSUME CInv, SameMap PROVE Stacked'
<1>1. PICK k \in Nat : \E b \in [1 .. k -> Blocks] : k \in 0 .. Cardinality(Blocks) /\ Stack(k, b) /\ Chain(k, b)
  BY StackOf
<1>2. PICK b \in [1 .. k -> Blocks] : k \in 0 .. Cardinality(Blocks) /\ Stack(k, b) /\ Chain(k, b)
  BY <1>1
<1>3. Stack(k, b)'
  BY <1>2 DEF Stack, SameMap
<1>4. \A i \in 1 .. k : entryOf[b[i]] \in Registry
  BY <1>2 DEF Chain
<1>5. Chain(k, b)'
  BY <1>2, <1>4 DEF Chain, SameMap
<1> QED BY <1>2, <1>3, <1>5 DEF Stacked

(* Nobody is created, and nobody is removed. *)
Steady ==
  /\ parent' = parent /\ UNCHANGED mapVars
  /\ \A a \in Actors : /\ pc'[a] = "create" <=> pc[a] = "create"
                       /\ pc[a] = "create" => target'[a] = target[a]
  /\ \A t \in Threads : /\ pc'[t] = "none" <=> pc[t] = "none"
                        /\ pc'[t] \in Late <=> pc[t] \in Late
                        /\ pc'[t] = "remove" => pc[t] = "remove" \/ Children(t) \subseteq joined
  /\ joined \subseteq joined' /\ \A t \in joined' : t \in Threads /\ pc[t] \in Late

(* No execute is lost, and none is overtaken. *)
Unhurried == \A t \in Threads :
  /\ resumed'[t] = resumed[t] \/ resumed'[t] > 0
  /\ pc[t] \in {"none", "halt"} /\ pc'[t] \notin {"none", "halt"} => resumed'[t] > 0
  /\ waitOwner'[t] # Nobody \/ waitOwner'[t] = waitOwner[t] \/ resumed'[t] > 0

Aimed == \A a \in Threads :
  /\ pc'[a] \in Waiting =>
       \/ pc[a] \in Waiting /\ target'[a] = target[a]
       \/ parent[target'[a]] = a /\ resumed[target'[a]] > 0 /\ pc[target'[a]] # "none"
  /\ pc'[a] = "waitLock" => mapOwner' = a /\ pc'[target'[a]] \notin Late
  /\ pc'[a] = "woken" => pc'[target'[a]] \in {"free", "done"}

Orderly ==
  /\ cancelled' = {} /\ crashed' = FALSE /\ \A a \in Actors : pc'[a] # "endless"
  /\ \A t \in freed' : pc'[t] = "done"

LEMMA SteadyRegistry ==
  ASSUME Inv, Steady PROVE Registry' = Registry /\ \A t \in Threads : Registered(t)' <=> Registered(t)
<1>1. \A t \in Threads : pc[t] \in {"none"} \cup Ended \cup {"count"} <=> pc[t] = "none" \/ pc[t] \in Late
  BY DEF Ended, Late
<1>2. \A t \in Threads : pc'[t] \in {"none"} \cup Ended \cup {"count"} <=> pc'[t] = "none" \/ pc'[t] \in Late
  BY DEF Ended, Late
<1>3. \A t \in Threads : (\E a \in Actors : pc'[a] = "create" /\ target'[a] = t)
                           <=> (\E a \in Actors : pc[a] = "create" /\ target[a] = t)
  BY DEF Steady
<1>4. \A t \in Threads : Registered(t)' <=> Registered(t)
  BY <1>1, <1>2, <1>3 DEF Registered, Steady
<1> QED BY <1>4 DEF Registry

LEMMA SteadyStep ==
  ASSUME CInv, Inv', Steady, Unhurried, Aimed, Orderly PROVE CInv'
<1>0. /\ Inv /\ Family /\ Quiet /\ Named /\ WaitersAim /\ Held /\ Inv'
      /\ parent' = parent /\ Registry' = Registry /\ \A t \in Threads : Registered(t)' <=> Registered(t)
  BY SteadyRegistry DEF CInv, Steady
<1>1. Stacked'
  BY <1>0, StackKept DEF SameMap, Steady, mapVars
<1>2. Family'
  <2>1. \A t \in joined' : pc'[t] \in Late
    BY DEF Steady
  <2>2. \A t \in Threads : pc'[t] \in Late \cup {"remove"} => Children(t)' \subseteq joined'
    BY <1>0 DEF Family, Steady, Children
  <2>3. \A t, u \in Threads :
          parent'[t] = parent'[u] /\ parent'[t] # Nobody /\ t \notin joined' /\ u \notin joined' => t = u
    BY <1>0 DEF Family, Steady
  <2>4. /\ \A t \in Threads : parent'[t] = Master <=> t = Main /\ parent'[Main] # Nobody
        /\ parent'[Main] = Nobody => \A t \in Threads : parent'[t] = Nobody
        /\ \A t \in Threads : parent'[t] \in Threads => pc'[parent'[t]] # "none"
    BY <1>0 DEF Family, Steady
  <2> QED BY <2>1, <2>2, <2>3, <2>4 DEF Family
<1>3. Quiet' /\ Named'
  BY <1>0 DEF Quiet, Named, Steady, mapVars
<1>4. WaitersAim'
  <2> SUFFICES ASSUME NEW a \in Threads
               PROVE  /\ pc'[a] \in Waiting =>
                           parent'[target'[a]] = a /\ resumed'[target'[a]] > 0 /\ pc'[target'[a]] # "none"
                      /\ pc'[a] = "waitLock" => mapOwner' = a /\ pc'[target'[a]] \notin Late
                      /\ pc'[a] = "woken" => pc'[target'[a]] \in {"free", "done"}
    BY DEF WaitersAim
  <2>1. pc'[a] \in Waiting => target'[a] \in Threads
    BY <1>0 DEF Inv, Counted, Waits, Waiting
  <2>2. pc'[a] \in Waiting => parent[target'[a]] = a /\ resumed[target'[a]] > 0 /\ pc[target'[a]] # "none"
    BY <1>0 DEF WaitersAim, Aimed
  <2>3. pc'[a] \in Waiting => parent'[target'[a]] = a /\ resumed'[target'[a]] > 0 /\ pc'[target'[a]] # "none"
    BY <1>0, <2>1, <2>2 DEF Steady, Unhurried
  <2> QED BY <2>3 DEF Aimed
<1>5. Held'
  BY <1>0 DEF Held, Unhurried
<1>6. Tame' /\ CarefulFaults'
  BY DEF Tame, CarefulFaults, Orderly
<1> QED BY <1>0, <1>1, <1>2, <1>3, <1>4, <1>5, <1>6 DEF CInv

(* A thread that goes to another place, and nothing else of interest.      *)
LEMMA PlaceStep ==
  ASSUME CInv, Inv', NEW a \in Actors, NEW place \in Places,
         pc' = [pc EXCEPT ![a] = place], UNCHANGED <<mapVars, parent, target, cancelled>>,
         freed' \subseteq freed \cup (IF place = "done" THEN {a} ELSE {}), ~crashed',
         pc[a] # "none" /\ place \notin {"none", "create", "waitLock", "woken", "endless"} /\ pc[a] \notin {"create", "done"},
         place \in Late <=> pc[a] \in Late,
         pc[a] = "free" => place = "done",
         place \in Waiting => pc[a] \in Waiting \/ a = Master,
         place = "remove" => Children(a) \subseteq joined,
         a \in Threads /\ pc[a] = "halt" => resumed'[a] > 0,
         joined \subseteq joined' /\ \A t \in joined' : t \in Threads /\ pc[t] \in Late,
         \A t \in Threads : resumed'[t] = resumed[t] \/ resumed'[t] > 0,
         \A t \in Threads : waitOwner'[t] # Nobody \/ waitOwner'[t] = waitOwner[t] \/ resumed'[t] > 0,
         mapOwner' = mapOwner \/ mapOwner = a
  PROVE  CInv'
<1>0. Inv /\ TypeOK /\ WaitersAim /\ Tame
  BY DEF CInv, Inv
<1>1. \A b \in Actors : pc'[b] = IF b = a THEN place ELSE pc[b]
  BY <1>0 DEF TypeOK
<1>2. parent' = parent /\ target' = target /\ cancelled' = cancelled
  OBVIOUS
<1>3. Steady
  BY <1>1, <1>2, Facts DEF Steady
<1>4. Unhurried
  BY <1>1, Facts DEF Unhurried
<1>5. Aimed
  <2> SUFFICES ASSUME NEW b \in Threads
               PROVE  /\ pc'[b] \in Waiting => pc[b] \in Waiting
                      /\ pc'[b] = "waitLock" => mapOwner' = b /\ pc'[target[b]] \notin Late
                      /\ pc'[b] = "woken" => pc'[target[b]] \in {"free", "done"}
    BY <1>2 DEF Aimed
  <2>1. b \in Actors /\ b # Master
    BY Facts
  <2>2. pc'[b] \in Waiting => pc[b] \in Waiting
    BY <1>1, <2>1
  <2>3. ASSUME pc'[b] = "waitLock" PROVE mapOwner' = b /\ pc'[target[b]] \notin Late
    <3>1. b # a /\ pc[b] = "waitLock"
      BY <1>1, <2>1, <2>3
    <3>2. target[b] \in Actors /\ mapOwner = b /\ pc[target[b]] \notin Late
      BY <1>0, <3>1, Facts DEF WaitersAim, Inv, Counted, Waits
    <3> QED BY <1>1, <3>1, <3>2
  <2>4. ASSUME pc'[b] = "woken" PROVE pc'[target[b]] \in {"free", "done"}
    <3>1. b # a /\ pc[b] = "woken"
      BY <1>1, <2>1, <2>4
    <3>2. target[b] \in Actors /\ pc[target[b]] \in {"free", "done"}
      BY <1>0, <3>1, Facts DEF WaitersAim, Inv, Counted, Waits
    <3> QED BY <1>1, <3>1, <3>2
  <2> QED BY <2>2, <2>3, <2>4
<1>6. Orderly
  <2>1. crashed' = FALSE
    BY DEF Inv, TypeOK
  <2>2. \A t \in freed' : pc'[t] = "done"
    BY <1>0, <1>1, Facts DEF Tame, TypeOK
  <2> QED BY <1>0, <1>1, <1>2, <2>1, <2>2 DEF Orderly, Tame
<1> QED BY <1>3, <1>4, <1>5, <1>6, SteadyStep

LEMMA SpawnFailsKeeps == ASSUME CInv, Inv', NEW a \in Actors, SpawnFails(a) PROVE CInv'
  BY PlaceStep DEF SpawnFails, At, Goto, Places, Late, Waiting, waitVars, lifeVars, endVars, countVars, CInv, Family, Inv, TypeOK

LEMMA StartKeeps == ASSUME CInv, Inv', NEW t \in Threads, Start(t) \/ Started(t) PROVE CInv'
<1>0. CInv /\ Inv /\ TypeOK /\ Held /\ Family /\ t \in Actors
  BY Facts DEF CInv, Inv
<1>1. \A u \in joined : u \in Threads /\ pc[u] \in Late
  BY <1>0 DEF TypeOK, Family
<1>2. CASE Start(t)
  <2>1. /\ pc[t] = "halt" /\ waitOwner[t] = Nobody /\ waitOwner' = [waitOwner EXCEPT ![t] = t] /\ ~crashed'
        /\ pc' = [pc EXCEPT ![t] = "starting"] /\ UNCHANGED <<mapVars, parent, target, mapOwner, freed, cancelled, resumed, joined>>
    BY <1>2 DEF Start, At, Goto, countVars, lifeVars, endVars
  <2>2. resumed[t] > 0
    <3>1. Registered(t)
      BY <2>1 DEF Registered, Ended
    <3>2. resumed[t] \in Nat
      BY <1>0 DEF TypeOK
    <3> QED BY <1>0, <2>1, <3>1, <3>2 DEF Held
  <2>3. \A u \in Threads : waitOwner'[u] # Nobody \/ waitOwner'[u] = waitOwner[u]
    BY <1>0, <2>1 DEF TypeOK
  <2> QED BY <1>0, <1>1, <2>1, <2>2, <2>3, PlaceStep DEF Places, Late, Waiting
<1>3. CASE Started(t)
  <2>1. /\ pc[t] = "starting" /\ waitOwner' = [waitOwner EXCEPT ![t] = Nobody] /\ ~crashed'
        /\ pc' = [pc EXCEPT ![t] = "run"] /\ UNCHANGED <<mapVars, parent, target, mapOwner, freed, cancelled, resumed, joined>>
    BY <1>3 DEF Started, At, Goto, countVars, lifeVars, endVars
  <2>2. resumed[t] > 0
    BY <1>0, <2>1 DEF Held
  <2>3. \A u \in Threads : waitOwner'[u] = waitOwner[u] \/ resumed[u] > 0
    BY <1>0, <2>1, <2>2 DEF TypeOK
  <2> QED BY <1>0, <1>1, <2>1, <2>3, PlaceStep DEF Places, Late, Waiting
<1> QED BY <1>2, <1>3

LEMMA WaitKeeps ==
  ASSUME CInv, Inv', NEW a \in Threads, WaitLock(a) \/ WaitSleep(a) \/ WaitReturn(a) PROVE CInv'
<1>0. CInv /\ Inv /\ TypeOK /\ WaitersAim /\ Family /\ a \in Actors /\ a # Master
  BY Facts DEF CInv, Inv
<1>1. \A u \in joined : u \in Threads /\ pc[u] \in Late
  BY <1>0 DEF TypeOK, Family
<1>2. CASE WaitLock(a) \/ WaitSleep(a)
  <2>1. PICK place \in {"waitCv", "sleep"} :
          pc[a] \in Waiting /\ pc[a] \in {"waitLock", "waitCv"} /\ pc' = [pc EXCEPT ![a] = place]
    BY <1>2 DEF WaitLock, WaitSleep, At, Goto, Waiting
  <2>2. /\ UNCHANGED <<mapVars, parent, target, freed, cancelled, resumed, joined>> /\ ~crashed'
        /\ \E o \in {a, Nobody} : waitOwner' = [waitOwner EXCEPT ![target[a]] = o]
        /\ mapOwner' = mapOwner \/ pc[a] = "waitLock"
    BY <1>2 DEF WaitLock, WaitSleep, At, countVars, lifeVars, endVars
  <2>3. target[a] \in Threads /\ resumed[target[a]] > 0 /\ (pc[a] = "waitLock" => mapOwner = a)
    BY <1>0, <2>1 DEF WaitersAim, Inv, Counted, Waits, Waiting
  <2>4. \A u \in Threads : waitOwner'[u] = waitOwner[u] \/ resumed[u] > 0
    BY <1>0, <2>2, <2>3 DEF TypeOK
  <2> QED BY <1>0, <1>1, <2>1, <2>2, <2>3, <2>4, PlaceStep DEF Places, Late, Waiting
<1>3. CASE WaitReturn(a)
  <2>1. /\ pc[a] = "woken" /\ pc' = [pc EXCEPT ![a] = "run"] /\ ~crashed'
        /\ UNCHANGED <<mapVars, parent, target, mapOwner, waitOwner, freed, cancelled, resumed>>
        /\ joined' \in {joined, joined \cup {target[a]}}
    BY <1>3 DEF WaitReturn, At, Goto, Sees, countVars, waitVars, endVars
  <2>2. target[a] \in Threads /\ pc[target[a]] \in Late
    BY <1>0, <2>1 DEF WaitersAim, Inv, Counted, Waits, Late
  <2>3. joined \subseteq joined' /\ \A u \in joined' : u \in Threads /\ pc[u] \in Late
    BY <1>1, <2>1, <2>2
  <2> QED BY <1>0, <2>1, <2>3, PlaceStep DEF Places, Late, Waiting
<1> QED BY <1>2, <1>3

(* The calls of careful clients meet the thread that they mean. *)
LEMMA CareTaken ==
  ASSUME CInv, Careful, NEW a \in Actors, NEW h \in Threads, LooksUp(a, h)
  PROVE  /\ h \notin joined /\ pc[h] # "none"
         /\ FindEnds(h) /\ ~TouchesFreed(h)
         /\ Registered(h) => Find(h) \in allocated /\ Find(h) # Null /\ entryOf[Find(h)] = h
         /\ ~Registered(h) => Find(h) = Null
<1>1. h \notin joined /\ pc[h] # "none"
  <2>1. CASE pc[a] = "run"
    BY <2>1 DEF LooksUp, At, Known, Usable, MayExecute
  <2>2. CASE pc[a] = "remove" /\ h = handle[a]
    <3>1. a \in Threads
      BY <2>2, Facts DEF CInv, Inv, Counted
    <3>2. h = a
      BY <2>2, <3>1 DEF CInv, Named
    <3> QED BY <2>2, <3>2 DEF CInv, Family, Late
  <2> QED BY <2>1, <2>2 DEF LooksUp, At
<1>2. /\ FindEnds(h) /\ Visited(h) \subseteq allocated
      /\ Registered(h) => Find(h) \in allocated /\ Find(h) # Null /\ entryOf[Find(h)] = h
      /\ ~Registered(h) => Find(h) = Null
  BY <1>1, LookedUp
<1>3. ~TouchesFreed(h)
  BY <1>2, Entered DEF TouchesFreed
<1> QED BY <1>1, <1>2, <1>3

LEMMA LateOnes ==
  ASSUME NEW h \in Threads, ~Registered(h), pc[h] # "none" PROVE pc[h] \in Late
  BY DEF Registered, Late, Ended

LEMMA ExecuteKeeps ==
  ASSUME CInv, Careful, Inv', NEW a \in Actors, NEW h \in Threads, Execute(a, h) PROVE CInv'
<1>0. CInv /\ Inv /\ TypeOK /\ Family /\ (a \in Threads => a # Master)
  BY Facts DEF CInv, Inv
<1>1. \A u \in joined : u \in Threads /\ pc[u] \in Late
  BY <1>0 DEF TypeOK, Family
<1>2. LooksUp(a, h)
  BY DEF Execute, Finds
<1>3. PICK place \in {"run", "await"} :
        pc[a] = "run" /\ pc' = [pc EXCEPT ![a] = place]
  BY DEF Execute, At, Goto
<1>4. /\ UNCHANGED <<mapVars, parent, target, mapOwner, freed, cancelled, joined>> /\ ~crashed'
      /\ Find(h) = Null => UNCHANGED <<waitOwner, resumed>>
      /\ Find(h) # Null => /\ waitOwner' = [waitOwner EXCEPT ![entryOf[Find(h)]] = Nobody]
                           /\ resumed' = [resumed EXCEPT ![h] = @ + 1]
  BY DEF Execute, At, countVars, endVars
<1>5. Find(h) # Null => entryOf[Find(h)] = h
  BY <1>2, CareTaken
<1>6. \A u \in Threads : \/ resumed'[u] = resumed[u] /\ waitOwner'[u] = waitOwner[u]
                         \/ resumed'[u] > 0
  BY <1>0, <1>4, <1>5 DEF TypeOK
<1> QED BY <1>0, <1>1, <1>3, <1>4, <1>6, PlaceStep DEF Places, Late, Waiting

LEMMA LookKeeps ==
  ASSUME CInv, Careful, Inv', NEW a \in Actors, NEW h \in Threads,
         Available(a, h) \/ (WaitFind(a, h) /\ Find(h) = Null)
  PROVE  CInv'
<1>0. Inv /\ TypeOK /\ Family /\ WaitersAim /\ Tame
  BY DEF CInv, Inv
<1>1. /\ LooksUp(a, h) /\ Find(h) = Null /\ joined' \in {joined, joined \cup {h}} /\ ~crashed'
      /\ UNCHANGED <<mapVars, pc, target, parent, mapOwner, waitOwner, freed, cancelled, resumed>>
  BY DEF Available, WaitFind, Finds, Sees, LooksUp, At, countVars, waitVars, endVars
<1>2. pc[h] \in Late
  BY <1>1, CareTaken, LateOnes
<1>3. joined \subseteq joined' /\ \A u \in joined' : u \in Threads /\ pc[u] \in Late
  BY <1>0, <1>1, <1>2 DEF TypeOK, Family
<1>4. Steady
  BY <1>1, <1>3 DEF Steady
<1>5. Unhurried /\ Aimed
  BY <1>0, <1>1 DEF Unhurried, Aimed, WaitersAim
<1>6. Orderly
  BY <1>0, <1>1 DEF Orderly, Tame, Inv, TypeOK
<1> QED BY <1>4, <1>5, <1>6, SteadyStep

LEMMA WaitFindKeeps ==
  ASSUME CInv, Careful, Inv', NEW a \in Actors, NEW h \in Threads, WaitFind(a, h), Find(h) # Null
  PROVE  CInv'
<1>0. Inv /\ TypeOK /\ Family /\ WaitersAim /\ Tame
  BY DEF CInv, Inv
<1>1. /\ LooksUp(a, h) /\ pc[a] = "run" /\ a # Master /\ mapOwner = Nobody /\ mapOwner' = a
      /\ MayWait(a, h) /\ target' = [target EXCEPT ![a] = entryOf[Find(h)]]
      /\ pc' = [pc EXCEPT ![a] = "waitLock"] /\ joined' = joined /\ ~crashed'
      /\ UNCHANGED <<mapVars, parent, waitOwner, freed, cancelled, resumed>>
  BY DEF WaitFind, Finds, LooksUp, At, Goto, countVars, waitVars, endVars
<1>2. Registered(h) /\ entryOf[Find(h)] = h /\ pc[h] # "none"
  BY <1>1, CareTaken
<1>3. pc[h] \notin Late
  BY <1>2 DEF Registered, Late, Ended
<1>4. parent[h] = a /\ resumed[h] > 0
  BY <1>1 DEF MayWait, Usable
<1>5. /\ \A b \in Actors : pc'[b] = IF b = a THEN "waitLock" ELSE pc[b]
      /\ \A b \in Actors : target'[b] = IF b = a THEN h ELSE target[b]
  BY <1>0, <1>1, <1>2 DEF TypeOK
<1>6. Steady
  <2>1. joined \subseteq joined' /\ \A u \in joined' : u \in Threads /\ pc[u] \in Late
    BY <1>0, <1>1 DEF TypeOK, Family
  <2>2. \A t \in Threads : /\ pc'[t] = "none" <=> pc[t] = "none"
                           /\ pc'[t] \in Late <=> pc[t] \in Late
                           /\ pc'[t] = "remove" => pc[t] = "remove"
    BY <1>1, <1>5, Facts DEF Late
  <2> QED BY <1>1, <1>5, <2>1, <2>2 DEF Steady
<1>7. Unhurried
  BY <1>1, <1>5, Facts DEF Unhurried
<1>8. Aimed
  <2>1. ASSUME NEW b \in Threads, b # a, pc[b] \in Waiting
        PROVE  /\ target'[b] = target[b] /\ target[b] \in Threads /\ pc'[b] = pc[b] /\ pc[b] # "waitLock"
               /\ pc[b] = "woken" => pc'[target[b]] \in {"free", "done"}
    <3>1. target[b] \in Threads
      BY <1>0, <2>1 DEF Inv, Counted, Waits, Waiting
    <3>2. target'[b] = target[b] /\ pc'[b] = pc[b] /\ b \in Actors /\ b # Nobody
      BY <1>5, <2>1, Facts
    <3>3. pc[b] # "waitLock"
      BY <1>0, <1>1, <2>1, <3>2 DEF WaitersAim
    <3>4. pc[b] = "woken" => pc[target[b]] \in {"free", "done"}
      BY <1>0, <2>1 DEF WaitersAim
    <3> QED BY <1>1, <1>5, <3>1, <3>2, <3>3, <3>4, Facts
  <2>2. target'[a] = h /\ pc'[a] = "waitLock" /\ pc'[h] \notin Late
    BY <1>1, <1>3, <1>5, Facts DEF Late
  <2>3. \A b \in Threads : b # a => pc'[b] = pc[b]
    BY <1>5, Facts
  <2> QED BY <1>1, <1>2, <1>4, <2>1, <2>2, <2>3 DEF Aimed, Waiting
<1>9. Orderly
  <2>1. \A t \in freed : pc'[t] = "done"
    BY <1>0, <1>1, <1>5, Facts DEF Tame, TypeOK
  <2>2. crashed' = FALSE
    BY <1>1 DEF Inv, TypeOK
  <2> QED BY <1>0, <1>1, <1>5, <2>1, <2>2 DEF Orderly, Tame
<1> QED BY <1>6, <1>7, <1>8, <1>9, SteadyStep

LEMMA EndKeeps ==
  ASSUME CInv, Careful, Inv', NEW t \in Threads, End(t) \/ FreeThread(t) PROVE CInv'
<1>0. CInv /\ Inv /\ TypeOK /\ Family /\ t \in Actors /\ t # Master
  BY Facts DEF CInv, Inv
<1>1. \A u \in joined : u \in Threads /\ pc[u] \in Late
  BY <1>0 DEF TypeOK, Family
<1>2. CASE End(t)
  <2>1. /\ pc[t] = "run" /\ pc' = [pc EXCEPT ![t] = "remove"] /\ Children(t) \subseteq joined /\ ~crashed'
        /\ UNCHANGED <<mapVars, parent, target, mapOwner, waitOwner, freed, cancelled, resumed, joined>>
    BY <1>2 DEF End, At, Goto, MayCreateOrEnd, countVars, waitVars, lifeVars, endVars
  <2> QED BY <1>0, <1>1, <2>1, PlaceStep DEF Places, Late, Waiting
<1>3. CASE FreeThread(t)
  <2>1. /\ pc[t] = "free" /\ pc' = [pc EXCEPT ![t] = "done"] /\ freed' = freed \cup {t} /\ ~crashed'
        /\ UNCHANGED <<mapVars, parent, target, mapOwner, waitOwner, cancelled, resumed, joined>>
    BY <1>3 DEF FreeThread, At, Goto, countVars, waitVars, endVars
  <2> QED BY <1>0, <1>1, <2>1, PlaceStep DEF Places, Late, Waiting
<1> QED BY <1>2, <1>3

LEMMA MasterKeeps == ASSUME CInv, Inv', MasterWait PROVE CInv'
<1>0. CInv /\ Inv /\ TypeOK /\ Family /\ Master \in Actors /\ Master \notin Threads
  BY Facts DEF CInv, Inv
<1>1. \A u \in joined : u \in Threads /\ pc[u] \in Late
  BY <1>0 DEF TypeOK, Family
<1>2. /\ pc[Master] = "await" /\ pc' = [pc EXCEPT ![Master] = "sleep"] /\ ~crashed'
      /\ UNCHANGED <<mapVars, parent, target, mapOwner, waitOwner, freed, cancelled, resumed, joined>>
  BY DEF MasterWait, At, Goto, countVars, waitVars, lifeVars, endVars
<1> QED BY <1>0, <1>1, <1>2, PlaceStep DEF Places, Late, Waiting

(* The end is counted and signalled: only those that are late go on.       *)
LEMMA LateKeeps ==
  ASSUME CInv, Inv', NEW t \in Threads, CountDown(t) \/ SignalWaiters(t) PROVE CInv'
<1>0. CInv /\ Inv /\ TypeOK /\ Family /\ WaitersAim /\ Tame /\ t \in Actors /\ t # Master
  BY Facts DEF CInv, Inv
<1>1. \A u \in joined : u \in Threads /\ pc[u] \in Late
  BY <1>0 DEF TypeOK, Family
<1>2. /\ UNCHANGED <<mapVars, parent, target, mapOwner, waitOwner, freed, cancelled, resumed, joined>> /\ ~crashed'
      /\ pc[t] \in {"count", "signal"} /\ pc'[t] \in {"signal", "free"}
      /\ \A a \in Threads \ {t} :
           pc'[a] = pc[a] \/ (pc[a] = "sleep" /\ pc'[a] = "woken" /\ target[a] = t /\ pc'[t] = "free")
      /\ pc'[Master] = pc[Master] \/ (pc[Master] = "sleep" /\ pc'[Master] = "woken")
  <2>1. CASE CountDown(t)
    <3>1. /\ UNCHANGED <<mapVars, parent, target, mapOwner, waitOwner, freed, cancelled, resumed, joined>>
          /\ pc[t] = "count" /\ ~crashed'
          /\ pc' = [pc EXCEPT ![t] = "signal", ![Master] = IF running = 1 /\ @ = "sleep" THEN "woken" ELSE @]
      BY <2>1 DEF CountDown, At, waitVars, lifeVars, endVars
    <3>2. pc'[t] = "signal" /\ \A a \in Threads \ {t} : pc'[a] = pc[a]
      BY <1>0, <3>1, Facts DEF TypeOK
    <3>3. pc'[Master] = pc[Master] \/ (pc[Master] = "sleep" /\ pc'[Master] = "woken")
      BY <1>0, <3>1, Facts DEF TypeOK
    <3> QED BY <3>1, <3>2, <3>3
  <2>2. CASE SignalWaiters(t)
    <3>1. /\ UNCHANGED <<mapVars, parent, target, mapOwner, waitOwner, freed, cancelled, resumed, joined>>
          /\ pc[t] = "signal" /\ ~crashed'
          /\ pc' = [a \in Actors |-> IF a = t THEN "free"
                                     ELSE IF waiting[t] > 0 /\ a \in Sleepers(t) THEN "woken"
                                     ELSE pc[a]]
      BY <2>2 DEF SignalWaiters, At, countVars, waitVars, lifeVars, endVars
    <3>2. pc'[t] = "free" /\ pc'[Master] = pc[Master]
      BY <1>0, <3>1, Facts DEF Sleepers
    <3>3. \A a \in Threads \ {t} : pc'[a] = pc[a] \/ (pc[a] = "sleep" /\ pc'[a] = "woken" /\ target[a] = t)
      BY <1>0, <3>1, Facts DEF Sleepers
    <3> QED BY <3>1, <3>2, <3>3
  <2> QED BY <2>1, <2>2
<1>3. \A a \in Threads : a # t => pc'[a] = pc[a] \/ (pc[a] = "sleep" /\ pc'[a] = "woken" /\ target[a] = t /\ pc'[t] = "free")
  BY <1>2
<1>4. Steady
  <2>1. \A a \in Actors : pc'[a] = "create" <=> pc[a] = "create"
    BY <1>2, <1>3, Facts
  <2>2. \A u \in Threads : /\ pc'[u] = "none" <=> pc[u] = "none"
                           /\ pc'[u] \in Late <=> pc[u] \in Late
                           /\ pc'[u] = "remove" => pc[u] = "remove"
    BY <1>2, <1>3 DEF Late
  <2> QED BY <1>1, <1>2, <2>1, <2>2 DEF Steady
<1>5. Unhurried
  BY <1>2, <1>3 DEF Unhurried
<1>6. Aimed
  <2> SUFFICES ASSUME NEW a \in Threads, pc'[a] \in Waiting
               PROVE  /\ pc[a] \in Waiting
                      /\ pc'[a] = "waitLock" => mapOwner = a /\ pc'[target[a]] \notin Late
                      /\ pc'[a] = "woken" => pc'[target[a]] \in {"free", "done"}
    BY <1>2 DEF Aimed, Waiting
  <2>1. a # t /\ pc[a] \in Waiting
    BY <1>2, <1>3 DEF Waiting
  <2>2. target[a] \in Threads
    BY <1>0, <2>1 DEF Inv, Counted, Waits, Waiting
  <2>3. ASSUME pc'[a] = "waitLock" PROVE mapOwner = a /\ pc'[target[a]] \notin Late
    <3>1. pc[a] = "waitLock"
      BY <1>3, <2>1, <2>3
    <3>2. mapOwner = a /\ pc[target[a]] \notin Late
      BY <1>0, <3>1 DEF WaitersAim
    <3> QED BY <1>4, <2>2, <3>2 DEF Steady
  <2>4. ASSUME pc'[a] = "woken" PROVE pc'[target[a]] \in {"free", "done"}
    <3>1. CASE pc[a] = "woken"
      <4>1. pc[target[a]] \in {"free", "done"}
        BY <1>0, <3>1 DEF WaitersAim
      <4> QED BY <1>2, <1>3, <2>2, <4>1
    <3>2. CASE pc[a] # "woken"
      BY <1>3, <2>1, <2>4, <3>2
    <3> QED BY <3>1, <3>2
  <2> QED BY <2>1, <2>3, <2>4
<1>7. Orderly
  <2>1. \A u \in freed : pc'[u] = "done"
    BY <1>0, <1>2, <1>3 DEF Tame, TypeOK
  <2>2. \A a \in Actors : pc'[a] # "endless"
    BY <1>0, <1>2, <1>3, Facts DEF Tame
  <2>3. crashed' = FALSE
    BY <1>2 DEF Inv, TypeOK
  <2> QED BY <1>0, <1>2, <2>1, <2>2, <2>3 DEF Orderly, Tame
<1> QED BY <1>4, <1>5, <1>6, <1>7, SteadyStep

(* The end of the process, and the two ways of careful clients to crash.   *)
LEMMA LastKeeps ==
  ASSUME CInv, Inv', UNCHANGED <<mapVars, pc, target, parent, mapOwner, waitOwner, lifeVars>>, CarefulFaults'
  PROVE  CInv'
<1>1. UNCHANGED <<mapVars, pc, target, parent, mapOwner, waitOwner, freed, cancelled, resumed, joined>>
  BY DEF lifeVars
<1>2. Registry' = Registry /\ \A t \in Threads : Registered(t)' <=> Registered(t)
  BY <1>1 DEF Registry, Registered
<1>3. Stacked'
  BY <1>1, <1>2, StackKept DEF SameMap, mapVars
<1>4. Family' /\ Quiet'
  BY <1>1 DEF CInv, Family, Quiet, Children
<1>5. Named' /\ Held' /\ WaitersAim' /\ Tame'
  BY <1>1, <1>2 DEF CInv, Named, Held, WaitersAim, Tame, mapVars
<1> QED BY <1>3, <1>4, <1>5 DEF CInv

LEMMA CrashKeeps ==
  ASSUME CInv, Careful, Inv', NEW a \in Actors,
         Fault(a) \/ \E h \in Threads : AbortEnded(a, h)
  PROVE  CInv'
<1>1. UNCHANGED <<mapVars, pc, target, parent, mapOwner, waitOwner, lifeVars>>
  BY DEF Fault, AbortEnded, countVars, waitVars
<1>2. CASE \E h \in Threads : AbortEnded(a, h)
  <2>1. PICK h \in Threads : AbortEnded(a, h)
    BY <1>2
  <2>2. entryOf[Find(h)] \in HasAbort /\ pc[entryOf[Find(h)]] = "remove"
    BY <2>1 DEF AbortEnded
  <2>3. CarefulFaults'
    BY <1>1, <2>2 DEF CarefulFaults
  <2> QED BY <1>1, <2>3, LastKeeps
<1>3. CASE Fault(a)
  <2>1. ~\E h \in Threads : LooksUp(a, h) /\ TouchesFreed(h)
    BY CareTaken
  <2>2. ~(pc[a] = "waitLock" /\ target[a] \in freed)
    <3> SUFFICES ASSUME pc[a] = "waitLock", target[a] \in freed PROVE FALSE
      OBVIOUS
    <3>1. a \in Threads
      BY Facts DEF CInv, Inv, Counted
    <3>2. pc[target[a]] \notin Late /\ pc[target[a]] = "done"
      BY <3>1 DEF CInv, WaitersAim, Tame
    <3> QED BY <3>2 DEF Late
  <2>3. pc[a] = "woken" /\ a # Master /\ target[a] \in freed
    BY <1>3, <2>1, <2>2 DEF Fault, At
  <2>4. CarefulFaults'
    BY <1>1, <2>3, Facts DEF CarefulFaults, lifeVars
  <2> QED BY <1>1, <2>4, LastKeeps
<1> QED BY <1>2, <1>3

-----------------------------------------------------------------------------
(***************************************************************************)
(* Careful clients cancel nobody, and no walk over the map is endless.     *)
(***************************************************************************)
LEMMA LeavesAsNewest ==
  ASSUME CInv, Careful, NEW t \in Threads, pc[t] = "remove", LooksUp(t, handle[t]),
         NEW k \in Nat, NEW b \in [1 .. k -> Blocks], Stack(k, b), Chain(k, b)
  PROVE  /\ t \in Registry /\ handle[t] = t /\ k # 0 /\ k \in 1 .. k /\ entryOf[b[k]] = t
         /\ FindEnds(t) /\ Find(t) = b[k] /\ head = b[k] /\ Find(t) # Null
<1>0. Family /\ Named /\ \A u \in Registry : u \in Threads /\ u \notin joined
  BY Entered DEF CInv
<1>1. handle[t] = t /\ t \in Actors
  BY <1>0, Facts DEF Named
<1>2. t \in Registry /\ Registered(t)
  BY DEF Registry, Registered, Ended
<1>3. FindEnds(t) /\ Find(t) # Null /\ Find(t) \in allocated /\ entryOf[Find(t)] = t
  BY <1>1, <1>2, CareTaken
<1>4. \A u \in Registry : parent[u] # t
  BY <1>0 DEF Family, Children
<1>5. k # 0 /\ k \in 1 .. k /\ entryOf[b[k]] = t
  BY <1>2, <1>4, AtTheHead
<1>6. PICK i \in 1 .. k : Find(t) = b[i]
  BY <1>3 DEF Stack
<1>7. i = k
  BY <1>3, <1>5, <1>6 DEF Chain
<1> QED BY <1>1, <1>2, <1>3, <1>5, <1>6, <1>7 DEF Stack

LEMMA NeverHangs == ASSUME CInv, Careful, NEW a \in Actors, Hang(a) PROVE FALSE
<1>1. PICK h \in Threads : LooksUp(a, h) /\
        \/ ~FindEnds(h)
        \/ pc[a] = "remove" /\ Find(h) # Null /\ ~RemoveEnds(Find(h))
  BY DEF Hang
<1>2. FindEnds(h)
  BY <1>1, CareTaken
<1>3. pc[a] = "remove" /\ h = handle[a] /\ Find(h) # Null /\ ~RemoveEnds(Find(h))
  BY <1>1, <1>2 DEF LooksUp, At
<1>4. a \in Threads
  BY <1>3, Facts DEF CInv, Inv, Counted
<1>5. PICK k \in Nat : \E b \in [1 .. k -> Blocks] : Stack(k, b) /\ Chain(k, b)
  BY StackOf
<1>6. PICK b \in [1 .. k -> Blocks] : Stack(k, b) /\ Chain(k, b)
  BY <1>5
<1>7. handle[a] = a /\ Find(a) = head
  BY <1>1, <1>3, <1>4, <1>6, LeavesAsNewest
<1> QED BY <1>3, <1>7 DEF RemoveEnds

LEMMA NeverCancels ==
  ASSUME CInv, Careful
  PROVE  /\ \A a \in Actors, h \in Threads : ~Abort(a, h)
         /\ \A t \in Threads : ~Cancelled(t)
<1>1. ASSUME NEW a \in Actors, NEW h \in Threads, Abort(a, h) PROVE FALSE
  <2>1. LooksUp(a, h) /\ h \in HasAbort /\ Find(h) # Null /\ entryOf[Find(h)] \notin HasAbort
    BY <1>1 DEF Abort, Finds, MayAbort
  <2>2. entryOf[Find(h)] = h
    BY <2>1, CareTaken
  <2> QED BY <2>1, <2>2
<1>2. \A t \in Threads : ~Cancelled(t)
  BY DEF CInv, Tame, Cancelled
<1> QED BY <1>1, <1>2

-----------------------------------------------------------------------------
(***************************************************************************)
(* The steps that change who is in the map.                                *)
(***************************************************************************)
LEMMA BeginKeeps ==
  ASSUME CInv, Careful, Inv', NEW a \in Actors, NEW t \in Threads, BeginCreate(a, t) PROVE CInv'
<1>0. CInv /\ Inv /\ TypeOK /\ Family /\ Quiet /\ Named /\ WaitersAim /\ Held /\ Tame
  BY DEF CInv, Inv
<1>1. /\ pc[a] = "run" /\ parent[t] = Nobody /\ (a = Master <=> t = Main) /\ Children(a) \subseteq joined
      /\ parent' = [parent EXCEPT ![t] = a] /\ target' = [target EXCEPT ![a] = t]
      /\ pc' = [pc EXCEPT ![a] = "create"] /\ ~crashed'
      /\ UNCHANGED <<mapVars, mapOwner, waitOwner, freed, cancelled, resumed, joined>>
  BY DEF BeginCreate, At, Goto, MayCreateOrEnd, waitVars, lifeVars, endVars
<1>2. /\ \A b \in Actors : pc'[b] = IF b = a THEN "create" ELSE pc[b]
      /\ \A b \in Actors : target'[b] = IF b = a THEN t ELSE target[b]
      /\ \A u \in Threads : parent'[u] = IF u = t THEN a ELSE parent[u]
  BY <1>0, <1>1 DEF TypeOK
<1>3. pc[t] = "none" /\ t # a /\ a # Nobody /\ t \notin joined
  BY <1>0, <1>1, Facts DEF Inv, Counted, Family, Late
<1>4. ~Registered(t) /\ ~Registered(t)'
  BY <1>1, <1>2, <1>3, Facts DEF Registered, Ended
<1>5. ASSUME NEW u \in Threads, u # t PROVE Registered(u)' <=> Registered(u)
  <2>1. (\E b \in Actors : pc'[b] = "create" /\ target'[b] = u)
           <=> (\E b \in Actors : pc[b] = "create" /\ target[b] = u)
    BY <1>1, <1>2, <1>5
  <2>2. parent'[u] = parent[u] /\ (pc'[u] = pc[u] \/ (pc[u] = "run" /\ pc'[u] = "create"))
    BY <1>1, <1>2, <1>5, Facts
  <2> QED BY <2>1, <2>2 DEF Registered, Ended
<1>6. Registry' = Registry /\ t \notin Registry /\ \A u \in Threads : Registered(u)' => Registered(u)
  BY <1>4, <1>5 DEF Registry
<1>7. Stacked'
  <2>1. \A u \in Registry : parent'[u] = parent[u]
    BY <1>2, <1>6 DEF Registry
  <2> QED BY <1>1, <1>6, <2>1, StackKept DEF SameMap, mapVars
<1>8. \A u \in Threads : /\ pc'[u] = pc[u] \/ (u = a /\ pc'[u] = "create" /\ pc[u] = "run")
                         /\ (pc'[u] = "none" <=> pc[u] = "none")
  BY <1>1, <1>2, Facts
<1>9. Family'
  <2>1. \A u \in joined' : pc'[u] \in Late
    BY <1>0, <1>1, <1>8 DEF Family, Late, TypeOK
  <2>2. ASSUME NEW u \in Threads, pc'[u] \in Late \cup {"remove"} PROVE Children(u)' \subseteq joined'
    <3>1. u # a /\ pc'[u] = pc[u]
      BY <1>2, <1>8, <2>2, Facts DEF Late
    <3>2. Children(u)' = Children(u)
      BY <1>1, <1>2, <1>3, <3>1, Facts DEF Children
    <3> QED BY <1>0, <1>1, <2>2, <3>1, <3>2 DEF Family
  <2>3. ASSUME NEW u \in Threads, NEW v \in Threads, parent'[u] = parent'[v], parent'[u] # Nobody,
               u \notin joined', v \notin joined'
        PROVE  u = v
    <3>1. \A w \in Threads : w \notin joined => parent[w] # a
      BY <1>1 DEF Children
    <3> QED BY <1>0, <1>1, <1>2, <2>3, <3>1 DEF Family
  <2>4. \A u \in Threads : parent'[u] = Master <=> u = Main /\ parent'[Main] # Nobody
    BY <1>0, <1>1, <1>2, <1>3, Facts DEF Family
  <2>5. parent'[Main] = Nobody => \A u \in Threads : parent'[u] = Nobody
    <3> SUFFICES ASSUME parent'[Main] = Nobody PROVE FALSE
      OBVIOUS
    <3>1. t # Main /\ a # Master /\ a \in Threads /\ parent[Main] = Nobody
      BY <1>1, <1>2, <1>3, Facts
    <3>2. parent[a] # Nobody
      BY <1>0, <1>1, <3>1 DEF Inv, Counted
    <3> QED BY <1>0, <3>1, <3>2 DEF Family
  <2>6. \A u \in Threads : parent'[u] \in Threads => pc'[parent'[u]] # "none"
    BY <1>0, <1>1, <1>2, <1>8, Facts DEF Family
  <2> QED BY <2>1, <2>2, <2>3, <2>4, <2>5, <2>6 DEF Family
<1>10. Quiet'
  <2>1. \A h \in Threads : pc[h] \in Late => h \in joined
    <3>1. CASE a \in Threads
      <4>1. a \in Registry
        BY <1>1, <3>1 DEF Registry, Registered, Ended
      <4> QED BY <1>1, <4>1, AllSeen
    <3>2. CASE a \notin Threads
      <4>1. \A h \in Threads : parent[h] = Nobody
        BY <1>0, <1>1, <3>2, Facts DEF Family
      <4> QED BY <1>0, <4>1 DEF Inv, Counted, Late
    <3> QED BY <3>1, <3>2
  <2> QED BY <1>1, <1>8, <2>1 DEF Quiet, Late
<1>11. Named'
  BY <1>0, <1>1, <1>6, <1>8 DEF Named, mapVars
<1>12. WaitersAim'
  <2> SUFFICES ASSUME NEW b \in Threads, pc'[b] \in Waiting
               PROVE  /\ parent'[target'[b]] = b /\ resumed'[target'[b]] > 0 /\ pc'[target'[b]] # "none"
                      /\ pc'[b] = "waitLock" => mapOwner' = b /\ pc'[target'[b]] \notin Late
                      /\ pc'[b] = "woken" => pc'[target'[b]] \in {"free", "done"}
    BY DEF WaitersAim, Waiting
  <2>1. b # a /\ pc'[b] = pc[b] /\ target'[b] = target[b]
    BY <1>2, Facts DEF Waiting
  <2>2. target[b] \in Threads /\ parent[target[b]] = b /\ resumed[target[b]] > 0 /\ pc[target[b]] # "none"
    BY <1>0, <2>1 DEF Inv, Counted, Waits, WaitersAim, Waiting
  <2>3. target[b] # t /\ (pc'[target[b]] = pc[target[b]] \/ (pc[target[b]] = "run" /\ pc'[target[b]] = "create"))
    BY <1>1, <1>3, <1>8, <2>2, Facts
  <2> QED BY <1>0, <1>1, <1>2, <2>1, <2>2, <2>3 DEF WaitersAim, Late
<1>13. Held'
  BY <1>0, <1>1, <1>6, <1>8 DEF Held
<1>14. Tame' /\ CarefulFaults'
  <2>1. \A u \in freed : pc'[u] = "done"
    BY <1>0, <1>8 DEF Tame, TypeOK
  <2>2. \A b \in Actors : pc'[b] # "endless"
    BY <1>0, <1>2 DEF Tame
  <2> QED BY <1>0, <1>1, <2>1, <2>2 DEF Tame, CarefulFaults
<1> QED BY <1>7, <1>9, <1>10, <1>11, <1>12, <1>13, <1>14 DEF CInv

LEMMA SpawnKeeps == ASSUME CInv, Inv', NEW a \in Actors, Spawn(a) PROVE CInv'
<1>0. CInv /\ Inv /\ TypeOK /\ Family /\ Quiet /\ Named /\ WaitersAim /\ Held /\ Tame
  BY DEF CInv, Inv
<1>1. pc[a] = "spawn"
  BY DEF Spawn, At
<1>2. PICK t \in Threads : t = target[a]
  BY <1>0, <1>1 DEF Inv, Counted, Creating
<1>3. /\ pc[a] = "spawn" /\ handle' = [handle EXCEPT ![t] = t] /\ ~crashed'
      /\ pc' = [pc EXCEPT ![a] = "run", ![t] = "halt"]
      /\ UNCHANGED <<head, next, entryOf, allocated, target, parent, mapOwner, waitOwner,
                     freed, cancelled, resumed, joined>>
  BY <1>2 DEF Spawn, At, countVars, waitVars, lifeVars, endVars
<1>4. t \in Threads /\ parent[t] = a /\ pc[t] = "none" /\ t # a
  BY <1>0, <1>1, <1>2 DEF Inv, Counted, Creating
<1>5. /\ \A b \in Actors : pc'[b] = IF b = t THEN "halt" ELSE IF b = a THEN "run" ELSE pc[b]
      /\ \A u \in Threads : handle'[u] = IF u = t THEN t ELSE handle[u]
  BY <1>0, <1>3, <1>4 DEF TypeOK, MapTypeOK
<1>6. \A u \in Threads : \/ pc'[u] = pc[u] /\ u # t
                         \/ u = a /\ u # t /\ pc[u] = "spawn" /\ pc'[u] = "run"
                         \/ u = t /\ pc[u] = "none" /\ pc'[u] = "halt"
  BY <1>3, <1>4, <1>5, Facts
<1>7. \A b \in Actors : pc'[b] = "create" <=> pc[b] = "create"
  BY <1>4, <1>5, <1>1
<1>8. \A b \in Actors : pc[b] = "create" => target[b] # t
  BY <1>0, <1>3, <1>4 DEF Inv, Counted, Creating
<1>9. Registered(t) /\ Registered(t)'
  <2>1. parent' = parent /\ target' = target /\ pc'[t] = "halt"
    BY <1>3, <1>4, <1>5, Facts
  <2>2. Registered(t)
    BY <1>4, <1>8, Facts DEF Registered
  <2>3. Registered(t)'
    BY <2>1 DEF Registered, Ended
  <2> QED BY <2>2, <2>3
<1>10. ASSUME NEW u \in Threads, u # t PROVE Registered(u)' <=> Registered(u)
  <2>1. (\E b \in Actors : pc'[b] = "create" /\ target'[b] = u)
           <=> (\E b \in Actors : pc[b] = "create" /\ target[b] = u)
    BY <1>3, <1>7
  <2>2. parent' = parent /\ (pc'[u] = pc[u] \/ (pc[u] = "spawn" /\ pc'[u] = "run"))
    BY <1>3, <1>6, <1>10
  <2> QED BY <2>1, <2>2 DEF Registered, Ended
<1>11. Registry' = Registry /\ \A u \in Threads : Registered(u)' <=> Registered(u)
  BY <1>9, <1>10 DEF Registry
<1>12. Stacked'
  BY <1>3, <1>11, StackKept DEF SameMap
<1>13. Family'
  <2>1. \A u \in joined : pc'[u] \in Late
    BY <1>0, <1>6 DEF Family, Late, TypeOK
  <2>2. \A u \in Threads : pc'[u] \in Late \cup {"remove"} => Children(u) \subseteq joined
    BY <1>0, <1>6 DEF Family, Late
  <2>3. \A u \in Threads : parent[u] \in Threads => pc'[parent[u]] # "none"
    BY <1>0, <1>6 DEF Family
  <2>4. parent' = parent /\ joined' = joined /\ \A u \in Threads : Children(u)' = Children(u)
    BY <1>3 DEF Children
  <2> QED BY <1>0, <2>1, <2>2, <2>3, <2>4 DEF Family
<1>14. Quiet'
  BY <1>0, <1>3, <1>6, <1>7 DEF Quiet, Late
<1>15. Named'
  BY <1>0, <1>3, <1>5, <1>6, <1>11 DEF Named
<1>16. WaitersAim'
  <2> SUFFICES ASSUME NEW b \in Threads, pc'[b] \in Waiting
               PROVE  /\ parent[target[b]] = b /\ resumed[target[b]] > 0 /\ pc'[target[b]] # "none"
                      /\ pc'[b] = "waitLock" => mapOwner = b /\ pc'[target[b]] \notin Late
                      /\ pc'[b] = "woken" => pc'[target[b]] \in {"free", "done"}
    BY <1>3 DEF WaitersAim, Waiting
  <2>1. pc'[b] = pc[b]
    BY <1>6 DEF Waiting
  <2>2. target[b] \in Threads /\ parent[target[b]] = b /\ resumed[target[b]] > 0 /\ pc[target[b]] # "none"
    BY <1>0, <2>1 DEF Inv, Counted, Waits, WaitersAim, Waiting
  <2>3. pc'[target[b]] = pc[target[b]] \/ (pc[target[b]] = "spawn" /\ pc'[target[b]] = "run")
    BY <1>6, <2>2
  <2> QED BY <1>0, <2>1, <2>2, <2>3 DEF WaitersAim, Late
<1>17. Held'
  BY <1>0, <1>3, <1>6, <1>11 DEF Held
<1>18. Tame' /\ CarefulFaults'
  <2>1. \A u \in freed : pc'[u] = "done"
    BY <1>0, <1>6 DEF Tame, TypeOK
  <2>2. \A b \in Actors : pc'[b] # "endless"
    BY <1>0, <1>5 DEF Tame
  <2> QED BY <1>0, <1>3, <2>1, <2>2 DEF Tame, CarefulFaults
<1> QED BY <1>12, <1>13, <1>14, <1>15, <1>16, <1>17, <1>18 DEF CInv

(* The thread goes in front of its creator. *)
LEMMA InsertKeeps == ASSUME CInv, Inv', NEW a \in Actors, InsertThread(a) PROVE CInv'
<1>0. CInv /\ Inv /\ TypeOK /\ MapTypeOK /\ Family /\ Quiet /\ Named /\ WaitersAim /\ Held /\ Tame
  BY DEF CInv, Inv, TypeOK
<1>1. pc[a] = "create"
  BY DEF InsertThread, At
<1>2. PICK t \in Threads : t = target[a]
  BY <1>0, <1>1 DEF Inv, Counted, Creating
<1>3. PICK stale \in {Null} \cup freed : Insert(t, stale)
  BY <1>2 DEF InsertThread
<1>4. PICK x \in Blocks \ allocated :
        /\ allocated' = allocated \cup {x} /\ entryOf' = [entryOf EXCEPT ![x] = t]
        /\ next' = [next EXCEPT ![x] = head] /\ head' = x
  BY <1>3 DEF Insert
<1>5. /\ pc' = [pc EXCEPT ![a] = "spawn"] /\ handle' = [handle EXCEPT ![t] = stale] /\ ~crashed'
      /\ waitOwner' = [waitOwner EXCEPT ![t] = a]
      /\ UNCHANGED <<target, parent, mapOwner, freed, cancelled, resumed, joined>>
  BY <1>2, <1>3 DEF InsertThread, Insert, At, Goto, countVars, lifeVars, endVars
<1>6. parent[t] = a /\ pc[t] = "none" /\ t # a
  BY <1>0, <1>1, <1>2 DEF Inv, Counted, Creating
<1>7. /\ \A b \in Actors : pc'[b] = IF b = a THEN "spawn" ELSE pc[b]
      /\ \A u \in Threads : handle'[u] = IF u = t THEN stale ELSE handle[u]
      /\ \A u \in Threads : waitOwner'[u] = IF u = t THEN a ELSE waitOwner[u]
  BY <1>0, <1>5 DEF TypeOK, MapTypeOK
<1>8. \A u \in Threads : pc'[u] = pc[u] \/ (u = a /\ pc[u] = "create" /\ pc'[u] = "spawn")
  BY <1>1, <1>7, Facts
<1>9. \A b \in Actors : b # a /\ pc[b] = "create" => target[b] # t
  BY <1>0, <1>6 DEF Inv, Counted, Creating
<1>10. Registered(t)'
  <2>1. parent' = parent /\ target' = target /\ pc'[t] = "none"
    BY <1>5, <1>6, <1>7, Facts
  <2>2. ~\E b \in Actors : pc'[b] = "create" /\ target'[b] = t
    BY <1>7, <1>9, <2>1
  <2> QED BY <1>6, <2>1, <2>2, Facts DEF Registered
<1>11. ASSUME NEW u \in Threads, u # t PROVE Registered(u)' <=> Registered(u)
  <2>1. (\E b \in Actors : pc'[b] = "create" /\ target'[b] = u)
           <=> (\E b \in Actors : pc[b] = "create" /\ target[b] = u)
    BY <1>2, <1>5, <1>7, <1>11
  <2>2. parent' = parent /\ (pc'[u] = pc[u] \/ (pc[u] = "create" /\ pc'[u] = "spawn"))
    BY <1>5, <1>8
  <2> QED BY <2>1, <2>2 DEF Registered, Ended
<1>12. Registry' = Registry \cup {t}
  BY <1>10, <1>11 DEF Registry
<1>13. Stacked'
  <2>1. PICK k \in Nat : \E b \in [1 .. k -> Blocks] : Stack(k, b) /\ Chain(k, b)
    BY StackOf
  <2>2. PICK b \in [1 .. k -> Blocks] : Stack(k, b) /\ Chain(k, b)
    BY <2>1
  <2> DEFINE c == [i \in 1 .. k + 1 |-> IF i = k + 1 THEN x ELSE b[i]]
  <2>3. Stack(k + 1, c)'
    BY <1>0, <1>4, <2>2, StackPushed
  <2>4. /\ t \notin Registry /\ (a = Master => k = 0)
        /\ a # Master => k # 0 /\ k \in 1 .. k /\ entryOf[b[k]] = a
    BY <1>1, <1>2, <2>2, CreatorNewest
  <2>5. \A i \in 1 .. k + 1 : i = k + 1 \/ (i \in 1 .. k /\ i # k + 1)
    OBVIOUS
  <2>6. /\ \A i \in 1 .. k : b[i] \in allocated /\ b[i] \in Blocks /\ i \in 1 .. k + 1 /\ i # k + 1
        /\ k + 1 \in 1 .. k + 1
    <3>1. allocated = {b[i] : i \in 1 .. k}
      BY <2>2 DEF Stack
    <3>2. \A i \in 1 .. k : i \in 1 .. k + 1 /\ i # k + 1
      OBVIOUS
    <3> QED BY <3>1, <3>2
  <2>7. c[k + 1] = x /\ \A i \in 1 .. k : c[i] = b[i]
    BY <2>6
  <2>8. c \in [1 .. k + 1 -> Blocks]
    BY <2>3 DEF Stack
  <2> HIDE DEF c
  <2>9. entryOf'[c[k + 1]] = t /\ \A i \in 1 .. k : entryOf'[c[i]] = entryOf[b[i]]
    BY <1>0, <1>4, <2>6, <2>7 DEF MapTypeOK
  <2>10. {entryOf'[c[i]] : i \in 1 .. k + 1} = Registry'
    <3>1. {entryOf[b[i]] : i \in 1 .. k} = Registry
      BY <2>2 DEF Chain
    <3>2. \A i \in 1 .. k + 1 : entryOf'[c[i]] \in Registry \cup {t}
      BY <2>5, <2>9, <3>1
    <3>3. \A u \in Registry \cup {t} : \E i \in 1 .. k + 1 : entryOf'[c[i]] = u
      BY <2>6, <2>9, <3>1
    <3> QED BY <1>12, <3>2, <3>3
  <2>11. \A i, j \in 1 .. k + 1 : entryOf'[c[i]] = entryOf'[c[j]] => i = j
    <3>1. \A i \in 1 .. k : entryOf[b[i]] \in Registry
      BY <2>2 DEF Chain
    <3>2. \A i, j \in 1 .. k : entryOf[b[i]] = entryOf[b[j]] => i = j
      BY <2>2 DEF Chain
    <3> QED BY <2>4, <2>5, <2>9, <3>1, <3>2
  <2>12. ASSUME NEW i \in 1 .. k + 1
         PROVE  parent'[entryOf'[c[i]]] = IF i = 1 THEN Master ELSE entryOf'[c[i - 1]]
    <3>1. CASE i = k + 1
      <4>1. i - 1 = k /\ (i = 1 <=> k = 0) /\ parent'[entryOf'[c[i]]] = a
        BY <1>5, <1>6, <2>9, <3>1
      <4>2. CASE a = Master
        BY <2>4, <4>1, <4>2
      <4>3. CASE a # Master
        <5>1. entryOf'[c[k]] = a /\ k # 0
          BY <2>4, <2>9, <4>3
        <5> QED BY <4>1, <5>1
      <4> QED BY <4>2, <4>3
    <3>2. CASE i # k + 1
      <4>1. i \in 1 .. k /\ (i # 1 => i - 1 \in 1 .. k)
        BY <3>2
      <4>2. parent[entryOf[b[i]]] = IF i = 1 THEN Master ELSE entryOf[b[i - 1]]
        BY <2>2, <4>1 DEF Chain
      <4> QED BY <1>5, <2>9, <4>1, <4>2
    <3> QED BY <3>1, <3>2
  <2>13. Chain(k + 1, c)'
    BY <2>10, <2>11, <2>12 DEF Chain
  <2>14. k + 1 \in 0 .. Cardinality(Blocks)
    <3>1. allocated' \subseteq Blocks /\ IsFiniteSet(Blocks) /\ k + 1 = Cardinality(allocated')
      BY <1>0, <1>4, <2>3, MapAssumption DEF MapTypeOK, Stack
    <3>2. Cardinality(allocated') <= Cardinality(Blocks)
      BY <3>1, FS_Subset
    <3> QED BY <3>1, <3>2, BlocksCounted
  <2> QED BY <2>3, <2>8, <2>13, <2>14 DEF Stacked
<1>14. Family'
  <2>1. \A u \in joined : pc'[u] \in Late
    BY <1>0, <1>8 DEF Family, Late, TypeOK
  <2>2. \A u \in Threads : pc'[u] \in Late \cup {"remove"} => Children(u) \subseteq joined
    BY <1>0, <1>8 DEF Family, Late
  <2>3. \A u \in Threads : parent[u] \in Threads => pc'[parent[u]] # "none"
    BY <1>0, <1>8 DEF Family
  <2>4. parent' = parent /\ joined' = joined /\ \A u \in Threads : Children(u)' = Children(u)
    BY <1>5 DEF Children
  <2> QED BY <1>0, <2>1, <2>2, <2>3, <2>4 DEF Family
<1>15. Quiet'
  BY <1>0, <1>1, <1>5, <1>8 DEF Quiet, Late
<1>16. Named'
  <2>1. stale \in {Null} \cup joined
    BY <1>0, <1>1 DEF Quiet, Tame, Late, TypeOK
  <2> SUFFICES ASSUME NEW u \in Threads
               PROVE  /\ pc'[u] # "none" => handle'[u] = u
                      /\ pc'[u] = "none" /\ Registered(u)' => handle'[u] \in {Null} \cup joined'
    BY DEF Named
  <2>2. CASE u = t
    BY <1>5, <1>6, <1>7, <2>1, <2>2, Facts
  <2>3. CASE u # t
    <3>1. handle'[u] = handle[u] /\ (pc'[u] = "none" <=> pc[u] = "none") /\ joined' = joined
      BY <1>5, <1>7, <1>8, <2>3
    <3> QED BY <1>0, <1>11, <2>3, <3>1 DEF Named
  <2> QED BY <2>2, <2>3
<1>17. WaitersAim'
  <2> SUFFICES ASSUME NEW b \in Threads, pc'[b] \in Waiting
               PROVE  /\ parent[target[b]] = b /\ resumed[target[b]] > 0 /\ pc'[target[b]] # "none"
                      /\ pc'[b] = "waitLock" => mapOwner = b /\ pc'[target[b]] \notin Late
                      /\ pc'[b] = "woken" => pc'[target[b]] \in {"free", "done"}
    BY <1>5 DEF WaitersAim, Waiting
  <2>1. pc'[b] = pc[b]
    BY <1>8 DEF Waiting
  <2>2. target[b] \in Threads /\ parent[target[b]] = b /\ resumed[target[b]] > 0 /\ pc[target[b]] # "none"
    BY <1>0, <2>1 DEF Inv, Counted, Waits, WaitersAim, Waiting
  <2>3. pc'[target[b]] = pc[target[b]] \/ (pc[target[b]] = "create" /\ pc'[target[b]] = "spawn")
    BY <1>8, <2>2
  <2> QED BY <1>0, <2>1, <2>2, <2>3 DEF WaitersAim, Late
<1>18. Held'
  <2>1. \A u \in Threads : pc'[u] \notin {"none", "halt"} => resumed'[u] > 0
    BY <1>0, <1>5, <1>8 DEF Held
  <2>2. \A u \in Threads : Registered(u)' /\ resumed'[u] = 0 => waitOwner'[u] # Nobody
    BY <1>0, <1>5, <1>7, <1>11, Facts DEF Held
  <2> QED BY <2>1, <2>2 DEF Held
<1>19. Tame' /\ CarefulFaults'
  <2>1. \A u \in freed : pc'[u] = "done"
    BY <1>0, <1>8 DEF Tame, TypeOK
  <2>2. \A b \in Actors : pc'[b] # "endless"
    BY <1>0, <1>7 DEF Tame
  <2> QED BY <1>0, <1>5, <2>1, <2>2 DEF Tame, CarefulFaults
<1> QED BY <1>13, <1>14, <1>15, <1>16, <1>17, <1>18, <1>19 DEF CInv

(* A thread leaves the map as the newest one in it. *)
LEMMA RemoveKeeps ==
  ASSUME CInv, Careful, Inv', NEW t \in Threads, RemoveThread(t) PROVE CInv'
<1>0. CInv /\ Inv /\ TypeOK /\ MapTypeOK /\ Family /\ Quiet /\ Named /\ WaitersAim /\ Held /\ Tame
  BY DEF CInv, Inv, TypeOK
<1>1. PICK k \in Nat : \E b \in [1 .. k -> Blocks] :
        k \in 0 .. Cardinality(Blocks) /\ Stack(k, b) /\ Chain(k, b)
  BY StackOf
<1>2. PICK b \in [1 .. k -> Blocks] : k \in 0 .. Cardinality(Blocks) /\ Stack(k, b) /\ Chain(k, b)
  BY <1>1
<1>3. pc[t] = "remove" /\ LooksUp(t, handle[t]) /\ mapOwner = Nobody
  BY DEF RemoveThread, At, Finds
<1>4. /\ t \in Registry /\ handle[t] = t /\ k # 0 /\ k \in 1 .. k /\ entryOf[b[k]] = t
      /\ Find(t) = b[k] /\ Find(t) # Null
  BY <1>2, <1>3, LeavesAsNewest
<1>5. /\ Remove(b[k]) /\ pc' = [pc EXCEPT ![t] = "count"] /\ ~crashed'
      /\ UNCHANGED <<target, parent, mapOwner, waitOwner, freed, cancelled, resumed, joined>>
  BY <1>4 DEF RemoveThread, At, Goto, countVars, waitVars, lifeVars, endVars
<1>6. entryOf' = entryOf /\ handle' = handle
  BY <1>5 DEF Remove
<1>7. \A a \in Actors : pc'[a] = IF a = t THEN "count" ELSE pc[a]
  BY <1>0, <1>5 DEF TypeOK
<1>8. \A u \in Threads : (pc'[u] = pc[u] /\ u # t) \/ (u = t /\ pc[u] = "remove" /\ pc'[u] = "count")
  BY <1>3, <1>7, Facts
<1>9. \A a \in Actors : pc[a] # "create" /\ pc'[a] # "create"
  <2>1. ASSUME NEW a \in Actors, pc[a] = "create" PROVE FALSE
    <3>1. a # t
      BY <1>3, <2>1
    <3> QED BY <1>2, <1>4, <2>1, <3>1, CreatorNewest
  <2> QED BY <1>7, <2>1
<1>10. ~Registered(t)' /\ \A u \in Threads : u # t => (Registered(u)' <=> Registered(u))
  <2>1. parent' = parent /\ target' = target /\ pc'[t] = "count"
    BY <1>5, <1>8
  <2>2. ~Registered(t)'
    BY <2>1 DEF Registered
  <2>3. ASSUME NEW u \in Threads, u # t PROVE Registered(u)' <=> Registered(u)
    BY <1>8, <1>9, <2>1, <2>3 DEF Registered
  <2> QED BY <2>2, <2>3
<1>11. Registry' = Registry \ {t}
  BY <1>10 DEF Registry
<1>12. Stacked'
  <2> DEFINE c == [i \in 1 .. k - 1 |-> b[i]]
  <2>1. Stack(k - 1, c)'
    BY <1>0, <1>2, <1>4, <1>5, StackPopped
  <2>2. /\ \A i \in 1 .. k : i = k \/ i \in 1 .. k - 1
        /\ \A i \in 1 .. k - 1 : i \in 1 .. k /\ i # k /\ (i # 1 => i - 1 \in 1 .. k - 1)
        /\ k - 1 \in 0 .. Cardinality(Blocks)
    BY <1>2, <1>4, BlocksCounted
  <2>3. \A i \in 1 .. k - 1 : c[i] = b[i]
    OBVIOUS
  <2>4. c \in [1 .. k - 1 -> Blocks]
    BY <2>2
  <2> HIDE DEF c
  <2>5. /\ {entryOf[b[i]] : i \in 1 .. k} = Registry
        /\ \A i, j \in 1 .. k : entryOf[b[i]] = entryOf[b[j]] => i = j
        /\ \A i \in 1 .. k : parent[entryOf[b[i]]] = IF i = 1 THEN Master ELSE entryOf[b[i - 1]]
    BY <1>2 DEF Chain
  <2>6. {entryOf[c[i]] : i \in 1 .. k - 1} = Registry \ {t}
    <3>1. \A i \in 1 .. k - 1 : entryOf[c[i]] \in Registry \ {t}
      BY <1>4, <2>2, <2>3, <2>5
    <3>2. \A u \in Registry \ {t} : \E i \in 1 .. k - 1 : entryOf[c[i]] = u
      BY <1>4, <2>2, <2>3, <2>5
    <3> QED BY <3>1, <3>2
  <2>7. \A i, j \in 1 .. k - 1 : entryOf[c[i]] = entryOf[c[j]] => i = j
    BY <2>2, <2>3, <2>5
  <2>8. \A i \in 1 .. k - 1 : parent[entryOf[c[i]]] = IF i = 1 THEN Master ELSE entryOf[c[i - 1]]
    BY <2>2, <2>3, <2>5
  <2>9. Chain(k - 1, c)'
    BY <1>5, <1>6, <1>11, <2>6, <2>7, <2>8 DEF Chain
  <2> QED BY <2>1, <2>2, <2>4, <2>9 DEF Stacked
<1>13. Family'
  <2>1. \A u \in joined : pc'[u] \in Late
    BY <1>0, <1>8 DEF Family, Late, TypeOK
  <2>2. \A u \in Threads : pc'[u] \in Late \cup {"remove"} => Children(u) \subseteq joined
    BY <1>0, <1>8 DEF Family
  <2>3. \A u \in Threads : parent[u] \in Threads => pc'[parent[u]] # "none"
    BY <1>0, <1>8 DEF Family
  <2>4. parent' = parent /\ joined' = joined /\ \A u \in Threads : Children(u)' = Children(u)
    BY <1>5 DEF Children
  <2> QED BY <1>0, <2>1, <2>2, <2>3, <2>4 DEF Family
<1>14. Quiet' /\ Named'
  <2>1. Quiet'
    BY <1>9 DEF Quiet
  <2>2. Named'
    BY <1>0, <1>5, <1>6, <1>8, <1>10 DEF Named
  <2> QED BY <2>1, <2>2
<1>15. WaitersAim'
  <2> SUFFICES ASSUME NEW b_ \in Threads, pc'[b_] \in Waiting
               PROVE  /\ parent[target[b_]] = b_ /\ resumed[target[b_]] > 0 /\ pc'[target[b_]] # "none"
                      /\ pc'[b_] = "waitLock" => mapOwner = b_ /\ pc'[target[b_]] \notin Late
                      /\ pc'[b_] = "woken" => pc'[target[b_]] \in {"free", "done"}
    BY <1>5 DEF WaitersAim, Waiting
  <2>1. pc'[b_] = pc[b_]
    BY <1>8 DEF Waiting
  <2>2. target[b_] \in Threads /\ parent[target[b_]] = b_ /\ resumed[target[b_]] > 0 /\ pc[target[b_]] # "none"
    BY <1>0, <2>1 DEF Inv, Counted, Waits, WaitersAim, Waiting
  <2>3. pc[b_] # "waitLock"
    BY <1>0, <1>3, Facts DEF WaitersAim
  <2>4. pc'[target[b_]] = pc[target[b_]] \/ (pc[target[b_]] = "remove" /\ pc'[target[b_]] = "count")
    BY <1>8, <2>2
  <2> QED BY <1>0, <2>1, <2>2, <2>3, <2>4 DEF WaitersAim
<1>16. Held'
  BY <1>0, <1>5, <1>8, <1>10 DEF Held
<1>17. Tame' /\ CarefulFaults'
  <2>1. \A u \in freed : pc'[u] = "done"
    BY <1>0, <1>8 DEF Tame, TypeOK
  <2>2. \A a \in Actors : pc'[a] # "endless"
    BY <1>0, <1>7 DEF Tame
  <2> QED BY <1>0, <1>5, <2>1, <2>2 DEF Tame, CarefulFaults
<1> QED BY <1>12, <1>13, <1>14, <1>15, <1>16, <1>17 DEF CInv

LEMMA StutterKeeps == ASSUME CInv, Inv', UNCHANGED vars \/ MasterReturn PROVE CInv'
<1>1. /\ UNCHANGED <<mapVars, pc, target, parent, mapOwner, waitOwner, lifeVars>>
      /\ crashed' = crashed
  BY DEF MasterReturn, vars, countVars, waitVars, endVars
<1>2. CarefulFaults'
  BY <1>1 DEF CInv, CarefulFaults, lifeVars
<1> QED BY <1>1, <1>2, LastKeeps

LEMMA CInvStep == ASSUME Careful PROVE CInv /\ [Next]_vars => CInv'
<1> SUFFICES ASSUME CInv, [Next]_vars PROVE CInv'
  OBVIOUS
<1>0. Inv'
  BY InvStep DEF CInv
<1>1. CASE \E a \in Actors : Client(a)
  <2>1. PICK a \in Actors, h \in Threads :
          BeginCreate(a, h) \/ Execute(a, h) \/ WaitFind(a, h) \/ Available(a, h) \/ AbortEnded(a, h)
    BY <1>1, NeverCancels DEF Client
  <2> QED BY <1>0, <2>1, BeginKeeps, ExecuteKeeps, LookKeeps, WaitFindKeeps, CrashKeeps
<1>2. CASE \E a \in Actors : Creation(a)
  BY <1>0, <1>2, InsertKeeps, SpawnKeeps, SpawnFailsKeeps DEF Creation
<1>3. CASE \E a \in Actors : Fault(a) \/ Hang(a)
  BY <1>0, <1>3, CrashKeeps, NeverHangs
<1>4. CASE \E t \in Threads : Library(t) \/ End(t) \/ Cancelled(t)
  BY <1>0, <1>4, StartKeeps, RemoveKeeps, LateKeeps, EndKeeps, WaitKeeps, NeverCancels DEF Library
<1>5. CASE MasterWait \/ MasterReturn \/ UNCHANGED vars
  BY <1>0, <1>5, MasterKeeps, StutterKeeps
<1> QED BY <1>1, <1>2, <1>3, <1>4, <1>5 DEF Next

LEMMA AlwaysCInv == ASSUME Careful PROVE Spec => []CInv
  BY CInvInit, CInvStep, PTL DEF Spec

(***************************************************************************)
(* With clients that see the end of one thread before they create another  *)
(* or end themselves, the map is exact: zs__thread_map_remove only ever    *)
(* removes the newest entry, so that its loop with the wrong test is never *)
(* entered, every walk ends, and it reads the threads in the map and       *)
(* nothing that is freed.                                                  *)
(***************************************************************************)
THEOREM CarefulMap == ASSUME Careful PROVE Spec => []MapExact
<1>1. CInv => MapExact
  <2> SUFFICES ASSUME CInv PROVE MapExact
    OBVIOUS
  <2>1. PICK k \in Nat : \E b \in [1 .. k -> Blocks] : Stack(k, b) /\ Chain(k, b)
    BY StackOf
  <2>2. PICK b \in [1 .. k -> Blocks] : Stack(k, b) /\ Chain(k, b)
    BY <2>1
  <2>3. MapTypeOK
    BY DEF CInv, Inv, TypeOK
  <2>4. /\ k \in DOMAIN Walk /\ DOMAIN Walk = 0 .. Cardinality(Blocks) /\ Cardinality(Blocks) \in Nat
        /\ \A n \in DOMAIN Walk : Walk[n] = IF n < k THEN b[k - n] ELSE Null
    BY <2>2, <2>3, StackWalked, WalkSteps, BlocksCounted
  <2>5. Walk[k] = Null
    BY <2>4
  <2>6. allocated = {b[i] : i \in 1 .. k} /\ Null \notin allocated
    BY <2>2, <2>3, MapAssumption DEF Stack, MapTypeOK
  <2>7. \A n \in DOMAIN Walk : Walk[n] = Null \/ Walk[n] \in allocated
    <3> SUFFICES ASSUME NEW n \in DOMAIN Walk, n < k PROVE Walk[n] \in allocated
      BY <2>4
    <3>1. k - n \in 1 .. k /\ Walk[n] = b[k - n]
      BY <2>4
    <3> QED BY <2>6, <3>1
  <2>8. \A x \in allocated : \E n \in DOMAIN Walk : Walk[n] = x
    <3> SUFFICES ASSUME NEW i \in 1 .. k PROVE \E n \in DOMAIN Walk : Walk[n] = b[i]
      BY <2>6
    <3>1. k - i \in DOMAIN Walk /\ k - i < k /\ k - (k - i) = i
      BY <2>4
    <3> QED BY <2>4, <3>1
  <2>9. {Walk[n] : n \in DOMAIN Walk} \ {Null} = allocated
    BY <2>6, <2>7, <2>8
  <2>10. {entryOf[x] : x \in allocated} = {t \in Threads : Registered(t)}
    BY <2>2, <2>6 DEF Chain, Registry
  <2> QED BY <2>4, <2>5, <2>9, <2>10 DEF MapExact
<1> QED BY <1>1, AlwaysCInv, PTL

(***************************************************************************)
(* Of careful clients, the function of a thread never runs before a        *)
(* zs__thread_execute of it, and has ended when zs__thread_wait or         *)
(* zs__thread_available has told its creator so.                           *)
(***************************************************************************)
THEOREM CarefulLife == ASSUME Careful PROVE Spec => []LifeInOrder
<1>1. CInv => LifeInOrder
  BY DEF CInv, Held, Family, LifeInOrder, Late, Ended
<1> QED BY <1>1, AlwaysCInv, PTL

(***************************************************************************)
(* Careful clients meet freed memory in two ways only, however many they   *)
(* are: zs__thread_wait locks the mutex of a thread that freed it, and     *)
(* zs__thread_abort calls the abort function of a thread that has ended.   *)
(***************************************************************************)
THEOREM CarefulMemory == ASSUME Careful PROVE Spec => []CarefulFaults
<1>1. CInv => CarefulFaults
  BY DEF CInv
<1> QED BY <1>1, AlwaysCInv, PTL
=============================================================================
