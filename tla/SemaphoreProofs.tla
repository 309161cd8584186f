--------------------------- MODULE SemaphoreProofs ---------------------------
(***************************************************************************)
(* Lemmas about the calls of ZsSemaphore, for MessageLoopProofs and        *)
(* SemaphoreClientsProofs.                                                 *)
(***************************************************************************)
EXTENDS ZsSemaphore, TLAPS

(***************************************************************************)
(* The arithmetic of unsigned int and of the conversion of a_value to      *)
(* sem_op, which keeps 1 and -1.                                           *)
(***************************************************************************)
LEMMA SmallMod == ASSUME NEW m \in Nat \ {0}, NEW k \in Nat, k < m PROVE k % m = k
  OBVIOUS

LEMMA ModRange == ASSUME NEW n \in Int PROVE n % RefMod \in 0 .. RefMod - 1
  BY SemaphoreAssumption

LEMMA ShortOfOne == Short(1) = 1 /\ Short(-1) = -1
<1> DEFINE m == 2 * ShortMax + 2
<1>1. /\ m \in Nat \ {0} /\ ShortMax + 2 \in Nat /\ ShortMax + 2 < m
      /\ ShortMax \in Nat /\ ShortMax < m
  BY SemaphoreAssumption
<1> HIDE DEF m
<1>2. (ShortMax + 2) % m = ShortMax + 2 /\ ShortMax % m = ShortMax
  BY <1>1, SmallMod
<1>3. Short(1) = ((ShortMax + 2) % m) - ShortMax - 1
  BY SemaphoreAssumption DEF Short, m
<1>4. Short(-1) = (ShortMax % m) - ShortMax - 1
  BY SemaphoreAssumption DEF Short, m
<1> QED BY <1>2, <1>3, <1>4, SemaphoreAssumption

-----------------------------------------------------------------------------
(***************************************************************************)
(* Type correctness, of every call by itself.                              *)
(***************************************************************************)
LEMMA BeginType ==
  ASSUME SemTypeOK, NEW t \in Threads, NEW kind \in {"op", "duplicate", "destroy"},
         NEW id \in Nat, NEW value \in Int, NEW timed \in BOOLEAN,
         NEW first \in Stages, Begin(t, kind, id, value, timed, first)
  PROVE  SemTypeOK'
<1>1. [kind |-> kind, id |-> id, value |-> value, timed |-> timed] \in Calls
  BY DEF Calls
<1>2. stage' \in [Threads -> Stages] /\ call' \in [Threads -> Calls]
  BY <1>1 DEF Begin, SemTypeOK
<1> QED BY <1>2 DEF Begin, SemTypeOK

LEMMA OpType ==
  ASSUME SemTypeOK, NEW t \in Threads, NEW id \in Nat, NEW value \in Int,
         NEW timed \in BOOLEAN, Op(t, id, value, timed)
  PROVE  SemTypeOK'
  BY BeginType DEF Op, Stages

LEMMA DestroyType ==
  ASSUME SemTypeOK, NEW t \in Threads, Destroy(t) PROVE SemTypeOK'
<1>1. Begin(t, "destroy", 0, 0, FALSE, "dec")
  BY DEF Destroy
<1>2. "dec" \in Stages /\ 0 \in Nat /\ 0 \in Int /\ FALSE \in BOOLEAN
  BY DEF Stages
<1> QED BY <1>1, <1>2, BeginType

LEMMA IncrementType ==
  ASSUME SemTypeOK, NEW t \in Threads, Increment(t) PROVE SemTypeOK'
<1>1. ASSUME NEW base \in Int, IncrementFrom(t, base) PROVE SemTypeOK'
  <2>1. references' \in 0 .. RefMod - 1
    BY <1>1, ModRange DEF IncrementFrom
  <2>2. AfterIncrement(call[t]) \in Stages
    BY DEF AfterIncrement, Stages
  <2> QED BY <1>1, <2>1, <2>2 DEF IncrementFrom, SemTypeOK
<1>2. references \in Int /\ loaded[t] \in Int
  BY SemaphoreAssumption DEF SemTypeOK
<1>3. CASE Load(t, "inc", "incStore")
  BY <1>3 DEF Load, SemTypeOK, Stages
<1> QED BY <1>1, <1>2, <1>3 DEF Increment

LEMMA DecrementType ==
  ASSUME SemTypeOK, NEW t \in Threads, Decrement(t) PROVE SemTypeOK'
<1>1. \A n \in 0 .. RefMod - 1 : Less(n) \in 0 .. RefMod - 1
  BY ModRange DEF Less
<1>2. CASE ~Smp /\ references' = Less(references) /\ EndDestroy(t, Less(references))
  BY <1>1, <1>2 DEF EndDestroy, SemTypeOK, Stages
<1>3. CASE Load(t, "dec", "decStore")
  BY <1>3 DEF Load, SemTypeOK, Stages
<1>4. CASE /\ references' = Less(loaded[t])
           /\ loaded' = [loaded EXCEPT ![t] = Less(@)]
           /\ stage' = [stage EXCEPT ![t] = "test"]
           /\ UNCHANGED <<val, removed, freed, call, result, crashed>>
  BY <1>1, <1>4 DEF SemTypeOK, Stages
<1>5. CASE (\E seen \in {references, loaded[t]} : EndDestroy(t, seen)) /\ UNCHANGED references
  BY <1>5 DEF EndDestroy, SemTypeOK, Stages
<1> QED BY <1>2, <1>3, <1>4, <1>5 DEF Decrement

LEMMA CallStepType ==
  ASSUME SemTypeOK, NEW t \in Threads, CallStep(t), call[t].id \in SemIds \/ stage[t] # "kernel"
  PROVE  SemTypeOK'
<1>1. CASE SemTimedOp(t)
  <2>1. call[t].id \in SemIds /\ val \in [SemIds -> 0 .. ShortMax] /\ call[t].value \in Int
    BY <1>1 DEF SemTimedOp, SemTypeOK, Calls
  <2>2. Short(call[t].value) \in Int /\ ShortMax \in Nat
    BY <2>1, SemaphoreAssumption DEF Short
  <2>3. val' = [val EXCEPT ![call[t].id] = val[call[t].id] + Short(call[t].value)]
        /\ val[call[t].id] + Short(call[t].value) \in 0 .. ShortMax
    BY <1>1, <2>1, <2>2 DEF SemTimedOp
  <2>4. val' \in [SemIds -> 0 .. ShortMax]
    BY <2>1, <2>3
  <2> QED BY <1>1, <2>4 DEF SemTimedOp, SemTypeOK, Stages
<1>2. CASE Fault(t)
  BY <1>2 DEF Fault, SemTypeOK
<1> QED BY <1>1, <1>2, IncrementType, DecrementType DEF CallStep

=============================================================================
