--------------------------- MODULE ThreadMapProofs ---------------------------
(***************************************************************************)
(* Lemmas about the map of the threads: what a walk over the list reads.   *)
(***************************************************************************)
EXTENDS ZsThreadMap, FiniteSetTheorems, WellFoundedInduction, TLAPS

LEMMA Least == ASSUME NEW S \in SUBSET Nat, S # {} PROVE \E n \in S : \A k \in S : n <= k
<1>1. PICK n \in S : \A k \in S : ~ (<<k, n>> \in OpToRel(<, Nat))
  BY WFMin, NatLessThanWellFounded
<1>2. \A k \in S : ~(k < n)
  BY <1>1 DEF OpToRel
<1> QED BY <1>2

LEMMA BlocksCounted == Cardinality(Blocks) \in Nat
  BY MapAssumption, FS_CardinalityType

(* The definition of Walk defines a function, and this one. *)
LEMMA WalkDefined ==
  Walk = [n \in 0 .. Cardinality(Blocks) |->
            IF n = 0 THEN head
            ELSE IF Walk[n - 1] = Null THEN Null ELSE next[Walk[n - 1]]]
<1> DEFINE N == Cardinality(Blocks)
           Step(f, n) == IF n = 0 THEN head ELSE IF f[n - 1] = Null THEN Null ELSE next[f[n - 1]]
           IsWalk(f, m) == f = [n \in 0 .. m |-> Step(f, n)]
           Bad == {m \in Nat : ~\E f : IsWalk(f, m)}
<1>1. Bad = {}
  <2> SUFFICES ASSUME Bad # {} PROVE FALSE
    OBVIOUS
  <2>1. Bad \in SUBSET Nat
    OBVIOUS
  <2>2. PICK m \in Bad : \A k \in Bad : m <= k
    <3> HIDE DEF Bad
    <3> QED BY <2>1, Least
  <2>3. m \in Nat
    BY <2>2
  <2>4. CASE m = 0
    <3> DEFINE f == [n \in 0 .. 0 |-> head]
    <3>1. f = [n \in 0 .. 0 |-> Step(f, n)]
      OBVIOUS
    <3> QED BY <2>2, <2>4, <3>1
  <2>5. CASE m # 0
    <3>1. m - 1 \in Nat /\ m - 1 \notin Bad
      <4>1. m - 1 \in Nat /\ ~(m <= m - 1)
        BY <2>3, <2>5
      <4> HIDE DEF Bad
      <4> QED BY <2>2, <4>1
    <3>2. PICK g : IsWalk(g, m - 1)
      BY <3>1
    <3> DEFINE f == [n \in 0 .. m |-> IF n = m THEN Step(g, m) ELSE g[n]]
    <3>3. \A n \in 0 .. m - 1 : f[n] = g[n] /\ g[n] = Step(g, n)
      <4>1. \A n \in 0 .. m - 1 : n \in 0 .. m /\ n # m
        BY <2>3
      <4>2. \A n \in 0 .. m - 1 : g[n] = Step(g, n)
        BY <3>2
      <4> QED BY <4>1, <4>2
    <3>4. ASSUME NEW n \in 0 .. m PROVE f[n] = Step(f, n)
      <4>1. CASE n = m
        <5>1. f[n] = Step(g, m)
          BY <4>1
        <5>2. m - 1 \in 0 .. m - 1
          BY <2>3, <2>5
        <5>3. f[m - 1] = g[m - 1]
          BY <3>3, <5>2
        <5> HIDE DEF f
        <5> QED BY <4>1, <5>1, <5>3
      <4>2. CASE n # m /\ n # 0
        <5>1. n \in 0 .. m - 1 /\ n - 1 \in 0 .. m - 1
          BY <2>3, <4>2
        <5>2. f[n] = g[n] /\ g[n] = Step(g, n) /\ f[n - 1] = g[n - 1]
          BY <3>3, <5>1
        <5> HIDE DEF f
        <5> QED BY <4>2, <5>2
      <4>3. CASE n # m /\ n = 0
        <5>1. n \in 0 .. m - 1
          BY <2>3, <4>3
        <5>2. f[n] = g[n] /\ g[n] = Step(g, n)
          BY <3>3, <5>1
        <5> HIDE DEF f
        <5> QED BY <4>3, <5>2
      <4> QED BY <4>1, <4>2, <4>3
    <3>5. f = [n \in 0 .. m |-> f[n]]
      OBVIOUS
    <3>6. IsWalk(f, m)
      <4> HIDE DEF f
      <4> QED BY <3>4, <3>5
    <3> QED BY <2>2, <3>6
  <2> QED BY <2>4, <2>5
<1>2. \E f : IsWalk(f, N)
  BY <1>1, BlocksCounted
<1>3. Walk = CHOOSE f : IsWalk(f, N)
  BY DEF Walk
<1>4. IsWalk(Walk, N)
  <2> HIDE DEF IsWalk
  <2> QED BY <1>2, <1>3
<1> QED BY <1>4

LEMMA WalkSteps ==
  /\ DOMAIN Walk = 0 .. Cardinality(Blocks)
  /\ \A n \in DOMAIN Walk :
       Walk[n] = IF n = 0 THEN head
                 ELSE IF Walk[n - 1] = Null THEN Null ELSE next[Walk[n - 1]]
<1> DEFINE N == Cardinality(Blocks)
           W(n) == IF n = 0 THEN head
                   ELSE IF Walk[n - 1] = Null THEN Null ELSE next[Walk[n - 1]]
<1>1. Walk = [n \in 0 .. N |-> W(n)]
  BY WalkDefined
<1> HIDE DEF W
<1>2. DOMAIN Walk = 0 .. N /\ \A n \in 0 .. N : Walk[n] = W(n)
  BY <1>1
<1> QED BY <1>2 DEF W

(* A walk stays in the heap. *)
LEMMA WalkType == ASSUME MapTypeOK PROVE \A n \in DOMAIN Walk : Walk[n] \in Blocks \cup {Null}
<1> DEFINE Bad == {n \in DOMAIN Walk : Walk[n] \notin Blocks \cup {Null}}
<1> SUFFICES ASSUME Bad # {} PROVE FALSE
  OBVIOUS
<1>1. Bad \in SUBSET Nat
  BY WalkSteps, BlocksCounted
<1>2. PICK n \in Bad : \A k \in Bad : n <= k
  <2> HIDE DEF Bad
  <2> QED BY <1>1, Least
<1>3. n \in 0 .. Cardinality(Blocks) /\ Cardinality(Blocks) \in Nat
  BY WalkSteps, BlocksCounted
<1>4. CASE n = 0
  BY <1>2, <1>4, WalkSteps DEF MapTypeOK
<1>5. CASE n # 0
  <2>1. n - 1 \in DOMAIN Walk /\ ~(n <= n - 1)
    BY <1>3, <1>5, WalkSteps
  <2>2. Walk[n - 1] \in Blocks \cup {Null}
    BY <1>2, <2>1
  <2>3. Walk[n] = IF Walk[n - 1] = Null THEN Null ELSE next[Walk[n - 1]]
    BY <1>5, WalkSteps
  <2> QED BY <1>2, <2>2, <2>3 DEF MapTypeOK
<1> QED BY <1>4, <1>5

(* zs__thread_map_find returns no entry, or one whose thread has the handle. *)
LEMMA Found ==
  ASSUME NEW h, FindEnds(h)
  PROVE  /\ Steps(h) \in Stops(h) /\ \A k \in Stops(h) : Steps(h) <= k
         /\ Find(h) = Null \/ Names(Find(h), h)
         /\ MapTypeOK => Find(h) \in Blocks \cup {Null}
<1>1. Stops(h) \in SUBSET Nat /\ Stops(h) # {}
  BY WalkSteps, BlocksCounted DEF Stops, FindEnds
<1>2. \E n \in Stops(h) : \A k \in Stops(h) : n <= k
  BY <1>1, Least
<1>3. Steps(h) \in Stops(h) /\ \A k \in Stops(h) : Steps(h) <= k
  BY <1>2 DEF Steps
<1>4. Steps(h) \in DOMAIN Walk /\ (Walk[Steps(h)] = Null \/ Names(Walk[Steps(h)], h))
  BY <1>3 DEF Stops
<1> QED BY <1>3, <1>4, WalkType DEF Find

-----------------------------------------------------------------------------
(* The list is a stack: k blocks, the newest one, b[k], at the head.       *)
Stack(k, b) ==
  /\ k = Cardinality(allocated) /\ b \in [1 .. k -> Blocks]
  /\ allocated = {b[i] : i \in 1 .. k}
  /\ \A i, j \in 1 .. k : b[i] = b[j] => i = j
  /\ head = IF k = 0 THEN Null ELSE b[k]
  /\ \A i \in 1 .. k : next[b[i]] = IF i = 1 THEN Null ELSE b[i - 1]

(* A walk over a stack goes from its head to the end, which it reaches.    *)
LEMMA StackWalked ==
  ASSUME MapTypeOK, NEW k \in Nat, NEW b, Stack(k, b)
  PROVE  /\ k \in DOMAIN Walk
         /\ \A n \in DOMAIN Walk : Walk[n] = IF n < k THEN b[k - n] ELSE Null
<1> DEFINE N == Cardinality(Blocks)
           Bad == {n \in DOMAIN Walk : Walk[n] # IF n < k THEN b[k - n] ELSE Null}
<1>0. /\ DOMAIN Walk = 0 .. N /\ N \in Nat
      /\ \A n \in DOMAIN Walk :
            Walk[n] = IF n = 0 THEN head ELSE IF Walk[n - 1] = Null THEN Null ELSE next[Walk[n - 1]]
  BY WalkSteps, BlocksCounted
<1> HIDE DEF N
<1>1. k <= N
  <2>1. allocated \subseteq Blocks /\ IsFiniteSet(Blocks)
    BY MapAssumption DEF MapTypeOK
  <2> QED BY <2>1, FS_Subset DEF Stack, N
<1>2. k \in DOMAIN Walk
  BY <1>0, <1>1
<1>3. Bad = {}
  <2> SUFFICES ASSUME Bad # {} PROVE FALSE
    OBVIOUS
  <2>1. Bad \in SUBSET Nat
    BY <1>0
  <2>2. PICK n \in Bad : \A j \in Bad : n <= j
    <3> HIDE DEF Bad
    <3> QED BY <2>1, Least
  <2>3. n \in 0 .. N /\ n \in DOMAIN Walk /\ Walk[n] # IF n < k THEN b[k - n] ELSE Null
    BY <1>0, <2>2
  <2>4. CASE n = 0
    <3>1. Walk[0] = head
      BY <1>0, <2>3, <2>4
    <3>2. k - n = k /\ (n < k <=> k # 0)
      BY <2>4
    <3>3. head = IF k = 0 THEN Null ELSE b[k]
      BY DEF Stack
    <3> QED BY <2>3, <2>4, <3>1, <3>2, <3>3
  <2>5. CASE n # 0
    <3>1. n - 1 \in DOMAIN Walk /\ ~(n <= n - 1) /\ n - 1 \in Nat
      BY <1>0, <2>3, <2>5
    <3>2. Walk[n - 1] = IF n - 1 < k THEN b[k - (n - 1)] ELSE Null
      BY <2>2, <3>1
    <3>3. Walk[n] = IF Walk[n - 1] = Null THEN Null ELSE next[Walk[n - 1]]
      BY <1>0, <2>3, <2>5
    <3>4. CASE n - 1 < k
      <4> DEFINE i == k - (n - 1)
      <4>1. i \in 1 .. k /\ (i = 1 <=> ~(n < k)) /\ i - 1 = k - n
        BY <1>0, <2>3, <2>5, <3>4
      <4> HIDE DEF i
      <4>2. b[i] \in Blocks /\ b[i] # Null
        <5>1. b \in [1 .. k -> Blocks]
          BY DEF Stack
        <5> QED BY <4>1, <5>1, MapAssumption
      <4>3. next[b[i]] = IF i = 1 THEN Null ELSE b[i - 1]
        BY <4>1 DEF Stack
      <4>4. Walk[n] = next[b[i]]
        BY <3>2, <3>3, <3>4, <4>2 DEF i
      <4> QED BY <2>3, <4>1, <4>3, <4>4
    <3>5. CASE ~(n - 1 < k)
      <4>1. Walk[n] = Null /\ ~(n < k)
        BY <1>0, <2>3, <3>2, <3>3, <3>5
      <4> QED BY <2>3, <4>1
    <3> QED BY <3>4, <3>5
  <2> QED BY <2>4, <2>5
<1> QED BY <1>2, <1>3

(* The entry of a handle is found, if there is one; no other block is read. *)
LEMMA StackFound ==
  ASSUME MapTypeOK, NEW k \in Nat, NEW b, Stack(k, b), NEW h
  PROVE  /\ FindEnds(h) /\ Visited(h) \subseteq allocated
         /\ Find(h) = Null \/ (Names(Find(h), h) /\ \E i \in 1 .. k : Find(h) = b[i])
         /\ \A i \in 1 .. k : Names(b[i], h) => Find(h) # Null
<1>1. /\ k \in DOMAIN Walk /\ DOMAIN Walk = 0 .. Cardinality(Blocks) /\ Cardinality(Blocks) \in Nat
      /\ \A n \in DOMAIN Walk : Walk[n] = IF n < k THEN b[k - n] ELSE Null
  BY StackWalked, WalkSteps, BlocksCounted
<1>2. Walk[k] = Null /\ k \in Stops(h)
  BY <1>1 DEF Stops
<1>3. FindEnds(h)
  BY <1>2 DEF FindEnds
<1>4. /\ Steps(h) \in DOMAIN Walk /\ Steps(h) \in Nat /\ \A n \in Stops(h) : Steps(h) <= n
      /\ Find(h) = Null \/ Names(Find(h), h)
  BY <1>1, <1>3, Found DEF Stops
<1>5. \A n \in DOMAIN Walk : Walk[n] = Null \/ \E i \in 1 .. k : Walk[n] = b[i]
  <2> SUFFICES ASSUME NEW n \in DOMAIN Walk, n < k PROVE \E i \in 1 .. k : Walk[n] = b[i]
    BY <1>1
  <2>1. k - n \in 1 .. k /\ Walk[n] = b[k - n]
    BY <1>1
  <2> QED BY <2>1
<1>6. Visited(h) \subseteq allocated
  <2>1. \A n \in DOMAIN Walk : Walk[n] = Null \/ Walk[n] \in allocated
    BY <1>5 DEF Stack
  <2>2. \A n \in 0 .. Steps(h) : n \in DOMAIN Walk
    BY <1>1, <1>4
  <2> QED BY <1>3, <2>1, <2>2 DEF Visited
<1>7. Find(h) = Null \/ \E i \in 1 .. k : Find(h) = b[i]
  BY <1>4, <1>5 DEF Find
<1>8. ASSUME NEW i \in 1 .. k, Names(b[i], h) PROVE Find(h) # Null
  <2>1. k - i \in DOMAIN Walk /\ k - i < k /\ k - (k - i) = i
    BY <1>1
  <2>2. Walk[k - i] = b[i]
    BY <1>1, <2>1
  <2>3. k - i \in Stops(h)
    BY <1>8, <2>1, <2>2 DEF Stops
  <2>4. Steps(h) < k /\ k - Steps(h) \in 1 .. k
    BY <1>4, <2>1, <2>3
  <2>5. Find(h) = b[k - Steps(h)]
    BY <1>1, <1>4, <2>4 DEF Find
  <2>6. b[k - Steps(h)] \in Blocks
    BY <2>4 DEF Stack
  <2> QED BY <2>5, <2>6, MapAssumption
<1> QED BY <1>3, <1>4, <1>6, <1>7, <1>8

(* The insertion of zs__thread_create pushes a block. *)
LEMMA StackPushed ==
  ASSUME MapTypeOK, NEW k \in Nat, NEW b, Stack(k, b), NEW x \in Blocks \ allocated,
         allocated' = allocated \cup {x}, next' = [next EXCEPT ![x] = head], head' = x
  PROVE  Stack(k + 1, [i \in 1 .. k + 1 |-> IF i = k + 1 THEN x ELSE b[i]])'
<1> DEFINE c == [i \in 1 .. k + 1 |-> IF i = k + 1 THEN x ELSE b[i]]
<1>1. \A i \in 1 .. k : i \in 1 .. k + 1 /\ i # k + 1
  OBVIOUS
<1>2. \A i \in 1 .. k + 1 : i = k + 1 \/ i \in 1 .. k
  OBVIOUS
<1>3. c[k + 1] = x /\ \A i \in 1 .. k : c[i] = b[i] /\ b[i] \in allocated /\ b[i] \in Blocks /\ b[i] # x
  <2>1. c[k + 1] = x /\ \A i \in 1 .. k : c[i] = b[i]
    BY <1>1
  <2>2. b \in [1 .. k -> Blocks] /\ allocated = {b[i] : i \in 1 .. k}
    BY DEF Stack
  <2> HIDE DEF c
  <2> QED BY <2>1, <2>2
<1>4. c \in [1 .. k + 1 -> Blocks]
  BY <1>2, <1>3
<1> HIDE DEF c
<1>5. k + 1 = Cardinality(allocated')
  <2>1. allocated \subseteq Blocks /\ IsFiniteSet(Blocks)
    BY MapAssumption DEF MapTypeOK
  <2>2. IsFiniteSet(allocated)
    BY <2>1, FS_Subset
  <2> QED BY <2>2, FS_AddElement DEF Stack
<1>6. allocated' = {c[i] : i \in 1 .. k + 1}
  <2>1. allocated = {b[i] : i \in 1 .. k}
    BY DEF Stack
  <2>2. \A y \in allocated \cup {x} : \E i \in 1 .. k + 1 : y = c[i]
    BY <1>1, <1>3, <2>1
  <2>3. \A i \in 1 .. k + 1 : c[i] \in allocated \cup {x}
    BY <1>2, <1>3
  <2> QED BY <2>2, <2>3
<1>7. \A i, j \in 1 .. k + 1 : c[i] = c[j] => i = j
  BY <1>2, <1>3 DEF Stack
<1>8. head' = IF k + 1 = 0 THEN Null ELSE c[k + 1]
  BY <1>3
<1>9. ASSUME NEW i \in 1 .. k + 1 PROVE next'[c[i]] = IF i = 1 THEN Null ELSE c[i - 1]
  <2>1. CASE i = k + 1
    <3>1. next'[c[i]] = head
      BY <1>3, <2>1 DEF MapTypeOK
    <3>2. i - 1 = k /\ (i = 1 <=> k = 0) /\ (k # 0 => k \in 1 .. k)
      BY <2>1
    <3>3. head = IF k = 0 THEN Null ELSE b[k]
      BY DEF Stack
    <3> QED BY <1>3, <3>1, <3>2, <3>3
  <2>2. CASE i # k + 1
    <3>1. i \in 1 .. k /\ (i # 1 => i - 1 \in 1 .. k)
      BY <2>2
    <3>2. next'[c[i]] = next[b[i]]
      BY <1>3, <3>1 DEF MapTypeOK
    <3> QED BY <1>3, <3>1, <3>2 DEF Stack
  <2> QED BY <2>1, <2>2
<1>10. (k + 1)' = k + 1
  OBVIOUS
<1>11. Stack(k + 1, c)'
  BY <1>4, <1>5, <1>6, <1>7, <1>8, <1>9 DEF Stack
<1> QED BY <1>11 DEF c

(* zs__thread_map_remove of the newest block pops it. *)
LEMMA StackPopped ==
  ASSUME MapTypeOK, NEW k \in Nat, NEW b, Stack(k, b), k # 0, Remove(b[k])
  PROVE  Stack(k - 1, [i \in 1 .. k - 1 |-> b[i]])'
<1> DEFINE c == [i \in 1 .. k - 1 |-> b[i]]
<1>1. k \in 1 .. k /\ \A i \in 1 .. k - 1 : i \in 1 .. k /\ i # k
  OBVIOUS
<1>2. \A i \in 1 .. k : i = k \/ i \in 1 .. k - 1
  OBVIOUS
<1>3. head' = next[b[k]] /\ next' = next /\ allocated' = allocated \ {b[k]}
  BY DEF Remove, Stack
<1>4. \A i \in 1 .. k - 1 : c[i] = b[i]
  OBVIOUS
<1>5. c \in [1 .. k - 1 -> Blocks]
  BY <1>1 DEF Stack
<1> HIDE DEF c
<1>6. k - 1 = Cardinality(allocated')
  <2>1. allocated \subseteq Blocks /\ IsFiniteSet(Blocks) /\ b[k] \in allocated
    BY <1>1, MapAssumption DEF MapTypeOK, Stack
  <2>2. IsFiniteSet(allocated)
    BY <2>1, FS_Subset
  <2>3. Cardinality(allocated \ {b[k]}) = Cardinality(allocated) - 1
    BY <2>1, <2>2, FS_RemoveElement
  <2> QED BY <1>3, <2>3 DEF Stack
<1>7. allocated' = {c[i] : i \in 1 .. k - 1}
  <2>1. allocated = {b[i] : i \in 1 .. k} /\ \A i, j \in 1 .. k : b[i] = b[j] => i = j
    BY DEF Stack
  <2>2. \A y \in allocated \ {b[k]} : \E i \in 1 .. k - 1 : y = c[i]
    BY <1>2, <1>4, <2>1
  <2>3. \A i \in 1 .. k - 1 : c[i] \in allocated /\ c[i] # b[k]
    BY <1>1, <1>4, <2>1
  <2> QED BY <1>3, <2>2, <2>3
<1>8. \A i, j \in 1 .. k - 1 : c[i] = c[j] => i = j
  BY <1>1, <1>4 DEF Stack
<1>9. head' = IF k - 1 = 0 THEN Null ELSE c[k - 1]
  <2>1. next[b[k]] = IF k = 1 THEN Null ELSE b[k - 1]
    BY <1>1 DEF Stack
  <2>2. k # 1 => k - 1 \in 1 .. k - 1
    OBVIOUS
  <2> QED BY <1>3, <1>4, <2>1, <2>2
<1>10. ASSUME NEW i \in 1 .. k - 1 PROVE next'[c[i]] = IF i = 1 THEN Null ELSE c[i - 1]
  <2>1. next[b[i]] = IF i = 1 THEN Null ELSE b[i - 1]
    BY <1>1 DEF Stack
  <2>2. i # 1 => i - 1 \in 1 .. k - 1
    OBVIOUS
  <2> QED BY <1>3, <1>4, <2>1, <2>2
<1>11. Stack(k - 1, c)'
  BY <1>5, <1>6, <1>7, <1>8, <1>9, <1>10 DEF Stack
<1> QED BY <1>11 DEF c
=============================================================================
