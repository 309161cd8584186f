---------------------------- MODULE ProcessProofs ----------------------------
(***************************************************************************)
(* What is proved of ZsProcess for any number of calls, all streams that   *)
(* their clients use, and any set of descriptors.                          *)
(***************************************************************************)
EXTENDS ZsProcess, TLAPS

Contents == Ends \cup {Free, Standard}
Tables   == [Descriptors -> Contents]

EndsOf(t)   == {e \in Ends : e[1] = t}
Lacks(T, E) == \A d \in Descriptors : T[d] \notin E
Unique(T)   == \A d, e \in Descriptors : T[d] \in Ends /\ T[d] = T[e] => d = e

(* What of E is in T is in O, with the same numbers. *)
Within(T, O, E) == \A d \in Descriptors : T[d] \in E => O[d] = T[d]

(* A call's ends are made once and then only go. *)
Tabled ==
  /\ Unique(table[Parent])
  /\ \A t \in Calls :
       /\ pc[t] = "new" => Lacks(table[Parent], EndsOf(t))
       /\ child[t] = "forked" =>
            Unique(table[t]) /\ Within(table[Parent], table[t], EndsOf(t))

(* Where a call is tells what there is of its child. *)
Progress == \A t \in Calls :
  /\ pc[t] \in {"new", "ready"} => child[t] = "none"
  /\ pc[t] \in {"returned", "deleted", "done"} => child[t] \in {"none", "reaped"}
  /\ child[t] # "none" => pc[t] = "forked" \/ t \in stored

Inv == TypeOK /\ Tabled /\ Progress /\ Isolated /\ Redirected /\ AbortsExplained

-----------------------------------------------------------------------------
(***************************************************************************)
(* The ends of the pipes.                                                  *)
(***************************************************************************)
LEMMA EndsDiffer ==
  ASSUME NEW t \in Calls, NEW s \in Streams
  PROVE  /\ <<t, s, "reader">> \in EndsOf(t) /\ <<t, s, "writer">> \in EndsOf(t)
         /\ Far(t, s) \in EndsOf(t) /\ Near(t, s) \in EndsOf(t) /\ EndsOf(t) \subseteq Ends
         /\ Far(t, s) \in {<<t, s, "reader">>, <<t, s, "writer">>}
         /\ Free \notin Ends /\ Standard \notin Ends
<1>1. <<t, s, "reader">> \in Ends /\ <<t, s, "writer">> \in Ends
  BY DEF Ends
<1>2. <<t, s, "reader">> \in EndsOf(t) /\ <<t, s, "writer">> \in EndsOf(t) /\ EndsOf(t) \subseteq Ends
  BY <1>1 DEF EndsOf
<1>3. \A e \in Ends : DOMAIN e = 1 .. 3
  BY DEF Ends
<1>4. DOMAIN Free = 1 .. 1 /\ DOMAIN Standard = 1 .. 1 /\ 3 \in 1 .. 3 /\ 3 \notin 1 .. 1
  BY DEF Free, Standard
<1>5. Free \notin Ends /\ Standard \notin Ends
  BY <1>3, <1>4
<1> QED BY <1>2, <1>5 DEF Far, Near

LEMMA OtherEnds ==
  ASSUME NEW t \in Calls, NEW u \in Calls, t # u, NEW e \in EndsOf(t)
  PROVE  e \notin EndsOf(u) /\ \A s \in Streams : e # Far(u, s)
<1>1. \A s \in Streams : Far(u, s) \in EndsOf(u)
  BY EndsDiffer
<1> QED BY <1>1 DEF EndsOf

-----------------------------------------------------------------------------
(***************************************************************************)
(* The creation of a stream.  One end is put at most at one number.        *)
(***************************************************************************)
LEMMA Placed ==
  ASSUME NEW T \in Tables, Unique(T), NEW e \in Ends, Lacks(T, {e})
  PROVE  /\ Place(T, e) \in Tables /\ Unique(Place(T, e))
         /\ \A d \in Descriptors : Place(T, e)[d] = T[d] \/ Place(T, e)[d] = e
<1> DEFINE n == Lowest(T)
           P == Place(T, e)
<1>1. P = [T EXCEPT ![n] = e]
  BY DEF Place
<1> HIDE DEF n, P
<1>2. P \in Tables
  BY <1>1 DEF Tables, Contents
<1>3. \A d \in Descriptors : P[d] = IF d = n THEN e ELSE T[d]
  BY <1>1 DEF Tables
<1>4. Unique(P)
  BY <1>3 DEF Unique, Lacks
<1> QED BY <1>2, <1>3, <1>4 DEF P

LEMMA CutDown ==
  ASSUME NEW T \in Tables, NEW es
  PROVE  /\ Without(T, es) \in Tables /\ (Unique(T) => Unique(Without(T, es))) /\ (es \subseteq Ends => Lacks(Without(T, es), es))
         /\ \A d \in Descriptors : Without(T, es)[d] = T[d] \/ Without(T, es)[d] = Free
<1>1. Without(T, es) = [d \in Descriptors |-> IF T[d] \in es THEN Free ELSE T[d]]
  BY DEF Without
<1>2. Without(T, es) \in Tables
  BY <1>1 DEF Tables, Contents
<1>3. Free \notin Ends
  <2>1. CASE Calls = {}
    BY <2>1 DEF Ends
  <2>2. CASE Calls # {}
    BY <2>2, EndsDiffer DEF Streams
  <2> QED BY <2>1, <2>2
<1>4. \A d \in Descriptors : Without(T, es)[d] = IF T[d] \in es THEN Free ELSE T[d]
  BY <1>1
<1>5. Unique(T) => Unique(Without(T, es))
  BY <1>3, <1>4 DEF Unique
<1>6. es \subseteq Ends => Lacks(Without(T, es), es)
  BY <1>3, <1>4 DEF Lacks
<1> QED BY <1>2, <1>4, <1>5, <1>6

(* The ends of a stream s of t, and what a table becomes with them. *)
Pair(t, s) == {<<t, s, "reader">>, <<t, s, "writer">>}

Gained(P, T, E) == \A d \in Descriptors : P[d] = T[d] \/ P[d] \in E \cup {Free}

LEMMA PipedWell ==
  ASSUME NEW T \in Tables, Unique(T), NEW t \in Calls, NEW s \in Streams, Lacks(T, Pair(t, s))
  PROVE  /\ Piped(T, t, s) \in Tables /\ Unique(Piped(T, t, s)) /\ Gained(Piped(T, t, s), T, Pair(t, s))
<1> DEFINE r == <<t, s, "reader">>
           w == <<t, s, "writer">>
           R == Place(T, r)
           P == Place(R, w)
<1>1. r \in Ends /\ w \in Ends /\ r # w /\ Pair(t, s) = {r, w} /\ Far(t, s) \in {r, w}
  BY EndsDiffer DEF Pair, Ends, Far
<1> HIDE DEF r, w
<1>2. R \in Tables /\ Unique(R) /\ \A d \in Descriptors : R[d] = T[d] \/ R[d] = r
  BY <1>1, Placed DEF Lacks
<1> HIDE DEF R
<1>3. Lacks(R, {w})
  BY <1>1, <1>2 DEF Lacks
<1>4. P \in Tables /\ Unique(P) /\ \A d \in Descriptors : P[d] = R[d] \/ P[d] = w
  BY <1>1, <1>2, <1>3, Placed
<1>5. P = Pipe(T, t, s)
  BY DEF Pipe, r, w, R
<1>6. Gained(P, T, {r, w})
  BY <1>2, <1>4 DEF Gained
<1> HIDE DEF P
<1>7. CASE ~Uses(t, s)
  <2>1. Piped(T, t, s) = T
    BY <1>7 DEF Piped
  <2> QED BY <1>1, <2>1 DEF Gained, Lacks
<1>8. CASE Uses(t, s) /\ Cpp(t)
  <2>1. Piped(T, t, s) = Without(P, {Far(t, s)})
    BY <1>5, <1>8 DEF Piped
  <2> DEFINE W == Without(P, {Far(t, s)})
  <2>2. /\ W \in Tables /\ Unique(W)
        /\ \A d \in Descriptors : W[d] = P[d] \/ W[d] = Free
    BY <1>1, <1>4, CutDown
  <2> HIDE DEF W
  <2>3. Gained(W, T, {r, w})
    BY <1>6, <2>2 DEF Gained
  <2> QED BY <1>1, <2>1, <2>2, <2>3 DEF W
<1>9. CASE Uses(t, s) /\ ~Cpp(t)
  <2>1. Piped(T, t, s) = P
    BY <1>5, <1>9 DEF Piped
  <2> QED BY <1>1, <1>4, <1>6, <1>9, <2>1
<1> QED BY <1>7, <1>8, <1>9

(* Both streams, in either order. *)
LEMMA PipedBoth ==
  ASSUME NEW T \in Tables, Unique(T), NEW t \in Calls, Lacks(T, EndsOf(t)),
         NEW r \in Streams, NEW s \in Streams, r # s
  PROVE  LET P == Piped(Piped(T, t, r), t, s)
         IN  /\ P \in Tables /\ Unique(P) /\ Gained(P, T, EndsOf(t))
<1> DEFINE R == Piped(T, t, r)
           P == Piped(R, t, s)
<1>1. Pair(t, r) \subseteq EndsOf(t) /\ Pair(t, s) \subseteq EndsOf(t) /\ Pair(t, r) \cap Pair(t, s) = {}
      /\ Free \notin Ends /\ Pair(t, s) \subseteq Ends
  BY EndsDiffer DEF Pair
<1>2. R \in Tables /\ Unique(R) /\ Gained(R, T, Pair(t, r))
  BY <1>1, PipedWell DEF Lacks
<1> HIDE DEF R
<1>3. Lacks(R, Pair(t, s))
  BY <1>1, <1>2 DEF Lacks, Gained
<1>4. P \in Tables /\ Unique(P) /\ Gained(P, R, Pair(t, s))
  BY <1>2, <1>3, PipedWell
<1> HIDE DEF P
<1>5. Gained(P, T, EndsOf(t))
  BY <1>1, <1>2, <1>4 DEF Gained
<1> QED BY <1>4, <1>5 DEF P, R

-----------------------------------------------------------------------------
(***************************************************************************)
(* What the child makes of its descriptors.                                *)
(***************************************************************************)
LEMMA PlumbedWell ==
  ASSUME NEW T \in Tables, NEW t \in Calls
  PROVE  LET P == Plumbing(T, t)
         IN  /\ P \in Tables
             /\ \A d \in Descriptors : P[d] # Free =>
                  \E s \in Streams : P[d] = Far(t, s) /\ Has(T, Far(t, s))
             /\ Redirects(T, t, "out") => P[1] = Far(t, "out")
             /\ Redirects(T, t, "in") =>
                  P[0] = Far(t, "in") \/ (P[0] = Far(t, "out") /\ T[1] = Far(t, "in"))
<1> DEFINE o == Far(t, "out")
           i == Far(t, "in")
           kept == [d \in Descriptors |-> IF T[d] \in Kept(T, t) THEN T[d] ELSE Free]
           out == IF Redirects(T, t, "out") THEN Copy(kept, NumberOf(T, o), 1) ELSE kept
           P == IF Redirects(T, t, "in") THEN Copy(out, NumberOf(T, i), 0) ELSE out
           Good(x) == x = Free \/ (x = o /\ Has(T, o)) \/ (x = i /\ Has(T, i))
<1>0. P = Plumbing(T, t) /\ {0, 1} \subseteq Descriptors
  BY ProcessAssumption DEF Plumbing
<1>1. o # i /\ o \in Ends /\ i \in Ends
  BY EndsDiffer DEF Far, Streams
<1>2. \A s \in Streams : Redirects(T, t, s) =>
        /\ Has(T, Far(t, s)) /\ NumberOf(T, Far(t, s)) \in Descriptors
        /\ T[NumberOf(T, Far(t, s))] = Far(t, s)
  BY DEF Redirects, Has, NumberOf
<1>3. Kept(T, t) = {x \in {o, i} : (x = o /\ Redirects(T, t, "out")) \/ (x = i /\ Redirects(T, t, "in"))}
  BY DEF Kept, Streams
<1>4. (Redirects(T, t, "out") => Has(T, o)) /\ (Redirects(T, t, "in") => Has(T, i))
  BY <1>2 DEF Streams
<1>5. /\ kept \in Tables /\ \A d \in Descriptors : Good(kept[d])
      /\ \A d \in Descriptors : kept[d] = IF T[d] \in Kept(T, t) THEN T[d] ELSE Free
  <2>1. \A d \in Descriptors : kept[d] = IF T[d] \in Kept(T, t) THEN T[d] ELSE Free
    OBVIOUS
  <2>2. kept \in Tables
    BY DEF Tables, Contents
  <2> HIDE DEF kept
  <2>3. \A d \in Descriptors : Good(kept[d])
    BY <1>3, <1>4, <2>1
  <2> QED BY <2>1, <2>2, <2>3
<1> HIDE DEF kept
<1>6. /\ out \in Tables /\ \A d \in Descriptors : Good(out[d])
      /\ Redirects(T, t, "out") => out[1] = o
      /\ \A d \in Descriptors : d # 1 \/ ~Redirects(T, t, "out") => out[d] = kept[d]
  <2>1. CASE Redirects(T, t, "out")
    <3> DEFINE n == NumberOf(T, o)
    <3>1. n \in Descriptors /\ T[n] = o
      BY <1>2, <2>1 DEF Streams
    <3>2. kept[n] = o
      BY <1>3, <1>5, <2>1, <3>1
    <3>3. out = [kept EXCEPT ![1] = o]
      BY <2>1, <3>2 DEF Copy
    <3> HIDE DEF out, o, i
    <3>4. \A d \in Descriptors : out[d] = IF d = 1 THEN o ELSE kept[d]
      BY <1>5, <3>3 DEF Tables
    <3>5. out \in Tables
      BY <1>1, <1>5, <3>3 DEF Tables, Contents
    <3> QED BY <1>0, <1>4, <1>5, <2>1, <3>4, <3>5
  <2>2. CASE ~Redirects(T, t, "out")
    BY <1>5, <2>2
  <2> QED BY <2>1, <2>2
<1> HIDE DEF out
<1>7. CASE Redirects(T, t, "in")
  <2> DEFINE n == NumberOf(T, i)
  <2>1. n \in Descriptors /\ T[n] = i
    BY <1>2, <1>7 DEF Streams
  <2>2. out[n] = i \/ (out[n] = o /\ T[1] = i)
    <3>1. kept[n] = i
      BY <1>3, <1>5, <1>7, <2>1
    <3>2. CASE n = 1 /\ Redirects(T, t, "out")
      BY <1>6, <2>1, <3>2
    <3>3. CASE ~(n = 1 /\ Redirects(T, t, "out"))
      BY <1>6, <2>1, <3>1, <3>3
    <3> QED BY <3>2, <3>3
  <2>3. P = [out EXCEPT ![0] = out[n]] /\ out[n] \in Contents
    BY <1>6, <1>7, <2>1 DEF Copy, Tables
  <2> HIDE DEF P, n, o, i
  <2>4. \A d \in Descriptors : P[d] = IF d = 0 THEN out[n] ELSE out[d]
    BY <1>6, <2>3 DEF Tables
  <2>5. P \in Tables
    BY <1>6, <2>3 DEF Tables
  <2>6. \A d \in Descriptors : Good(P[d])
    BY <1>6, <2>1, <2>4
  <2>7. P[0] = out[n] /\ P[1] = out[1]
    BY <1>0, <2>4
  <2> QED BY <1>0, <1>6, <2>2, <2>5, <2>6, <2>7 DEF o, i, Streams
<1>8. CASE ~Redirects(T, t, "in")
  <2>1. P = out
    BY <1>8
  <2> HIDE DEF P
  <2> QED BY <1>0, <1>6, <1>8, <2>1 DEF Streams
<1> QED BY <1>7, <1>8

-----------------------------------------------------------------------------
(***************************************************************************)
(* Ends of the parent go, and the calls go on: nothing that is said of     *)
(* tables is disturbed.                                                    *)
(***************************************************************************)
TableType == table \in [Processes -> Tables]

Calm ==
  /\ setup' = setup
  /\ \A d \in Descriptors : table'[Parent][d] = table[Parent][d] \/ table'[Parent][d] = Free
  /\ \A u \in Calls : table'[u] = table[u]
  /\ \A u \in Calls :
       /\ pc'[u] = "new" => pc[u] = "new"
       /\ pc'[u] \in {"forked", "handled"} => pc[u] \in {"forked", "handled"}
       /\ child'[u] = "forked" => child[u] = "forked"
       /\ Plumbed(u)' => Plumbed(u)

LEMMA Facts ==
  /\ Free \notin Ends /\ Parent \notin Calls /\ Parent \in Processes /\ Calls \subseteq Processes
  /\ \A t \in Calls :
        /\ EndsOf(t) \subseteq Ends
        /\ \A s \in Streams : {Far(t, s), Near(t, s)} \subseteq EndsOf(t)
<1>1. Free \notin Ends
  <2>1. CASE Calls = {}
    BY <2>1 DEF Ends
  <2>2. CASE Calls # {}
    BY <2>2, EndsDiffer DEF Streams
  <2> QED BY <2>1, <2>2
<1>2. Parent \notin Calls /\ Parent \in Processes /\ Calls \subseteq Processes
  BY ProcessAssumption DEF Processes
<1>3. \A t \in Calls :
        /\ EndsOf(t) \subseteq Ends
        /\ \A s \in Streams : {Far(t, s), Near(t, s)} \subseteq EndsOf(t)
  <2>1. \A t \in Calls : EndsOf(t) \subseteq Ends
    BY DEF EndsOf
  <2>2. \A t \in Calls, s \in Streams : Far(t, s) \in EndsOf(t) /\ Near(t, s) \in EndsOf(t)
    BY EndsDiffer
  <2> QED BY <2>1, <2>2
<1> QED BY <1>1, <1>2, <1>3

(* Redirects can become false only, and the numbers stay. *)
LEMMA RedirectsLost ==
  ASSUME NEW T \in Tables, NEW P \in Tables, Unique(T), NEW t \in Calls, Within(P, T, EndsOf(t)), NEW s \in Streams
  PROVE  /\ Redirects(P, t, s) => Redirects(T, t, s)
         /\ Redirects(P, t, s) /\ T[1] = Far(t, s) => P[1] = Far(t, s)
<1>1. Far(t, s) \in EndsOf(t) /\ Near(t, s) \in EndsOf(t) /\ Far(t, s) \in Ends
  BY Facts
<1>2. Redirects(P, t, s) => Redirects(T, t, s)
  BY <1>1 DEF Redirects, Has, Within
<1>3. ASSUME Redirects(P, t, s), T[1] = Far(t, s) PROVE P[1] = Far(t, s)
  <2>1. PICK d \in Descriptors : P[d] = Far(t, s)
    BY <1>3 DEF Redirects, Has
  <2>2. T[d] = Far(t, s)
    BY <1>1, <2>1 DEF Within
  <2>3. d = 1
    BY <1>1, <1>3, <2>2, ProcessAssumption DEF Unique
  <2> QED BY <2>1, <2>3
<1> QED BY <1>2, <1>3

LEMMA CalmStep ==
  ASSUME Inv, TableType', Calm
  PROVE  Tabled' /\ Isolated' /\ Redirected'
<1>0. Tabled /\ Isolated /\ Redirected /\ TableType
  BY DEF Inv, TypeOK, TableType, Tables, Contents
<1> DEFINE T == table[Parent]
           P == table'[Parent]
<1>1. T \in Tables /\ P \in Tables /\ \A d \in Descriptors : P[d] = T[d] \/ P[d] = Free
  BY <1>0, Facts DEF TableType, Calm
<1>2. Unique(T) /\ \A t \in Calls : pc[t] = "new" => Lacks(T, EndsOf(t))
  BY <1>0 DEF Tabled
<1> HIDE DEF T, P
<1>3. Unique(P) /\ \A t \in Calls : Within(P, T, EndsOf(t))
  BY <1>1, <1>2, Facts DEF Unique, Within
<1>4. Tabled'
  <2>1. ASSUME NEW t \in Calls, pc'[t] = "new" PROVE Lacks(P, EndsOf(t))
    BY <1>1, <1>2, <2>1, Facts DEF Calm, Lacks
  <2>2. ASSUME NEW t \in Calls, child'[t] = "forked"
        PROVE  Unique(table'[t]) /\ Within(P, table'[t], EndsOf(t))
    <3>1. Unique(table[t]) /\ Within(T, table[t], EndsOf(t)) /\ table'[t] = table[t]
      BY <1>0, <2>2 DEF Tabled, Calm, T
    <3> QED BY <1>3, <3>1 DEF Within
  <2> QED BY <1>3, <2>1, <2>2 DEF Tabled, P
<1>6. Isolated'
  BY <1>0 DEF Isolated, Calm, Far
<1>7. Redirected'
  <2> SUFFICES ASSUME NEW t \in Calls, Plumbed(t)', pc'[t] \in {"forked", "handled"}
               PROVE  /\ Redirects(P, t, "out") => table'[t][1] = Far(t, "out")
                      /\ Redirects(P, t, "in") =>
                            \/ table'[t][0] = Far(t, "in")
                            \/ table'[t][0] = Far(t, "out") /\ P[1] = Far(t, "in")
    BY DEF Redirected, P
  <2>1. /\ Redirects(T, t, "out") => table[t][1] = Far(t, "out")
        /\ Redirects(T, t, "in") =>
              \/ table[t][0] = Far(t, "in")
              \/ table[t][0] = Far(t, "out") /\ T[1] = Far(t, "in")
    BY <1>0 DEF Redirected, Calm, T
  <2>2. \A s \in Streams :
          /\ Redirects(P, t, s) => Redirects(T, t, s)
          /\ Redirects(P, t, s) /\ T[1] = Far(t, s) => P[1] = Far(t, s)
    BY <1>1, <1>2, <1>3, RedirectsLost
  <2>3. table'[t] = table[t] /\ "out" \in Streams /\ "in" \in Streams
    BY DEF Calm, Streams
  <2>4. Redirects(P, t, "out") => table[t][1] = Far(t, "out")
    BY <2>1, <2>2, <2>3
  <2>5. Redirects(P, t, "in") =>
          \/ table[t][0] = Far(t, "in")
          \/ table[t][0] = Far(t, "out") /\ P[1] = Far(t, "in")
    BY <2>1, <2>2, <2>3
  <2> QED BY <2>3, <2>4, <2>5
<1> QED BY <1>4, <1>6, <1>7

-----------------------------------------------------------------------------
LEMMA InvInit == Init => Inv
<1> SUFFICES ASSUME Init PROVE Inv
  OBVIOUS
<1>1. /\ pc = [t \in Calls |-> "new"] /\ child = [t \in Calls |-> "none"]
      /\ stored = {} /\ copied = {} /\ freed = {} /\ locks = 0 /\ locked = {} /\ awaited = {} /\ ended = <<>>
  BY DEF Init
<1>2. PICK start \in Starts : setup = start[1] /\ table = [p \in Processes |-> [d \in Descriptors |->
            IF p = Parent /\ d \in start[2] THEN Standard ELSE Free]]
  BY DEF Init
<1>3. \A p \in Processes, d \in Descriptors : table[p][d] \in {Free, Standard}
  BY <1>2
<1>4. TypeOK
  <2>1. \E x \in Starts : setup = x[1]
    BY <1>2
  <2>2. table \in [Processes -> [Descriptors -> Ends \cup {Free, Standard}]]
    BY <1>2
  <2>3. /\ pc \in [Calls -> Places] /\ child \in [Calls -> Alive \cup {"none", "exited", "reaped"}]
        /\ stored \subseteq Calls /\ copied \subseteq Calls /\ freed \subseteq Calls \X Streams
    BY <1>1 DEF Places
  <2>4. /\ locks \in 0 .. MaxLocks /\ locked \subseteq Mutexes /\ awaited \subseteq Calls
        /\ ended \in {<<>>} \cup ({"group", "deleted", "freed"} \X Calls)
    <3>1. locks \in 0 .. MaxLocks
      BY <1>1, ProcessAssumption
    <3>2. locked \subseteq Mutexes /\ awaited \subseteq Calls
      BY <1>1
    <3>3. ended \in {<<>>} \cup ({"group", "deleted", "freed"} \X Calls)
      BY <1>1
    <3> QED BY <3>1, <3>2, <3>3
  <2> QED BY <2>1, <2>2, <2>3, <2>4 DEF TypeOK
<1>5. \A p \in Processes : Lacks(table[p], Ends)
  <2>1. Free \notin Ends /\ (Calls # {} => Standard \notin Ends) /\ (Calls = {} => Ends = {})
    BY Facts, EndsDiffer DEF Streams, Ends
  <2> QED BY <1>3, <2>1 DEF Lacks
<1>6. Tabled
  BY <1>1, <1>5, Facts DEF Tabled, Unique, Lacks
<1>7. Progress /\ Isolated /\ Redirected /\ AbortsExplained
  BY <1>1 DEF Progress, Isolated, Redirected, Plumbed, AbortsExplained
<1> QED BY <1>4, <1>6, <1>7 DEF Inv

-----------------------------------------------------------------------------
(***************************************************************************)
(* The calls of the parent.                                                *)
(***************************************************************************)
LEMMA CreateStep == ASSUME Inv, NEW t \in Calls, Create(t) PROVE Inv'
<1>0. TypeOK /\ Tabled /\ Progress /\ Isolated /\ Redirected /\ table \in [Processes -> Tables]
  BY DEF Inv, TypeOK, Tables, Contents
<1>1. /\ pc[t] = "new" /\ ended = <<>> /\ pc' = [pc EXCEPT ![t] = "ready"]
      /\ UNCHANGED <<setup, child, stored, copied, lockVars, freed, ended>>
  BY DEF Create, At, Goto
<1> DEFINE T == table[Parent]
<1>2. T \in Tables /\ Unique(T) /\ Lacks(T, EndsOf(t))
  BY <1>0, <1>1, Facts DEF Tabled
<1>3. PICK r \in Streams, s \in Streams :
        r # s /\ table' = [table EXCEPT ![Parent] = Piped(Piped(T, t, r), t, s)]
  BY DEF Create, Streams
<1> DEFINE P == Piped(Piped(T, t, r), t, s)
<1>4. P \in Tables /\ Unique(P) /\ Gained(P, T, EndsOf(t))
  <2> HIDE DEF T
  <2> QED BY <1>2, <1>3, PipedBoth
<1>5. \A p \in Processes : table'[p] = IF p = Parent THEN P ELSE table[p]
  BY <1>0, <1>3
<1>6. table' \in [Processes -> Tables]
  BY <1>0, <1>3, <1>4
<1> HIDE DEF T, P
<1>7. \A u \in Calls : pc'[u] = IF u = t THEN "ready" ELSE pc[u]
  BY <1>0, <1>1 DEF TypeOK
<1>8. TypeOK'
  <2>1. pc' \in [Calls -> Places]
    BY <1>0, <1>1 DEF TypeOK, Places
  <2> QED BY <1>0, <1>1, <1>6, <2>1 DEF TypeOK, lockVars, Tables, Contents
<1>9. Progress' /\ AbortsExplained'
  BY <1>0, <1>1, <1>7 DEF Progress, AbortsExplained
<1>10. child[t] = "none" /\ ~Plumbed(t)
  BY <1>0, <1>1 DEF Progress, Plumbed
<1>11. ASSUME NEW u \in Calls, u # t PROVE Within(P, T, EndsOf(u)) /\ (Lacks(T, EndsOf(u)) => Lacks(P, EndsOf(u)))
  <2>1. EndsOf(t) \cap EndsOf(u) = {} /\ Free \notin EndsOf(u)
    BY <1>11, OtherEnds, Facts
  <2> QED BY <1>4, <2>1 DEF Gained, Within, Lacks
<1>12. Tabled'
  <2> SUFFICES ASSUME NEW u \in Calls
               PROVE  /\ pc'[u] = "new" => Lacks(P, EndsOf(u))
                      /\ child'[u] = "forked" => Unique(table'[u]) /\ Within(P, table'[u], EndsOf(u))
    BY <1>4, <1>5, Facts DEF Tabled
  <2>1. CASE u = t
    BY <1>1, <1>7, <1>10, <2>1
  <2>2. CASE u # t
    <3>1. /\ pc[u] = "new" => Lacks(T, EndsOf(u))
          /\ child[u] = "forked" => Unique(table[u]) /\ Within(T, table[u], EndsOf(u))
      BY <1>0 DEF Tabled, T
    <3>2. table'[u] = table[u]
      BY <1>5, Facts
    <3> QED BY <1>1, <1>7, <1>11, <2>2, <3>1, <3>2 DEF Within
  <2> QED BY <2>1, <2>2
<1>14. \A u \in Calls : table'[u] = table[u]
  BY <1>5, Facts
<1>15. Isolated'
  BY <1>0, <1>1, <1>14 DEF Isolated, Plumbed, Far
<1>16. Redirected'
  <2> SUFFICES ASSUME NEW u \in Calls, Plumbed(u), pc'[u] \in {"forked", "handled"}
               PROVE  /\ Redirects(P, u, "out") => table[u][1] = Far(u, "out")
                      /\ Redirects(P, u, "in") =>
                            \/ table[u][0] = Far(u, "in")
                            \/ table[u][0] = Far(u, "out") /\ P[1] = Far(u, "in")
    BY <1>1, <1>5, <1>14, Facts DEF Redirected, Plumbed
  <2>1. u # t /\ "out" \in Streams /\ "in" \in Streams
    BY <1>10 DEF Streams
  <2>2. /\ Redirects(T, u, "out") => table[u][1] = Far(u, "out")
        /\ Redirects(T, u, "in") =>
              \/ table[u][0] = Far(u, "in")
              \/ table[u][0] = Far(u, "out") /\ T[1] = Far(u, "in")
    BY <1>0, <1>7, <2>1 DEF Redirected, T
  <2>3. \A x \in Streams :
          /\ Redirects(P, u, x) => Redirects(T, u, x)
          /\ Redirects(P, u, x) /\ T[1] = Far(u, x) => P[1] = Far(u, x)
    BY <1>2, <1>4, <1>11, <2>1, RedirectsLost
  <2> QED BY <2>1, <2>2, <2>3
<1> QED BY <1>8, <1>9, <1>12, <1>15, <1>16 DEF Inv

LEMMA ForkStep == ASSUME Inv, NEW t \in Calls, Fork(t) PROVE Inv'
<1>0. TypeOK /\ Tabled /\ Progress /\ Isolated /\ Redirected /\ table \in [Processes -> Tables]
  BY DEF Inv, TypeOK, Tables, Contents
<1>1. /\ pc[t] = "ready" /\ ended = <<>> /\ pc' = [pc EXCEPT ![t] = "forked"]
      /\ child' = [child EXCEPT ![t] = "forked"] /\ table' = [table EXCEPT ![t] = table[Parent]]
      /\ copied' \in {copied, copied \cup {t}}
      /\ UNCHANGED <<setup, stored, lockVars, freed, ended>>
  BY DEF Fork, At, Goto, Become
<1>2. \A u \in Calls : pc'[u] = (IF u = t THEN "forked" ELSE pc[u])
                       /\ child'[u] = (IF u = t THEN "forked" ELSE child[u])
  BY <1>0, <1>1 DEF TypeOK
<1>3. /\ table'[Parent] = table[Parent] /\ table'[t] = table[Parent]
      /\ \A p \in Processes : p # t => table'[p] = table[p]
  BY <1>0, <1>1, Facts
<1>4. table' \in [Processes -> Tables]
  BY <1>0, <1>1, Facts
<1>5. TypeOK'
  <2>1. /\ pc' \in [Calls -> Places] /\ child' \in [Calls -> Alive \cup {"none", "exited", "reaped"}]
        /\ copied' \subseteq Calls
    BY <1>0, <1>1 DEF TypeOK, Places, Alive
  <2> QED BY <1>0, <1>1, <1>4, <2>1 DEF TypeOK, lockVars, Tables, Contents
<1>6. Progress' /\ AbortsExplained'
  BY <1>0, <1>1, <1>2 DEF Progress, AbortsExplained
<1>7. Tabled'
  BY <1>0, <1>2, <1>3, Facts DEF Tabled, Within
<1>9. ~Plumbed(t)' /\ \A u \in Calls : u # t => (Plumbed(u)' <=> Plumbed(u))
  BY <1>2 DEF Plumbed
<1>10. Isolated'
  BY <1>0, <1>1, <1>3, <1>9, Facts DEF Isolated, Far
<1>11. Redirected'
  BY <1>0, <1>2, <1>3, <1>9, Facts DEF Redirected
<1> QED BY <1>5, <1>6, <1>7, <1>10, <1>11 DEF Inv

(* The steps of a call that only move it on, or end the parent. *)
LEMMA FaultStep ==
  ASSUME Inv, NEW t \in Calls, UseFreed(t) \/ TerminateGroup(t) \/ AbortDeleted(t)
  PROVE  Inv'
<1>0. TypeOK /\ Progress
  BY DEF Inv
<1>1. UNCHANGED <<setup, table, pc, child, stored, copied, locks, locked, awaited, freed>>
  BY DEF UseFreed, TerminateGroup, AbortDeleted, Fault, callVars, lockVars
<1>2. PICK why \in {"freed", "group", "deleted"} :
        /\ ended' = <<why, t>>
        /\ why = "group" => t \notin stored /\ pc[t] # "deleted"
        /\ why = "deleted" => pc[t] = "deleted"
  BY DEF UseFreed, TerminateGroup, AbortDeleted, Fault
<1>3. TypeOK'
  BY <1>0, <1>1, <1>2 DEF TypeOK
<1>4. TableType' /\ Calm
  BY <1>0, <1>1 DEF TypeOK, TableType, Tables, Contents, Calm, Plumbed
<1>5. Progress'
  BY <1>0, <1>1 DEF Progress
<1>6. AbortsExplained'
  BY <1>0, <1>1, <1>2 DEF AbortsExplained, Progress
<1> QED BY <1>3, <1>4, <1>5, <1>6, CalmStep DEF Inv

LEMMA MoveStep ==
  ASSUME Inv, NEW t \in Calls, ForkFails(t) \/ Store(t) \/ Wait(t) \/ Delete(t) \/ Leave(t)
  PROVE  Inv'
<1>0. TypeOK /\ Progress /\ t \in Calls
  BY DEF Inv
<1>1. UNCHANGED <<setup, table, copied, locks, locked, awaited, freed, ended>> /\ ended = <<>>
  BY DEF ForkFails, Store, Wait, Delete, Leave, lockVars, At
<1>2. PICK place \in Places \ {"new"} :
        /\ pc' = [pc EXCEPT ![t] = place]
        /\ place \in {"forked", "handled"} => pc[t] = "forked"
        /\ place = "ready" => pc[t] = "ready"
        /\ \/ child' = child /\ child[t] = "none" /\ place = "returned"
           \/ child' = child /\ place = "handled" /\ t \in stored'
           \/ child' = [child EXCEPT ![t] = "reaped"] /\ pc[t] # "forked" /\ child[t] = "exited"
           \/ child' = child /\ pc[t] \in {"returned", "deleted"}
  BY <1>0 DEF ForkFails, Store, Wait, Delete, Leave, Goto, Become, At, Places, Progress
<1>3. stored \subseteq stored' /\ stored' \subseteq Calls
  BY <1>0 DEF ForkFails, Store, Wait, Delete, Leave, TypeOK
<1>4. /\ \A u \in Calls : pc'[u] = IF u = t THEN place ELSE pc[u]
      /\ \A u \in Calls : u # t => child'[u] = child[u]
      /\ child'[t] \in {child[t], "reaped"}
  BY <1>0, <1>2 DEF TypeOK
<1>5. TypeOK'
  <2>1. pc' \in [Calls -> Places] /\ child' \in [Calls -> Alive \cup {"none", "exited", "reaped"}]
    BY <1>0, <1>2 DEF TypeOK
  <2> QED BY <1>0, <1>1, <1>3, <2>1 DEF TypeOK
<1>6. TableType' /\ Calm
  BY <1>0, <1>1, <1>2, <1>4 DEF TypeOK, TableType, Tables, Contents, Calm, Plumbed
<1>7. Progress'
  BY <1>0, <1>2, <1>3, <1>4 DEF Progress, TypeOK
<1>8. AbortsExplained'
  BY <1>1 DEF AbortsExplained
<1> QED BY <1>5, <1>6, <1>7, <1>8, CalmStep DEF Inv

(* Ends of the parent are closed, by the call or by the clients. *)
Closing ==
  /\ \E P \in Tables :
       /\ table' = [table EXCEPT ![Parent] = P]
       /\ \A d \in Descriptors : P[d] = table[Parent][d] \/ P[d] = Free
  /\ UNCHANGED <<setup, child, stored, copied, locks, locked, awaited, ended>> /\ ended = <<>>
  /\ freed' \subseteq Calls \X Streams
  /\ pc' = pc \/ \E t \in Calls : pc[t] = "handled" /\ pc' = [pc EXCEPT ![t] = "waiting"]

LEMMA ClosingStep == ASSUME Inv, Closing PROVE Inv'
<1>0. TypeOK /\ Progress /\ table \in [Processes -> Tables]
  BY DEF Inv, TypeOK, Tables, Contents
<1>1. PICK P \in Tables :
        /\ table' = [table EXCEPT ![Parent] = P]
        /\ \A d \in Descriptors : P[d] = table[Parent][d] \/ P[d] = Free
  BY DEF Closing
<1>2. /\ UNCHANGED <<setup, child, stored, copied, locks, locked, awaited, ended>> /\ ended = <<>>
      /\ freed' \subseteq Calls \X Streams
      /\ pc' = pc \/ \E t \in Calls : pc[t] = "handled" /\ pc' = [pc EXCEPT ![t] = "waiting"]
  BY DEF Closing
<1>3. /\ pc' \in [Calls -> Places]
      /\ \A u \in Calls : pc'[u] = pc[u] \/ (pc[u] = "handled" /\ pc'[u] = "waiting")
  BY <1>0, <1>2 DEF TypeOK, Places
<1>4. table' \in [Processes -> Tables] /\ table'[Parent] = P /\ \A u \in Calls : table'[u] = table[u]
  BY <1>0, <1>1, Facts
<1>5. TypeOK'
  BY <1>0, <1>2, <1>3, <1>4 DEF TypeOK, Tables, Contents
<1>6. TableType' /\ Calm
  BY <1>1, <1>2, <1>3, <1>4 DEF TableType, Calm, Plumbed
<1>7. Progress' /\ AbortsExplained'
  BY <1>0, <1>2, <1>3 DEF Progress, AbortsExplained
<1> QED BY <1>5, <1>6, <1>7, CalmStep DEF Inv

LEMMA CloseStep ==
  ASSUME Inv, \/ \E t \in Calls : CloseFar(t)
              \/ \E t \in Calls, d \in Descriptors : Close(t, d)
              \/ \E t \in Calls, s \in Streams : Drop(t, s)
  PROVE  Inv'
<1>0. TypeOK /\ table \in [Processes -> Tables] /\ table[Parent] \in Tables /\ freed \subseteq Calls \X Streams
  BY Facts DEF Inv, TypeOK, Tables, Contents
<1>1. ASSUME NEW t \in Calls, CloseFar(t) PROVE Closing
  <2> DEFINE P == Without(table[Parent], {Far(t, s) : s \in Streams})
  <2>1. P \in Tables /\ \A d \in Descriptors : P[d] = table[Parent][d] \/ P[d] = Free
    BY <1>0, CutDown
  <2>2. table' = [table EXCEPT ![Parent] = P]
    BY <1>1 DEF CloseFar
  <2> HIDE DEF P
  <2> QED BY <1>0, <1>1, <2>1, <2>2 DEF Closing, CloseFar, At, Goto, lockVars
<1>2. ASSUME NEW t \in Calls, NEW d \in Descriptors, Close(t, d) PROVE Closing
  <2> DEFINE P == [table[Parent] EXCEPT ![d] = Free]
  <2>1. P \in Tables /\ \A e \in Descriptors : P[e] = table[Parent][e] \/ P[e] = Free
    BY <1>0 DEF Tables, Contents
  <2>2. table' = [table EXCEPT ![Parent] = P]
    BY <1>2 DEF Close
  <2> HIDE DEF P
  <2> QED BY <1>0, <1>2, <2>1, <2>2 DEF Closing, Close, callVars, lockVars
<1>3. ASSUME NEW t \in Calls, NEW s \in Streams, Drop(t, s) PROVE Closing
  <2> DEFINE P == Without(table[Parent], {Near(t, s)})
  <2>1. P \in Tables /\ \A d \in Descriptors : P[d] = table[Parent][d] \/ P[d] = Free
    BY <1>0, CutDown
  <2>2. table' = [table EXCEPT ![Parent] = P]
    BY <1>3 DEF Drop
  <2> HIDE DEF P
  <2>3. freed' \subseteq Calls \X Streams
    <3>1. freed' = freed \cup {<<t, s>>} /\ <<t, s>> \in Calls \X Streams
      BY <1>3 DEF Drop
    <3> QED BY <1>0, <3>1
  <2>4. UNCHANGED <<setup, pc, child, stored, copied, locks, locked, awaited, ended>> /\ ended = <<>>
    BY <1>3 DEF Drop, callVars, lockVars
  <2>5. \E Q \in Tables :
          /\ table' = [table EXCEPT ![Parent] = Q]
          /\ \A d \in Descriptors : Q[d] = table[Parent][d] \/ Q[d] = Free
    BY <2>1, <2>2
  <2> QED BY <2>3, <2>4, <2>5 DEF Closing
<1> QED BY <1>1, <1>2, <1>3, ClosingStep

-----------------------------------------------------------------------------
(***************************************************************************)
(* The children.                                                           *)
(***************************************************************************)
Altered(t, P, states) ==
  /\ table' = [table EXCEPT ![t] = P] /\ P \in Tables
  /\ \E state \in states : child' = [child EXCEPT ![t] = state]
  /\ UNCHANGED <<setup, pc, stored, copied, locks, locked, awaited, freed, ended>> /\ ended = <<>>
  /\ child[t] \in Alive

(* Nobody else's table, and no call, is concerned. *)
LEMMA AlteredOnly ==
  ASSUME Inv, NEW t \in Calls, NEW P, Altered(t, P, {"running", "astray", "exited"})
  PROVE  TypeOK' /\ Tabled' /\ Progress' /\ AbortsExplained'
<1>0. TypeOK /\ Tabled /\ Progress /\ table \in [Processes -> Tables]
  BY DEF Inv, TypeOK, Tables, Contents
<1>1. /\ table' = [table EXCEPT ![t] = P] /\ P \in Tables /\ child[t] \in Alive
      /\ UNCHANGED <<setup, pc, stored, copied, locks, locked, awaited, freed, ended>> /\ ended = <<>>
  BY DEF Altered
<1>2. PICK state \in {"running", "astray", "exited"} : child' = [child EXCEPT ![t] = state]
  BY DEF Altered
<1>3. \A u \in Calls : child'[u] = IF u = t THEN state ELSE child[u]
  BY <1>0, <1>2 DEF TypeOK
<1>4. \A p \in Processes : table'[p] = IF p = t THEN P ELSE table[p]
  BY <1>0, <1>1
<1>5. TypeOK'
  <2>1. table' \in [Processes -> Tables]
    BY <1>0, <1>1
  <2>2. child' \in [Calls -> Alive \cup {"none", "exited", "reaped"}]
    BY <1>0, <1>2 DEF TypeOK, Alive
  <2> QED BY <1>0, <1>1, <2>1, <2>2 DEF TypeOK, Tables, Contents
<1>6. Tabled'
  BY <1>0, <1>1, <1>3, <1>4, Facts DEF Tabled
<1>8. Progress' /\ AbortsExplained'
  BY <1>0, <1>1, <1>3 DEF Progress, AbortsExplained, Alive
<1> QED BY <1>5, <1>6, <1>8

(* The child has the pipes that it was forked with: what is closed in the  *)
(* parent since then, a redirected stream among it, is not asked for.      *)
LEMMA ExecStep == ASSUME Inv, NEW t \in Calls, Exec(t) PROVE Inv'
<1> DEFINE T == table[t]
           P == Plumbing(T, t)
<1>0. /\ TypeOK /\ Tabled /\ Progress /\ Isolated /\ Redirected
      /\ table \in [Processes -> Tables] /\ T \in Tables
  BY Facts DEF Inv, TypeOK, Tables, Contents
<1>1. /\ child[t] = "forked" /\ ended = <<>> /\ table' = [table EXCEPT ![t] = P]
      /\ UNCHANGED <<setup, pc, stored, copied, locks, locked, awaited, freed, ended>>
      /\ child' = [child EXCEPT ![t] = "running"] \/ child' = [child EXCEPT ![t] = "astray"]
  BY DEF Exec, ChildAt, Become, lockVars
<1>2. /\ P \in Tables
      /\ \A d \in Descriptors : P[d] # Free =>
           \E s \in Streams : P[d] = Far(t, s) /\ Has(T, Far(t, s))
      /\ Redirects(T, t, "out") => P[1] = Far(t, "out")
      /\ Redirects(T, t, "in") =>
           P[0] = Far(t, "in") \/ (P[0] = Far(t, "out") /\ T[1] = Far(t, "in"))
  <2> HIDE DEF T
  <2> QED BY <1>0, PlumbedWell
<1>3. Unique(T) /\ Within(table[Parent], T, EndsOf(t)) /\ table[Parent] \in Tables
  BY <1>0, <1>1, Facts DEF Tabled
<1> HIDE DEF T, P
<1>4. \A p \in Processes : table'[p] = IF p = t THEN P ELSE table[p]
  BY <1>0, <1>1
<1>5. table'[t] = P /\ table'[Parent] = table[Parent] /\ \A u \in Calls : u # t => table'[u] = table[u]
  BY <1>4, Facts
<1>6. Plumbed(t)' /\ \A u \in Calls : u # t => child'[u] = child[u]
  BY <1>0, <1>1 DEF TypeOK, Plumbed
<1>8. TypeOK' /\ Tabled' /\ Progress' /\ AbortsExplained'
  <2>1. Altered(t, P, {"running", "astray", "exited"})
    BY <1>1, <1>2 DEF Altered, Alive
  <2> QED BY <2>1, AlteredOnly
<1>9. Isolated'
  <2> SUFFICES ASSUME NEW u \in Calls, Plumbed(u)', NEW d \in Descriptors
               PROVE  table'[u][d] \in {Free} \cup {Far(u, s) : s \in Streams}
    BY <1>1 DEF Isolated, Far
  <2>1. CASE u = t
    BY <1>2, <1>5, <2>1
  <2>2. CASE u # t
    BY <1>0, <1>5, <1>6, <2>2 DEF Isolated, Plumbed
  <2> QED BY <2>1, <2>2
<1>10. Redirected'
  <2> SUFFICES ASSUME NEW u \in Calls, Plumbed(u)', pc[u] \in {"forked", "handled"}
               PROVE  /\ Redirects(table[Parent], u, "out") => table'[u][1] = Far(u, "out")
                      /\ Redirects(table[Parent], u, "in") =>
                            \/ table'[u][0] = Far(u, "in")
                            \/ table'[u][0] = Far(u, "out") /\ table[Parent][1] = Far(u, "in")
    BY <1>1, <1>5 DEF Redirected
  <2>1. CASE u = t
    <3>1. \A s \in Streams :
            /\ Redirects(table[Parent], t, s) => Redirects(T, t, s)
            /\ Redirects(table[Parent], t, s) /\ T[1] = Far(t, s) => table[Parent][1] = Far(t, s)
      BY <1>0, <1>3, RedirectsLost
    <3>2. "out" \in Streams /\ "in" \in Streams
      BY DEF Streams
    <3> QED BY <1>2, <1>5, <2>1, <3>1, <3>2
  <2>2. CASE u # t
    BY <1>0, <1>5, <1>6, <2>2 DEF Redirected, Plumbed
  <2> QED BY <2>1, <2>2
<1> QED BY <1>8, <1>9, <1>10 DEF Inv

LEMMA GoneStep ==
  ASSUME Inv, NEW t \in Calls, Exit(t) \/ StrayExit(t) \/ Terminate(t)
  PROVE  Inv'
<1>0. TypeOK /\ Isolated /\ Redirected /\ table \in [Processes -> Tables]
  BY DEF Inv, TypeOK, Tables, Contents
<1>1. /\ table' = [table EXCEPT ![t] = Nothing] /\ child' = [child EXCEPT ![t] = "exited"]
      /\ UNCHANGED <<setup, pc, stored, copied, locks, locked, awaited, freed, ended>>
      /\ child[t] \in Alive /\ ended = <<>>
  BY DEF Exit, StrayExit, Terminate, Abortable, Gone, Become, ChildAt, lockVars, Alive
<1>2. Nothing \in Tables /\ \A d \in Descriptors : Nothing[d] = Free
  BY DEF Nothing, Tables, Contents
<1>4. TypeOK' /\ Tabled' /\ Progress' /\ AbortsExplained'
  <2>1. Altered(t, Nothing, {"running", "astray", "exited"})
    BY <1>1, <1>2 DEF Altered
  <2> QED BY <2>1, AlteredOnly
<1>5. ~Plumbed(t)' /\ \A u \in Calls : u # t => (Plumbed(u)' <=> Plumbed(u))
  BY <1>0, <1>1 DEF TypeOK, Plumbed
<1>6. table'[Parent] = table[Parent] /\ \A u \in Calls : u # t => table'[u] = table[u]
  BY <1>0, <1>1, Facts
<1>7. Isolated'
  BY <1>0, <1>1, <1>5, <1>6 DEF Isolated, Far
<1>8. Redirected'
  BY <1>0, <1>1, <1>5, <1>6 DEF Redirected
<1> QED BY <1>4, <1>7, <1>8 DEF Inv

LEMMA LockStep == ASSUME Inv, NEW m \in Mutexes, Lock(m) \/ Unlock(m) PROVE Inv'
<1>0. TypeOK /\ Progress /\ AbortsExplained
  BY DEF Inv
<1>1. UNCHANGED <<setup, table, pc, child, stored, copied, freed, ended>>
  BY DEF Lock, Unlock, callVars
<1>2. locked' \subseteq Mutexes /\ locks' \in 0 .. MaxLocks /\ awaited' \subseteq Calls
  <2>1. CASE Lock(m)
    BY <1>0, <2>1, ProcessAssumption DEF Lock, TypeOK
  <2>2. CASE Unlock(m)
    BY <1>0, <2>2 DEF Unlock, TypeOK
  <2> QED BY <2>1, <2>2
<1>3. TypeOK'
  BY <1>0, <1>1, <1>2 DEF TypeOK
<1>4. TableType' /\ Calm
  BY <1>0, <1>1 DEF TypeOK, TableType, Tables, Contents, Calm, Plumbed
<1>5. Progress' /\ AbortsExplained'
  BY <1>0, <1>1 DEF Progress, AbortsExplained
<1> QED BY <1>3, <1>4, <1>5, CalmStep DEF Inv

LEMMA StutterStep == ASSUME Inv, UNCHANGED vars PROVE Inv'
<1>0. TypeOK /\ Progress /\ AbortsExplained
  BY DEF Inv
<1>1. UNCHANGED <<setup, table, pc, child, stored, copied, locks, locked, awaited, freed, ended>>
  BY DEF vars, callVars, lockVars
<1>2. TypeOK'
  BY <1>0, <1>1 DEF TypeOK
<1>3. TableType' /\ Calm
  BY <1>0, <1>1 DEF TypeOK, TableType, Tables, Contents, Calm, Plumbed
<1>4. Progress' /\ AbortsExplained'
  BY <1>0, <1>1 DEF Progress, AbortsExplained
<1> QED BY <1>2, <1>3, <1>4, CalmStep DEF Inv

LEMMA InvStep == Inv /\ [Next]_vars => Inv'
<1> SUFFICES ASSUME Inv, [Next]_vars PROVE Inv'
  OBVIOUS
<1>1. CASE \E t \in Calls : Create(t)
  BY <1>1, CreateStep
<1>2. CASE \E t \in Calls : Execute(t)
  BY <1>2, FaultStep, ForkStep, MoveStep, CloseStep DEF Execute
<1>3. CASE \E t \in Calls : Child(t) \/ Exit(t)
  BY <1>3, ExecStep, GoneStep DEF Child
<1>4. CASE \E t \in Calls : Abort(t)
  BY <1>4, FaultStep, GoneStep DEF Abort
<1>5. CASE \/ \E t \in Calls, d \in Descriptors : Close(t, d)
           \/ \E t \in Calls, s \in Streams : Drop(t, s)
  BY <1>5, CloseStep
<1>6. CASE (\E m \in Mutexes : Lock(m)) \/ Release
  BY <1>6, LockStep DEF Release
<1>7. CASE UNCHANGED vars
  BY <1>7, StutterStep
<1> QED BY <1>1, <1>2, <1>3, <1>4, <1>5, <1>6, <1>7 DEF Next

LEMMA AlwaysInv == Spec => []Inv
  BY InvInit, InvStep, PTL DEF Spec

-----------------------------------------------------------------------------
(***************************************************************************)
(* Every variable of zs__process_execute and of its clients keeps its      *)
(* type, also when the numbers of descriptors are used up.                 *)
(***************************************************************************)
THEOREM TypeCorrect == Spec => []TypeOK
<1>1. Inv => TypeOK
  BY DEF Inv
<1> QED BY <1>1, AlwaysInv, PTL

(***************************************************************************)
(* However many processes are forked at the same time, the child of        *)
(* zs__process_execute goes to execv with none of the descriptors of the   *)
(* parent but its own two ends.                                            *)
(***************************************************************************)
THEOREM OnlyItsOwnEnds == Spec => []Isolated
<1>1. Inv => Isolated
  BY DEF Inv
<1> QED BY <1>1, AlwaysInv, PTL

(***************************************************************************)
(* The two dup2 of zs__process_execute give a child its pipes as output    *)
(* and input, whatever numbers they have and whatever its client closes    *)
(* before, between and after; unless the end for the input has number 1.   *)
(***************************************************************************)
THEOREM PipesInPlace == Spec => []Redirected
<1>1. Inv => Redirected
  BY DEF Inv
<1> QED BY <1>1, AlwaysInv, PTL

(***************************************************************************)
(* ZSProcess::InternAbort signals the group of the process only while no   *)
(* child was forked, when fork failed, or before the handle is stored, and *)
(* uses the deleted object only when no child is left.                     *)
(***************************************************************************)
THEOREM AbortsOfTheGroup == Spec => []AbortsExplained
<1>1. Inv => AbortsExplained
  BY DEF Inv
<1> QED BY <1>1, AlwaysInv, PTL
=============================================================================
