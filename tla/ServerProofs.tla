---------------------------- MODULE ServerProofs -----------------------------
(***************************************************************************)
(* What is proved of ZsServer for all kinds of servers, any number of      *)
(* clients, connections, descriptors and aborts, and any sizes.            *)
(***************************************************************************)
EXTENDS ZsServer, FiniteSetTheorems, SequenceTheorems, WellFoundedInduction, TLAPS

Increasing(L) == \A i, j \in DOMAIN L : i < j => L[i] < L[j]

(* The first n connections are in the line L, in their turn, or gone. *)
Placed(L, n, gone) ==
  /\ Increasing(L)
  /\ 1 .. n = Range(L) \cup gone
  /\ Range(L) \cap gone = {}

InLine == Placed(Line, arrived, withdrawn)

(* Where the server's thread is tells what there is. *)
Handing == inHand # 0 <=> pc \in {"callback", "threads"}

Unreachable ==
  /\ pc = "create" => socket = "none"
  /\ pc = "bind" => socket = "open"
  /\ pc = "listen" => socket = "bound" /\ kind # "udp"
  /\ pc = "failed" => socket # "listening" /\ (kind = "udp" => socket # "bound")
  /\ pc \in Making => arrived = 0

Buffers == DatagramsRead /\ readable \subseteq open

(***************************************************************************)
(* Only the thread that has the mutex is in zs__thread_abort.  The server  *)
(* ends after a byte was read, and every write but that of the thread in   *)
(* the abort is done.                                                      *)
(***************************************************************************)
OneAborts == \A t \in Threads : at[t] # "idle" <=> mapOwner = t

Written ==
  /\ bytes <= aborts /\ \A t \in Threads : at[t] = "write" => bytes < aborts
  /\ pc \in {"destroy", "closing", "free", "leave", "done"} => bytes > 0
  /\ pc \in {"closing", "free", "leave", "done"} \/ ends = {"reader", "writer"}
  /\ ended => aborts > 1

ServerType ==
  kind \in Kinds /\ pc \in Places /\ inHand \in 0 .. MaxConnects /\ served \in Seq(Connections)
LineType ==
  /\ socket \in {"none", "open", "bound", "listening"}
  /\ backlog \in Seq(Connections) /\ Len(backlog) <= Backlog
  /\ arrived \in 0 .. MaxConnects /\ withdrawn \subseteq Connections
  /\ size \in [Connections -> Sizes \cup {0}]
PipeType == bytes \in 0 .. MaxAborts /\ ends \subseteq {"reader", "writer"}
StreamType ==
  /\ open \subseteq Connections /\ (kind # "udp" => Cardinality(open) <= MaxOpen)
  /\ readable \subseteq Connections /\ unread \in [Connections -> 0 .. BufferSize]
AbortType ==
  /\ at \in [Threads -> {"idle", "write", "unlock"}] /\ aborts \in 0 .. MaxAborts
  /\ mapOwner \in Threads \cup {Nobody}
Types == ServerType /\ LineType /\ PipeType /\ StreamType /\ AbortType /\ ended \in BOOLEAN

Inv ==
  /\ Types /\ InLine /\ Handing /\ Unreachable /\ Buffers /\ OneAborts /\ Written

-----------------------------------------------------------------------------
(***************************************************************************)
(* Sequences: the first one goes to the other end, one is taken out, one   *)
(* is added.                                                               *)
(***************************************************************************)
LEMMA HeadFirst ==
  ASSUME NEW S, NEW b \in Seq(S), b # <<>>
  PROVE  /\ Head(b) \in S /\ Tail(b) \in Seq(S) /\ Len(b) \in Nat \ {0} /\ Head(b) = b[1]
         /\ Len(Tail(b)) = Len(b) - 1
         /\ b = <<Head(b)>> \o Tail(b)
<1>1. /\ Head(b) \in S /\ Tail(b) \in Seq(S) /\ Len(b) \in Nat \ {0} /\ Len(Tail(b)) = Len(b) - 1
      /\ \A i \in 1 .. Len(Tail(b)) : Tail(b)[i] = b[i + 1]
  BY HeadTailProperties, EmptySeq
<1>2. Head(b) = b[1]
  OBVIOUS
<1> DEFINE h == <<Head(b)>>
<1>3. h \in Seq(S) /\ Len(h) = 1 /\ h[1] = Head(b)
  BY <1>1
<1>4. /\ h \o Tail(b) \in Seq(S) /\ Len(h \o Tail(b)) = Len(h) + Len(Tail(b))
      /\ \A i \in 1 .. Len(h) + Len(Tail(b)) :
           (h \o Tail(b))[i] = IF i <= Len(h) THEN h[i] ELSE Tail(b)[i - Len(h)]
  <2> HIDE DEF h
  <2> QED BY <1>1, <1>3, ConcatProperties
<1>5. b = h \o Tail(b)
  <2> HIDE DEF h
  <2>1. \A i \in 1 .. Len(b) : b[i] = (h \o Tail(b))[i]
    BY <1>1, <1>2, <1>3, <1>4
  <2>2. Len(b) = Len(h \o Tail(b))
    BY <1>1, <1>3, <1>4
  <2> QED BY <1>4, <2>1, <2>2, SeqEqual
<1> QED BY <1>1, <1>2, <1>5

LEMMA Removed ==
  ASSUME NEW S, NEW L \in Seq(S), NEW k \in 1 .. Len(L)
  PROVE  /\ RemoveAt(L, k) \in Seq(S) /\ Len(RemoveAt(L, k)) = Len(L) - 1 /\ Len(L) \in Nat \ {0}
         /\ \A i \in 1 .. Len(L) - 1 : RemoveAt(L, k)[i] = IF i < k THEN L[i] ELSE L[i + 1]
<1>0. Len(L) \in Nat \ {0} /\ k \in Nat \ {0} /\ k <= Len(L) /\ \A i \in 1 .. Len(L) : L[i] \in S
  BY LenProperties, ElementOfSeq
<1> DEFINE p == SubSeq(L, 1, k - 1)
           q == SubSeq(L, k + 1, Len(L))
<1>1. p \in Seq(S) /\ Len(p) = k - 1 /\ \A i \in 1 .. k - 1 : p[i] = L[i]
  BY <1>0, SubSeqProperties
<1>2. q \in Seq(S) /\ Len(q) = Len(L) - k /\ \A i \in 1 .. Len(L) - k : q[i] = L[k + i]
  BY <1>0, SubSeqProperties
<1>3. /\ p \o q \in Seq(S) /\ Len(p \o q) = Len(p) + Len(q)
      /\ \A i \in 1 .. Len(p) + Len(q) : (p \o q)[i] = IF i <= Len(p) THEN p[i] ELSE q[i - Len(p)]
  <2> HIDE DEF p, q
  <2> QED BY <1>1, <1>2, ConcatProperties
<1>4. RemoveAt(L, k) = p \o q
  BY DEF RemoveAt
<1> HIDE DEF p, q
<1>5. ASSUME NEW i \in 1 .. Len(L) - 1 PROVE (p \o q)[i] = IF i < k THEN L[i] ELSE L[i + 1]
  <2>1. CASE i < k
    BY <1>0, <1>1, <1>2, <1>3, <2>1
  <2>2. CASE ~(i < k)
    <3>1. i - (k - 1) \in 1 .. Len(L) - k /\ k + (i - (k - 1)) = i + 1
      BY <1>0, <2>2
    <3>2. i \in 1 .. Len(p) + Len(q) /\ ~(i <= Len(p)) /\ i - Len(p) = i - (k - 1)
      BY <1>0, <1>1, <1>2, <2>2
    <3>3. (p \o q)[i] = q[i - (k - 1)]
      BY <1>3, <3>2
    <3> QED BY <1>2, <2>2, <3>1, <3>3
  <2> QED BY <2>1, <2>2
<1>6. Len(p) + Len(q) = Len(L) - 1
  BY <1>0, <1>1, <1>2
<1> QED BY <1>0, <1>3, <1>4, <1>5, <1>6

LEMMA TailIsRemoved ==
  ASSUME NEW S, NEW b \in Seq(S), b # <<>>
  PROVE  1 \in 1 .. Len(b) /\ Tail(b) = RemoveAt(b, 1)
<1>1. 1 \in 1 .. Len(b) /\ Len(Tail(b)) = Len(b) - 1 /\ Tail(b) \in Seq(S) /\ Len(b) \in Nat
      /\ \A i \in 1 .. Len(Tail(b)) : Tail(b)[i] = b[i + 1]
  BY HeadTailProperties, EmptySeq
<1>2. \A i \in 1 .. Len(b) - 1 : ~(i < 1)
  BY <1>1
<1> QED BY <1>1, <1>2, Removed, SeqEqual

LEMMA RemovedLater ==
  ASSUME NEW S, NEW a \in Seq(S), NEW b \in Seq(S), NEW k \in 1 .. Len(b)
  PROVE  /\ Len(a) + k \in 1 .. Len(a \o b) /\ (a \o b)[Len(a) + k] = b[k]
         /\ RemoveAt(a \o b, Len(a) + k) = a \o RemoveAt(b, k)
<1> DEFINE c == a \o b
           r == RemoveAt(b, k)
           n == Len(a) + k
<1>1. /\ c \in Seq(S) /\ Len(c) = Len(a) + Len(b) /\ Len(a) \in Nat /\ Len(b) \in Nat
      /\ \A i \in 1 .. Len(a) + Len(b) : c[i] = IF i <= Len(a) THEN a[i] ELSE b[i - Len(a)]
  BY ConcatProperties, LenProperties
<1>2. /\ r \in Seq(S) /\ Len(r) = Len(b) - 1 /\ Len(b) \in Nat \ {0}
      /\ \A i \in 1 .. Len(b) - 1 : r[i] = IF i < k THEN b[i] ELSE b[i + 1]
  BY Removed
<1>3. n \in 1 .. Len(c) /\ c[n] = b[k]
  <2> HIDE DEF c
  <2>1. n \in 1 .. Len(a) + Len(b) /\ ~(n <= Len(a)) /\ n - Len(a) = k
    BY <1>1
  <2> HIDE DEF n
  <2> QED BY <1>1, <2>1
<1>4. /\ RemoveAt(c, n) \in Seq(S) /\ Len(RemoveAt(c, n)) = Len(c) - 1
      /\ \A i \in 1 .. Len(c) - 1 : RemoveAt(c, n)[i] = IF i < n THEN c[i] ELSE c[i + 1]
  <2> HIDE DEF c, n
  <2> QED BY <1>1, <1>3, Removed
<1>5. /\ a \o r \in Seq(S) /\ Len(a \o r) = Len(a) + Len(r)
      /\ \A i \in 1 .. Len(a) + Len(r) : (a \o r)[i] = IF i <= Len(a) THEN a[i] ELSE r[i - Len(a)]
  <2> HIDE DEF r
  <2> QED BY <1>2, ConcatProperties
<1> HIDE DEF c, r
<1>6. ASSUME NEW i \in 1 .. Len(a) + Len(b) - 1
      PROVE  RemoveAt(c, n)[i] = (a \o r)[i]
  <2>1. i \in 1 .. Len(c) - 1 /\ i \in 1 .. Len(a) + Len(r) /\ i \in 1 .. Len(a) + Len(b)
        /\ i + 1 \in 1 .. Len(a) + Len(b)
    BY <1>1, <1>2
  <2>2. CASE i <= Len(a)
    BY <1>1, <1>2, <1>3, <1>4, <1>5, <2>1, <2>2
  <2>3. CASE i > Len(a)
    <3>1. i - Len(a) \in 1 .. Len(b) - 1 /\ (i < n <=> i - Len(a) < k) /\ (i + 1) - Len(a) = (i - Len(a)) + 1
      BY <1>1, <1>2, <2>3
    <3>2. (a \o r)[i] = IF i - Len(a) < k THEN b[i - Len(a)] ELSE b[(i - Len(a)) + 1]
      <4>1. (a \o r)[i] = r[i - Len(a)]
        BY <1>1, <1>5, <2>1, <2>3
      <4> QED BY <1>2, <3>1, <4>1
    <3>3. c[i] = b[i - Len(a)] /\ c[i + 1] = b[(i - Len(a)) + 1]
      BY <1>1, <2>1, <2>3, <3>1
    <3> QED BY <1>4, <2>1, <3>1, <3>2, <3>3
  <2>4. i <= Len(a) \/ i > Len(a)
    BY <1>1
  <2> QED BY <2>2, <2>3, <2>4
<1>7. RemoveAt(c, n) = a \o r
  <2> HIDE DEF n
  <2>1. Len(RemoveAt(c, n)) = Len(a \o r) /\ Len(RemoveAt(c, n)) = Len(a) + Len(b) - 1
    BY <1>1, <1>2, <1>4, <1>5
  <2> QED BY <1>4, <1>5, <1>6, <2>1, SeqEqual
<1> QED BY <1>3, <1>7 DEF c, r

LEMMA InOrderAppended ==
  ASSUME NEW L \in Seq(Nat), Increasing(L), NEW n \in Nat, \A i \in DOMAIN L : L[i] < n
  PROVE  L \o <<n>> \in Seq(Nat) /\ Increasing(L \o <<n>>) /\ Range(L \o <<n>>) = Range(L) \cup {n}
<1>1. L \o <<n>> = Append(L, n)
  BY AppendIsConcat
<1>2. /\ Append(L, n) \in Seq(Nat) /\ Len(Append(L, n)) = Len(L) + 1 /\ Len(L) \in Nat
      /\ \A i \in 1 .. Len(L) : Append(L, n)[i] = L[i] /\ L[i] \in Nat
      /\ Append(L, n)[Len(L) + 1] = n
  BY AppendProperties, LenProperties, ElementOfSeq
<1>3. DOMAIN Append(L, n) = 1 .. Len(L) + 1 /\ DOMAIN L = 1 .. Len(L)
  BY <1>2, LenProperties
<1> DEFINE M == Append(L, n)
<1>4. Increasing(M)
  <2> HIDE DEF M
  <2> SUFFICES ASSUME NEW i \in 1 .. Len(L) + 1, NEW j \in 1 .. Len(L) + 1, i < j PROVE M[i] < M[j]
    BY <1>3 DEF Increasing, M
  <2>1. i \in 1 .. Len(L) /\ M[i] = L[i]
    BY <1>2 DEF M
  <2>2. CASE j = Len(L) + 1
    BY <1>2, <1>3, <2>1, <2>2 DEF M
  <2>3. CASE j # Len(L) + 1
    <3>1. j \in 1 .. Len(L) /\ M[j] = L[j]
      BY <1>2, <2>3 DEF M
    <3> QED BY <1>3, <2>1, <3>1 DEF Increasing
  <2> QED BY <2>2, <2>3
<1>5. Range(M) = Range(L) \cup {n}
  <2> HIDE DEF M
  <2>1. \A i \in 1 .. Len(L) + 1 : i \in 1 .. Len(L) \/ i = Len(L) + 1
    BY <1>2
  <2>2. Len(L) + 1 \in 1 .. Len(L) + 1 /\ \A i \in 1 .. Len(L) : i \in 1 .. Len(L) + 1
    BY <1>2
  <2>3. DOMAIN M = 1 .. Len(L) + 1 /\ (\A i \in 1 .. Len(L) : M[i] = L[i]) /\ M[Len(L) + 1] = n
    BY <1>2, <1>3 DEF M
  <2> QED BY <1>3, <2>1, <2>2, <2>3 DEF Range
<1> QED BY <1>1, <1>2, <1>4, <1>5

LEMMA InOrderRemoved ==
  ASSUME NEW L \in Seq(Nat), Increasing(L), NEW k \in 1 .. Len(L)
  PROVE  Increasing(RemoveAt(L, k)) /\ Range(RemoveAt(L, k)) = Range(L) \ {L[k]}
<1> DEFINE M == RemoveAt(L, k)
<1>1. /\ M \in Seq(Nat) /\ Len(M) = Len(L) - 1 /\ Len(L) \in Nat \ {0}
      /\ \A i \in 1 .. Len(L) - 1 : M[i] = IF i < k THEN L[i] ELSE L[i + 1]
  BY Removed
<1>2. DOMAIN M = 1 .. Len(L) - 1 /\ DOMAIN L = 1 .. Len(L) /\ (\A i \in 1 .. Len(L) : L[i] \in Nat)
  BY <1>1, LenProperties, ElementOfSeq
<1> HIDE DEF M
<1>3. Increasing(M)
  <2> SUFFICES ASSUME NEW i \in 1 .. Len(L) - 1, NEW j \in 1 .. Len(L) - 1, i < j PROVE M[i] < M[j]
    BY <1>2 DEF Increasing
  <2>1. /\ k \in Nat /\ i \in 1 .. Len(L) /\ i + 1 \in 1 .. Len(L)
        /\ j \in 1 .. Len(L) /\ j + 1 \in 1 .. Len(L) /\ i < j + 1 /\ i + 1 < j + 1
    BY <1>1
  <2>2. L[i] < L[j] /\ L[i] < L[j + 1] /\ L[i + 1] < L[j + 1]
    <3>1. \A x, y \in 1 .. Len(L) : x < y => L[x] < L[y]
      BY <1>2 DEF Increasing
    <3> QED BY <2>1, <3>1
  <2>3. ~(i < k) => ~(j < k)
    BY <2>1
  <2> QED BY <1>1, <2>2, <2>3
<1>4. ASSUME NEW i \in 1 .. Len(L), L[i] = L[k] PROVE i = k
  BY <1>2, <1>4 DEF Increasing
<1>5. Range(M) = Range(L) \ {L[k]}
  <2>1. ASSUME NEW i \in 1 .. Len(L) - 1 PROVE M[i] \in Range(L) /\ M[i] # L[k]
    <3> DEFINE to == IF i < k THEN i ELSE i + 1
    <3>1. to \in 1 .. Len(L) /\ to # k /\ M[i] = L[to]
      BY <1>1
    <3> HIDE DEF to
    <3> QED BY <1>2, <1>4, <3>1 DEF Range
  <2>2. ASSUME NEW i \in 1 .. Len(L), i # k PROVE L[i] \in Range(M)
    <3> DEFINE from == IF i < k THEN i ELSE i - 1
    <3>1. from \in 1 .. Len(L) - 1 /\ M[from] = L[i]
      BY <1>1, <2>2
    <3> HIDE DEF from
    <3> QED BY <1>2, <3>1 DEF Range
  <2> QED BY <1>2, <2>1, <2>2 DEF Range
<1> QED BY <1>3, <1>5 DEF M

-----------------------------------------------------------------------------
(***************************************************************************)
(* What can happen to the line.                                            *)
(***************************************************************************)
LEMMA PlacedGrows ==
  ASSUME NEW L \in Seq(Nat), NEW n \in Nat, NEW gone, Placed(L, n, gone)
  PROVE  Placed(L \o <<n + 1>>, n + 1, gone)
<1>1. ASSUME NEW i \in DOMAIN L PROVE L[i] < n + 1
  <2>1. L[i] \in Range(L)
    BY DEF Range
  <2>2. L[i] \in 1 .. n
    BY <2>1 DEF Placed
  <2> QED BY <2>2
<1>2. Increasing(L \o <<n + 1>>) /\ Range(L \o <<n + 1>>) = Range(L) \cup {n + 1}
  BY <1>1, InOrderAppended DEF Placed
<1>3. 1 .. n + 1 = (1 .. n) \cup {n + 1} /\ n + 1 \notin 1 .. n
  OBVIOUS
<1> QED BY <1>2, <1>3 DEF Placed

LEMMA PlacedMisses ==
  ASSUME NEW L \in Seq(Nat), NEW n \in Nat, NEW gone, Placed(L, n, gone)
  PROVE  Placed(L, n + 1, gone \cup {n + 1})
<1>1. 1 .. n + 1 = (1 .. n) \cup {n + 1} /\ n + 1 \notin 1 .. n
  OBVIOUS
<1> QED BY <1>1 DEF Placed

LEMMA PlacedLoses ==
  ASSUME NEW L \in Seq(Nat), NEW n \in Nat, NEW gone, Placed(L, n, gone), NEW k \in 1 .. Len(L)
  PROVE  Placed(RemoveAt(L, k), n, gone \cup {L[k]})
<1>1. Increasing(RemoveAt(L, k)) /\ Range(RemoveAt(L, k)) = Range(L) \ {L[k]}
  BY InOrderRemoved DEF Placed
<1>2. L[k] \in Range(L)
  BY LenProperties DEF Range
<1> QED BY <1>1, <1>2 DEF Placed

Hand == IF inHand = 0 THEN <<>> ELSE <<inHand>>
Before == served \o Hand

LEMMA LineParts ==
  ASSUME ServerType, LineType
  PROVE  /\ MaxConnects \in Nat /\ Connections \subseteq Nat
         /\ Hand \in Seq(Connections) /\ Before \in Seq(Connections)
         /\ Line = Before \o backlog /\ Line \in Seq(Connections) /\ Line \in Seq(Nat)
<1>1. MaxConnects \in Nat /\ Connections \subseteq Nat
  BY ServerAssumption DEF Connections
<1>2. Hand \in Seq(Connections)
  <2>1. CASE inHand = 0
    BY <2>1 DEF Hand
  <2>2. CASE inHand # 0
    <3>1. inHand \in Connections
      BY <1>1, <2>2 DEF ServerType, Connections
    <3> QED BY <2>2, <3>1 DEF Hand
  <2> QED BY <2>1, <2>2
<1>3. Before \in Seq(Connections)
  BY <1>2, ConcatProperties DEF Before, ServerType
<1>4. Line = Before \o backlog
  BY DEF Line, Before, Hand
<1>5. Line \in Seq(Connections)
  BY <1>3, <1>4, ConcatProperties DEF LineType
<1>6. Line \in Seq(Nat)
  BY <1>1, <1>5, SeqMonotonic
<1> QED BY <1>1, <1>2, <1>3, <1>4, <1>5, <1>6

(* Accepted: the first of those that wait is handed over. *)
LEMMA LineAccepted ==
  ASSUME ServerType, LineType, inHand = 0, backlog # <<>>, served' = served,
         inHand' = Head(backlog), backlog' = Tail(backlog)
  PROVE  Line' = Line /\ inHand' \in Connections
<1>0. MaxConnects \in Nat
  BY LineParts
<1>1. /\ Head(backlog) \in Connections /\ Tail(backlog) \in Seq(Connections)
      /\ backlog = <<Head(backlog)>> \o Tail(backlog)
  BY HeadFirst DEF LineType
<1>2. Head(backlog) # 0
  BY <1>0, <1>1 DEF Connections
<1>3. Line' = (served \o <<Head(backlog)>>) \o Tail(backlog)
  BY <1>2 DEF Line
<1>4. (served \o <<Head(backlog)>>) \o Tail(backlog) = served \o (<<Head(backlog)>> \o Tail(backlog))
  BY <1>1, ConcatAssociative DEF ServerType
<1>5. Line = (served \o <<>>) \o backlog /\ served \o <<>> = served
  BY ConcatEmptySeq DEF Line, ServerType
<1> QED BY <1>1, <1>3, <1>4, <1>5

(* Handed over: on_connect returns. *)
LEMMA LineServed ==
  ASSUME ServerType, LineType, inHand # 0, served' = Append(served, inHand), inHand' = 0,
         backlog' = backlog
  PROVE  Line' = Line /\ served' \in Seq(Connections)
<1>0. inHand \in Connections
  BY LineParts DEF ServerType, Connections
<1>1. served' = served \o <<inHand>> /\ served' \in Seq(Connections)
  BY <1>0, AppendIsConcat, AppendProperties DEF ServerType
<1>2. Line' = (served' \o <<>>) \o backlog /\ served' \o <<>> = served'
  BY <1>1, ConcatEmptySeq DEF Line
<1>3. Line = (served \o <<inHand>>) \o backlog
  BY DEF Line
<1> QED BY <1>1, <1>2, <1>3

LEMMA LineConnected ==
  ASSUME ServerType, LineType, InLine, UNCHANGED <<served, inHand, withdrawn>>,
         arrived' = arrived + 1, backlog' = Append(backlog, arrived'), arrived < MaxConnects
  PROVE  InLine' /\ backlog' \in Seq(Connections) /\ Len(backlog') = Len(backlog) + 1
<1>0. arrived \in Nat /\ arrived' \in Connections
  BY LineParts DEF LineType, Connections
<1>1. /\ backlog' = backlog \o <<arrived'>> /\ backlog' \in Seq(Connections)
      /\ Len(backlog') = Len(backlog) + 1
  BY <1>0, AppendIsConcat, AppendProperties DEF LineType
<1>2. Line' = Before \o (backlog \o <<arrived'>>)
  BY <1>1 DEF Line, Before, Hand
<1>3. Line' = Line \o <<arrived'>>
  <2>1. (Before \o backlog) \o <<arrived'>> = Before \o (backlog \o <<arrived'>>)
    <3>1. <<arrived'>> \in Seq(Connections) /\ Before \in Seq(Connections) /\ backlog \in Seq(Connections)
      BY <1>0, LineParts DEF LineType
    <3> QED BY <3>1, ConcatAssociative
  <2>2. Line = Before \o backlog
    BY LineParts
  <2> QED BY <1>2, <2>1, <2>2
<1>4. Placed(Line \o <<arrived + 1>>, arrived + 1, withdrawn)
  BY <1>0, LineParts, PlacedGrows DEF InLine
<1> QED BY <1>1, <1>3, <1>4 DEF InLine

LEMMA LineCut ==
  ASSUME ServerType, LineType, InLine, UNCHANGED <<served, inHand, arrived>>,
         NEW i \in 1 .. Len(backlog), backlog' = RemoveAt(backlog, i),
         withdrawn' = withdrawn \cup {backlog[i]}
  PROVE  /\ InLine' /\ backlog[i] \in Connections
         /\ backlog' \in Seq(Connections) /\ Len(backlog') <= Len(backlog)
<1>0. arrived \in Nat /\ backlog[i] \in Connections /\ backlog \in Seq(Connections)
  BY LineParts, ElementOfSeq DEF LineType
<1>1. backlog' \in Seq(Connections) /\ Len(backlog') <= Len(backlog)
  BY <1>0, Removed
<1>2. Line' = Before \o RemoveAt(backlog, i)
  BY DEF Line, Before, Hand
<1> DEFINE k == Len(Before) + i
<1>3. k \in 1 .. Len(Line) /\ Line[k] = backlog[i] /\ RemoveAt(Line, k) = Before \o RemoveAt(backlog, i)
  <2>1. Before \in Seq(Connections) /\ Line = Before \o backlog
    BY LineParts
  <2>2. /\ k \in 1 .. Len(Before \o backlog) /\ (Before \o backlog)[k] = backlog[i]
        /\ RemoveAt(Before \o backlog, k) = Before \o RemoveAt(backlog, i)
    BY <1>0, <2>1, RemovedLater
  <2> HIDE DEF k
  <2> QED BY <2>1, <2>2
<1> HIDE DEF k
<1>4. Placed(RemoveAt(Line, k), arrived, withdrawn \cup {Line[k]})
  BY <1>0, <1>3, LineParts, PlacedLoses DEF InLine
<1> QED BY <1>0, <1>1, <1>2, <1>3, <1>4 DEF InLine

-----------------------------------------------------------------------------
(***************************************************************************)
(* A part of the invariant is kept when nothing that it looks at changes.  *)
(***************************************************************************)
LEMMA InvTyped == Inv => TypeOK
  BY DEF Inv, Types, ServerType, LineType, PipeType, StreamType, AbortType, TypeOK

LEMMA Kept ==
  ASSUME Inv
  PROVE  /\ UNCHANGED serverVars => ServerType'
         /\ UNCHANGED lineVars => LineType'
         /\ UNCHANGED pipeVars => PipeType'
         /\ UNCHANGED <<streamVars, kind>> => StreamType' /\ Buffers'
         /\ UNCHANGED abortVars => AbortType' /\ OneAborts'
         /\ UNCHANGED ended => ended' \in BOOLEAN
         /\ UNCHANGED <<served, inHand, backlog, arrived, withdrawn>> => InLine'
         /\ UNCHANGED <<inHand, pc>> => Handing'
         /\ UNCHANGED <<kind, socket, pc, arrived>> => Unreachable'
         /\ UNCHANGED <<pc, pipeVars, abortVars, ended>> => Written'
<1>1. UNCHANGED serverVars => ServerType'
  BY DEF Inv, Types, serverVars, ServerType
<1>2. UNCHANGED lineVars => LineType'
  BY DEF Inv, Types, lineVars, LineType
<1>3. UNCHANGED pipeVars => PipeType'
  BY DEF Inv, Types, pipeVars, PipeType
<1>4. UNCHANGED <<streamVars, kind>> => StreamType' /\ Buffers'
  BY DEF Inv, Types, streamVars, StreamType, Buffers, DatagramsRead
<1>5. UNCHANGED abortVars => AbortType' /\ OneAborts'
  BY DEF Inv, Types, abortVars, AbortType, OneAborts
<1>6. UNCHANGED ended => ended' \in BOOLEAN
  BY DEF Inv, Types
<1>7. UNCHANGED <<served, inHand, backlog, arrived, withdrawn>> => InLine'
  BY DEF Inv, InLine, Line
<1>8. UNCHANGED <<inHand, pc>> => Handing'
  BY DEF Inv, Handing
<1>9. UNCHANGED <<kind, socket, pc, arrived>> => Unreachable'
  BY DEF Inv, Unreachable
<1>10. UNCHANGED <<pc, pipeVars, abortVars, ended>> => Written'
  BY DEF Inv, Written, pipeVars, abortVars
<1> QED BY <1>1, <1>2, <1>3, <1>4, <1>5, <1>6, <1>7, <1>8, <1>9, <1>10

-----------------------------------------------------------------------------
LEMMA InvInit == Init => Inv
<1> SUFFICES ASSUME Init PROVE Inv
  OBVIOUS
<1>1. MaxConnects \in Nat /\ MaxAborts \in Nat /\ Backlog \in Nat /\ MaxOpen \in Nat /\ BufferSize \in Nat
  BY ServerAssumption
<1>2. ServerType
  BY <1>1 DEF Init, ServerType, Places, Making
<1>3. LineType
  BY <1>1 DEF Init, LineType
<1>4. PipeType /\ AbortType
  BY <1>1 DEF Init, PipeType, AbortType
<1>5. StreamType
  BY <1>1, FS_EmptySet DEF Init, StreamType
<1>6. ended \in BOOLEAN
  BY DEF Init
<1>7. InLine
  <2>1. <<>> \in Seq(Nat)
    OBVIOUS
  <2>2. Line = <<>> /\ arrived = 0 /\ withdrawn = {}
    BY <2>1, ConcatEmptySeq DEF Init, Line
  <2>3. Range(<<>>) = {} /\ 1 .. 0 = {}
    BY DEF Range
  <2>4. Increasing(<<>>)
    BY DEF Increasing
  <2> QED BY <2>2, <2>3, <2>4 DEF InLine, Placed
<1>8. Handing /\ Unreachable
  BY DEF Init, Handing, Unreachable, Making
<1>9. Buffers
  <2>1. \A c \in Connections : unread[c] = 0 /\ readable = {} /\ open = {}
    BY DEF Init
  <2>2. readable \subseteq open
    BY DEF Init
  <2> QED BY <2>1, <2>2 DEF Buffers, DatagramsRead
<1>10. OneAborts /\ Written
  BY ServerAssumption DEF Init, OneAborts, Written, Threads
<1> QED BY <1>2, <1>3, <1>4, <1>5, <1>6, <1>7, <1>8, <1>9, <1>10 DEF Inv, Types

-----------------------------------------------------------------------------
(***************************************************************************)
(* The server's thread.                                                    *)
(***************************************************************************)
LEMMA CreateStep == ASSUME Inv, Create PROVE Inv'
<1>0. ServerType /\ LineType /\ Handing /\ Unreachable /\ Written
  BY DEF Inv, Types
<1>1. UNCHANGED <<kind, inHand, served, backlog, arrived, withdrawn, size, pipeVars, streamVars,
                  abortVars, ended>>
  BY DEF Create, Make
<1>2. /\ pc \in {"create", "bind", "listen"} /\ pc' \in {"bind", "listen", "select", "failed"}
      /\ socket' \in {"none", "open", "bound", "listening"}
  BY <1>0 DEF Create, Make, LineType
<1>3. ServerType' /\ LineType'
  BY <1>0, <1>1, <1>2 DEF ServerType, LineType, Places, Making
<1>4. Handing'
  BY <1>0, <1>1, <1>2 DEF Handing
<1>5. Unreachable'
  BY <1>0, <1>1 DEF Unreachable, Create, Make, Making
<1>6. Written'
  BY <1>0, <1>1, <1>2 DEF Written, pipeVars, abortVars
<1> QED BY <1>1, <1>3, <1>4, <1>5, <1>6, Kept DEF Inv, Types

LEMMA MinOfTwo ==
  ASSUME NEW S, S # {}, S \subseteq {1, 2}
  PROVE  Min(S) \in S /\ \A y \in S : Min(S) <= y
<1>1. \E x \in S : \A y \in S : x <= y
  <2>1. CASE 1 \in S
    BY <2>1
  <2>2. CASE 1 \notin S
    <3>1. 2 \in S /\ \A y \in S : y = 2
      BY <2>2
    <3>2. \A y \in S : 2 <= y
      BY <3>1
    <3> QED BY <3>1, <3>2
  <2> QED BY <2>1, <2>2
<1> QED BY <1>1 DEF Min

LEMMA AppendedToEmpty == ASSUME NEW a PROVE Append(<<>>, a) = <<a>>
<1>1. /\ Append(<<>>, a) \in Seq({a}) /\ Len(Append(<<>>, a)) = 1 /\ Append(<<>>, a)[1] = a
  <2>1. <<>> \in Seq({a}) /\ Len(<<>>) = 0
    OBVIOUS
  <2>2. Append(<<>>, a) \in Seq({a}) /\ Len(Append(<<>>, a)) = 0 + 1 /\ Append(<<>>, a)[0 + 1] = a
    BY <2>1, AppendProperties
  <2> QED BY <2>2
<1>2. <<a>> \in Seq({a}) /\ Len(<<a>>) = 1 /\ <<a>>[1] = a
  OBVIOUS
<1>3. \A i \in 1 .. 1 : i = 1
  OBVIOUS
<1>4. \A i \in 1 .. Len(Append(<<>>, a)) : Append(<<>>, a)[i] = <<a>>[i]
  BY <1>1, <1>2, <1>3
<1>5. Len(Append(<<>>, a)) = Len(<<a>>)
  BY <1>1, <1>2
<1> QED BY <1>1, <1>2, <1>4, <1>5, SeqEqual

LEMMA AppendedToOne == ASSUME NEW a, NEW b PROVE Append(<<a>>, b) = <<a, b>>
<1> DEFINE s == Append(<<a>>, b)
           p == <<a, b>>
<1>1. /\ s \in Seq({a, b}) /\ Len(s) = 2 /\ s[1] = a /\ s[2] = b
  <2>1. <<a>> \in Seq({a, b}) /\ Len(<<a>>) = 1 /\ <<a>>[1] = a /\ b \in {a, b} /\ 1 \in 1 .. 1
    OBVIOUS
  <2>2. s \in Seq({a, b}) /\ Len(s) = 1 + 1 /\ s[1] = a /\ s[1 + 1] = b
    BY <2>1, AppendProperties
  <2> HIDE DEF s
  <2> QED BY <2>2
<1>2. p \in Seq({a, b}) /\ Len(p) = 2 /\ p[1] = a /\ p[2] = b
  OBVIOUS
<1> HIDE DEF s, p
<1>3. \A i \in 1 .. 2 : i = 1 \/ i = 2
  OBVIOUS
<1>4. s = p
  BY <1>1, <1>2, <1>3, SeqEqual
<1> QED BY <1>4 DEF s, p

(* The number that ends the server is that of the pipe. *)
LEMMA PipeReady == ASSUME Returns(Wait, Ready) = AbortNumber PROVE bytes > 0
<1>1. /\ Wait.max = 2 /\ Wait.timer = 0
      /\ Wait.readers = <<[number |-> 1, fd |-> "socket"], [number |-> 2, fd |-> "pipe"]>>
  <2> DEFINE one == [number |-> 1, fd |-> "socket"]
             two == [number |-> 2, fd |-> "pipe"]
             first == AddReader(Created, "socket")
  <2>1. first = [max |-> 1, timer |-> 0, due |-> <<0, 0>>, readers |-> Append(<<>>, one)]
    <3>1. Created.max + 1 = 1 /\ Created.readers = <<>>
      BY DEF Created
    <3>2. first = [Created EXCEPT !.max = Created.max + 1,
                     !.readers = Append(Created.readers, [number |-> Created.max + 1, fd |-> "socket"])]
      BY DEF AddReader
    <3>3. first = [Created EXCEPT !.max = 1, !.readers = Append(<<>>, one)]
      BY <3>1, <3>2
    <3> HIDE DEF first, one
    <3> QED BY <3>3 DEF Created
  <2>2. Append(<<>>, one) = <<one>> /\ Append(<<one>>, two) = <<one, two>>
    BY AppendedToEmpty, AppendedToOne
  <2>3. first = [max |-> 1, timer |-> 0, due |-> <<0, 0>>, readers |-> <<one>>]
    BY <2>1, <2>2
  <2> HIDE DEF first
  <2>4. Wait = [first EXCEPT !.max = first.max + 1,
                             !.readers = Append(first.readers, [number |-> first.max + 1, fd |-> "pipe"])]
    BY DEF Wait, AddReader, first
  <2>5. first.max + 1 = 2
    BY <2>3
  <2>6. Wait = [first EXCEPT !.max = 2, !.readers = Append(first.readers, two)]
    BY <2>4, <2>5
  <2>7. Wait = [max |-> 2, timer |-> 0, due |-> <<0, 0>>, readers |-> Append(<<one>>, two)]
    BY <2>3, <2>6
  <2> QED BY <2>2, <2>7
<1> DEFINE hits == {i \in 1 .. Len(Wait.readers) : Wait.readers[i].fd \in Ready}
           hit == IF hits # {} THEN Min(hits) ELSE 0
<1>2. Returns(Wait, Ready) = IF hit = 0 THEN Wait.timer ELSE Wait.readers[hit].number
  BY DEF Returns, SelectInSeq
<1>3. hit = 2
  <2>1. hit # 0
    BY <1>1, <1>2 DEF AbortNumber
  <2>2. hits # {} /\ hits \subseteq {1, 2}
    BY <1>1, <2>1
  <2>3. Min(hits) \in hits
    <3> HIDE DEF hits
    <3> QED BY <2>2, MinOfTwo
  <2>4. hit \in {1, 2} /\ Wait.readers[hit].number = 2
    BY <1>1, <1>2, <2>1, <2>2, <2>3 DEF AbortNumber
  <2> QED BY <1>1, <2>4
<1>4. 2 \in hits
  <2>1. hits # {} /\ hits \subseteq {1, 2} /\ Min(hits) = 2
    BY <1>1, <1>3
  <2>2. Min(hits) \in hits
    <3> HIDE DEF hits
    <3> QED BY <2>1, MinOfTwo
  <2> QED BY <2>1, <2>2
<1>5. "pipe" \in Ready
  BY <1>1, <1>4
<1> QED BY <1>5 DEF Ready

LEMMA SelectStep == ASSUME Inv, Select PROVE Inv'
<1>0. ServerType /\ Handing /\ Unreachable /\ Written
  BY DEF Inv, Types
<1>1. /\ pc = "select" /\ pc' \in {"accept", "destroy"}
      /\ UNCHANGED <<kind, inHand, served, lineVars, pipeVars, streamVars, abortVars, ended>>
  BY DEF Select
<1>2. pc' = "destroy" => bytes > 0
  BY PipeReady DEF Select
<1>3. ServerType' /\ Handing' /\ Unreachable'
  BY <1>0, <1>1 DEF ServerType, Handing, Unreachable, Places, Making, lineVars
<1>4. Written'
  BY <1>0, <1>1, <1>2 DEF Written, pipeVars, abortVars
<1> QED BY <1>1, <1>3, <1>4, Kept DEF Inv, Types, lineVars

(* One stream more, if there is a descriptor. *)
LEMMA OpenBounded ==
  ASSUME NEW S, S \subseteq Connections, NEW c \in Connections
  PROVE  /\ Cardinality(S) \in Nat
         /\ Cardinality(S \cup {c}) <= Cardinality(S) + 1 /\ Cardinality(S \cup {c}) \in Nat
         /\ Cardinality(S \ {c}) <= Cardinality(S) /\ Cardinality(S \ {c}) \in Nat
<1>1. IsFiniteSet(Connections)
  <2>1. MaxConnects \in Nat
    BY ServerAssumption
  <2> QED BY <2>1, FS_Interval DEF Connections
<1>2. IsFiniteSet(S) /\ S \cup {c} \subseteq Connections /\ S \ {c} \subseteq Connections
  BY <1>1, FS_Subset
<1>3. IsFiniteSet(S \cup {c}) /\ IsFiniteSet(S \ {c})
  BY <1>1, <1>2, FS_Subset
<1>4. Cardinality(S) \in Nat /\ Cardinality(S \cup {c}) \in Nat /\ Cardinality(S \ {c}) \in Nat
  BY <1>2, <1>3, FS_CardinalityType
<1>5. Cardinality(S \cup {c}) = IF c \in S THEN Cardinality(S) ELSE Cardinality(S) + 1
  BY <1>2, FS_AddElement
<1>6. Cardinality(S \ {c}) = IF c \in S THEN Cardinality(S) - 1 ELSE Cardinality(S)
  BY <1>2, FS_RemoveElement
<1> QED BY <1>4, <1>5, <1>6

LEMMA AcceptStep == ASSUME Inv, Accept PROVE Inv'
<1>0. ServerType /\ LineType /\ StreamType /\ Buffers /\ Handing /\ Unreachable /\ Written /\ InLine
  BY DEF Inv, Types
<1>1. /\ pc = "accept" /\ pc' \in {"callback", "select"} /\ kind # "udp" /\ backlog # <<>>
      /\ UNCHANGED <<kind, served, socket, arrived, withdrawn, size, pipeVars, readable, unread,
                      abortVars, ended>>
  BY DEF Accept
<1>2. inHand = 0
  BY <1>0, <1>1 DEF Handing
<1>3. Unreachable' /\ Written'
  BY <1>0, <1>1 DEF Unreachable, Written, Making, pipeVars, abortVars
<1>4. CASE Cardinality(open) < MaxOpen
  <2>1. /\ backlog' = Tail(backlog) /\ inHand' = Head(backlog) /\ open' = open \cup {Head(backlog)}
        /\ pc' = "callback"
    BY <1>4 DEF Accept
  <2>2. Line' = Line /\ inHand' \in Connections
    BY <1>0, <1>1, <1>2, <2>1, LineAccepted
  <2>3. InLine'
    BY <1>0, <1>1, <2>2 DEF InLine
  <2>4. ServerType'
    BY <1>0, <1>1, <2>1, <2>2, LineParts DEF ServerType, Connections, Places
  <2>5. LineType'
    <3>1. Tail(backlog) \in Seq(Connections) /\ Len(Tail(backlog)) = Len(backlog) - 1 /\ Len(backlog) \in Nat
      BY <1>0, <1>1, HeadFirst DEF LineType
    <3>2. Len(Tail(backlog)) <= Backlog
      BY <1>0, <3>1, ServerAssumption DEF LineType
    <3> QED BY <1>0, <1>1, <2>1, <3>1, <3>2 DEF LineType
  <2>6. Handing'
    BY <1>0, <2>1, <2>2, LineParts DEF Handing, Connections
  <2>7. StreamType'
    <3>1. open' \subseteq Connections /\ Cardinality(open') <= MaxOpen
      <4>1. /\ open \subseteq Connections /\ open' = open \cup {inHand'}
            /\ MaxOpen \in Nat /\ Cardinality(open) < MaxOpen
        BY <1>0, <1>4, <2>1, ServerAssumption DEF StreamType
      <4>2. /\ Cardinality(open) \in Nat /\ Cardinality(open') \in Nat
            /\ Cardinality(open') <= Cardinality(open) + 1
        BY <2>2, <4>1, OpenBounded
      <4> QED BY <2>2, <4>1, <4>2
    <3> QED BY <1>0, <1>1, <3>1 DEF StreamType
  <2>8. Buffers'
    BY <1>0, <1>1, <2>1 DEF Buffers, DatagramsRead
  <2> QED BY <1>1, <1>3, <2>3, <2>4, <2>5, <2>6, <2>7, <2>8, Kept DEF Inv, Types
<1>5. CASE ~(Cardinality(open) < MaxOpen)
  <2>1. pc' = "select" /\ UNCHANGED <<backlog, inHand, open>>
    BY <1>5 DEF Accept
  <2>2. ServerType' /\ Handing'
    BY <1>0, <1>1, <1>2, <2>1 DEF ServerType, Handing, Places
  <2> QED BY <1>1, <1>3, <2>1, <2>2, Kept DEF Inv, Types, lineVars, streamVars
<1> QED BY <1>4, <1>5

LEMMA ReceiveStep == ASSUME Inv, Receive PROVE Inv'
<1>0. ServerType /\ LineType /\ StreamType /\ Buffers /\ Handing /\ Unreachable /\ Written /\ InLine
  BY DEF Inv, Types
<1> DEFINE c == Head(backlog)
<1>1. /\ pc = "accept" /\ pc' \in {"callback", "select"} /\ kind = "udp" /\ backlog # <<>>
      /\ backlog' = Tail(backlog) /\ size' = [size EXCEPT ![c] = 0]
      /\ UNCHANGED <<kind, served, socket, arrived, pipeVars, abortVars, ended>>
  BY DEF Receive
<1>2. inHand = 0
  BY <1>0, <1>1 DEF Handing
<1>3. Unreachable' /\ Written'
  BY <1>0, <1>1 DEF Unreachable, Written, Making, pipeVars, abortVars
<1>4. /\ c \in Connections /\ c = backlog[1] /\ 1 \in 1 .. Len(backlog) /\ Tail(backlog) = RemoveAt(backlog, 1)
      /\ Tail(backlog) \in Seq(Connections) /\ Len(Tail(backlog)) = Len(backlog) - 1 /\ Len(backlog) \in Nat
  BY <1>0, <1>1, HeadFirst, TailIsRemoved DEF LineType
<1>5. size[c] \in Nat /\ BufferSize \in Nat \ {0} /\ Backlog \in Nat
  <2>1. size[c] \in Sizes \cup {0}
    <3> HIDE DEF c
    <3> QED BY <1>0, <1>4 DEF LineType
  <2>2. Sizes \subseteq Nat /\ BufferSize \in Nat \ {0} /\ Backlog \in Nat
    BY ServerAssumption
  <2>3. Sizes \cup {0} \subseteq Nat
    BY <2>2
  <2> QED BY <2>1, <2>2, <2>3, Zenon
<1>6. Len(backlog') <= Backlog /\ size' \in [Connections -> Sizes \cup {0}]
  BY <1>0, <1>1, <1>4, <1>5 DEF LineType
<1>7. CASE size[c] = 0
  <2>1. withdrawn' = withdrawn \cup {c} /\ pc' = "select" /\ UNCHANGED <<inHand, streamVars>>
    BY <1>7 DEF Receive
  <2>2. InLine'
    BY <1>0, <1>1, <1>4, <2>1, LineCut
  <2>3. LineType'
    BY <1>0, <1>1, <1>4, <1>6, <2>1 DEF LineType
  <2>4. ServerType' /\ Handing'
    BY <1>0, <1>1, <1>2, <2>1 DEF ServerType, Handing, Places
  <2> QED BY <1>1, <1>3, <2>1, <2>2, <2>3, <2>4, Kept DEF Inv, Types
<1>8. CASE size[c] # 0
  <2>1. /\ inHand' = c /\ open' = open \cup {c} /\ readable' = readable \cup {c}
        /\ unread' = [unread EXCEPT ![c] = Received(size[c])] /\ pc' = "callback" /\ withdrawn' = withdrawn
    BY <1>8 DEF Receive
  <2>2. Line' = Line /\ inHand' \in Connections
    BY <1>0, <1>1, <1>2, <2>1, LineAccepted
  <2>3. InLine'
    BY <1>0, <1>1, <2>1, <2>2 DEF InLine
  <2>4. ServerType'
    BY <1>0, <1>1, <2>1, <2>2, LineParts DEF ServerType, Connections, Places
  <2>5. LineType'
    BY <1>0, <1>1, <1>4, <1>6, <2>1 DEF LineType
  <2>6. Handing'
    BY <1>0, <2>1, <2>2, LineParts DEF Handing, Connections
  <2>7. Received(size[c]) \in 1 .. BufferSize
    BY <1>5, <1>8 DEF Received
  <2>8. unread' \in [Connections -> 0 .. BufferSize]
    BY <1>0, <1>4, <2>1, <2>7 DEF StreamType
  <2>9. StreamType'
    BY <1>0, <1>1, <1>4, <2>1, <2>8 DEF StreamType
  <2>10. Buffers'
    <3>1. unread'[c] > 0 /\ \A d \in Connections \ {c} : unread'[d] = unread[d]
      BY <1>0, <1>4, <2>1, <2>7 DEF StreamType
    <3> QED BY <1>0, <2>1, <3>1 DEF Buffers, DatagramsRead
  <2> QED BY <1>1, <1>3, <2>3, <2>4, <2>5, <2>6, <2>9, <2>10, Kept DEF Inv, Types
<1> QED BY <1>7, <1>8

LEMMA CallbackStep == ASSUME Inv, UseThreads \/ Called PROVE Inv'
<1>0. ServerType /\ LineType /\ Handing /\ Unreachable /\ Written /\ InLine
  BY DEF Inv, Types
<1>1. /\ pc \in {"callback", "threads"} /\ pc' \in {"threads", "select"}
      /\ UNCHANGED <<kind, lineVars, pipeVars, streamVars, abortVars, ended>>
  BY DEF UseThreads, Called
<1>2. Unreachable' /\ Written'
  BY <1>0, <1>1 DEF Unreachable, Written, Making, lineVars, pipeVars, abortVars
<1>3. CASE UseThreads
  <2>1. pc = "callback" /\ pc' = "threads" /\ UNCHANGED <<inHand, served>>
    BY <1>3 DEF UseThreads
  <2>2. ServerType' /\ Handing'
    BY <1>0, <1>1, <2>1 DEF ServerType, Handing, Places
  <2> QED BY <1>1, <1>2, <2>1, <2>2, Kept DEF Inv, Types, lineVars
<1>4. CASE Called
  <2>1. inHand # 0 /\ served' = Append(served, inHand) /\ inHand' = 0 /\ pc' = "select"
    BY <1>0, <1>1, <1>4 DEF Called, Handing
  <2>2. Line' = Line /\ served' \in Seq(Connections)
    BY <1>0, <1>1, <2>1, LineServed DEF lineVars
  <2>3. InLine' /\ Handing'
    BY <1>0, <1>1, <2>1, <2>2 DEF InLine, Handing, lineVars
  <2>4. ServerType'
    BY <1>0, <1>1, <2>1, <2>2, LineParts DEF ServerType, Places
  <2> QED BY <1>1, <1>2, <2>3, <2>4, Kept DEF Inv, Types, lineVars
<1> QED BY <1>3, <1>4

LEMMA EndStep == ASSUME Inv, Destroy \/ Free \/ Leave PROVE Inv'
<1>0. ServerType /\ PipeType /\ Handing /\ Unreachable /\ Written
  BY DEF Inv, Types
<1>1. /\ pc \in {"destroy", "closing", "free", "leave"} /\ pc' \in {"closing", "free", "leave", "done"}
      /\ ends' \subseteq {"reader", "writer"}
      /\ UNCHANGED <<kind, inHand, served, lineVars, bytes, streamVars, abortVars, ended>>
  BY <1>0 DEF Destroy, CloseEnd, Free, Leave, pipeVars, PipeType
<1>2. ServerType' /\ PipeType' /\ Handing' /\ Unreachable'
  BY <1>0, <1>1 DEF ServerType, PipeType, Handing, Unreachable, Places, Making, lineVars
<1>3. Written'
  BY <1>0, <1>1 DEF Written, abortVars
<1> QED BY <1>1, <1>2, <1>3, Kept DEF Inv, Types, lineVars

-----------------------------------------------------------------------------
(***************************************************************************)
(* A thread that aborts the server.                                        *)
(***************************************************************************)
LEMMA BeginAbortStep == ASSUME Inv, NEW t \in Threads, BeginAbort(t) PROVE Inv'
<1>0. AbortType /\ OneAborts /\ Written /\ PipeType /\ Nobody \notin Threads /\ MaxAborts \in Nat
  BY ServerAssumption DEF Inv, Types, Threads
<1>1. /\ at[t] = "idle" /\ mapOwner = Nobody /\ ~ended /\ aborts < MaxAborts
      /\ mapOwner' = t /\ at' = [at EXCEPT ![t] = "write"] /\ aborts' = aborts + 1
      /\ UNCHANGED <<serverVars, lineVars, pipeVars, streamVars, ended>>
  BY DEF BeginAbort
<1>2. AbortType' /\ OneAborts'
  BY <1>0, <1>1 DEF AbortType, OneAborts
<1>3. bytes \in Nat /\ aborts \in Nat /\ bytes <= aborts
  BY <1>0 DEF PipeType, AbortType, Written
<1>4. Written'
  BY <1>0, <1>1, <1>3 DEF Written, serverVars, pipeVars
<1> QED BY <1>1, <1>2, <1>4, Kept DEF Inv, Types, serverVars, lineVars

LEMMA AbortStep == ASSUME Inv, NEW t \in Threads, Abort(t) PROVE Inv'
<1>0. AbortType /\ OneAborts /\ Written /\ PipeType /\ Nobody \notin Threads /\ MaxAborts \in Nat
      /\ bytes \in Nat /\ aborts \in Nat
  BY ServerAssumption DEF Inv, Types, Threads, PipeType, AbortType
<1>1. UNCHANGED <<serverVars, lineVars, ends, streamVars, aborts>>
  BY DEF Abort, AbortWrite, AbortFault, AbortReturn, pipeVars, abortVars
<1>2. CASE AbortWrite(t)
  <2>1. /\ at[t] = "write" /\ ~ended /\ bytes' = bytes + 1 /\ at' = [at EXCEPT ![t] = "unlock"]
        /\ UNCHANGED <<mapOwner, ended>>
    BY <1>2 DEF AbortWrite
  <2>2. AbortType' /\ OneAborts'
    BY <1>0, <1>1, <2>1 DEF AbortType, OneAborts
  <2>3. bytes < aborts /\ \A u \in Threads : at'[u] # "write"
    BY <1>0, <2>1 DEF AbortType, OneAborts, Written
  <2>4. PipeType'
    BY <1>0, <1>1, <2>1, <2>3 DEF PipeType, AbortType
  <2>5. Written'
    BY <1>0, <1>1, <2>1, <2>3 DEF Written, serverVars
  <2> QED BY <1>1, <2>1, <2>2, <2>4, <2>5, Kept DEF Inv, Types, serverVars, lineVars
<1>3. CASE AbortFault(t)
  <2>1. /\ at[t] = "write" /\ (ends = {"writer"} \/ pc \in {"free", "leave"}) /\ ended' = TRUE
        /\ UNCHANGED <<bytes, abortVars, pipeVars>>
    BY <1>3 DEF AbortFault, pipeVars
  <2>2. bytes < aborts /\ bytes > 0
    BY <1>0, <2>1 DEF Written
  <2>3. Written'
    BY <1>0, <1>1, <2>1, <2>2 DEF Written, abortVars, serverVars
  <2> QED BY <1>1, <2>1, <2>3, Kept DEF Inv, Types, serverVars, lineVars
<1>4. CASE AbortReturn(t)
  <2>1. /\ at[t] = "unlock" /\ at' = [at EXCEPT ![t] = "idle"] /\ mapOwner' = Nobody
        /\ UNCHANGED <<pipeVars, ended>>
    BY <1>4 DEF AbortReturn
  <2>2. AbortType' /\ OneAborts'
    BY <1>0, <1>1, <2>1 DEF AbortType, OneAborts
  <2>3. Written'
    BY <1>0, <1>1, <2>1 DEF Written, AbortType, pipeVars, serverVars
  <2> QED BY <1>1, <2>1, <2>2, <2>3, Kept DEF Inv, Types, serverVars, lineVars
<1> QED BY <1>2, <1>3, <1>4 DEF Abort

-----------------------------------------------------------------------------
(***************************************************************************)
(* The other processes, and the streams.                                   *)
(***************************************************************************)
LEMMA ConnectStep == ASSUME Inv, Connect PROVE Inv'
<1>0. ServerType /\ LineType /\ Unreachable /\ InLine /\ Backlog \in Nat
  BY ServerAssumption DEF Inv, Types
<1>1. /\ Reachable /\ arrived < MaxConnects /\ arrived' = arrived + 1
      /\ UNCHANGED <<serverVars, socket, pipeVars, streamVars, abortVars, ended>>
  BY DEF Connect
<1>2. arrived \in Nat /\ MaxConnects \in Nat /\ arrived' \in Connections /\ arrived' \in 0 .. MaxConnects
      /\ Len(backlog) \in Nat
  BY <1>0, <1>1, LineParts, LenProperties DEF LineType, Connections
<1>3. Unreachable'
  BY <1>0, <1>1 DEF Unreachable, Reachable, Making, serverVars, ServerType
<1>4. InLine' /\ LineType'
  <2>1. CASE Len(backlog) < Backlog
    <3>1. /\ backlog' = Append(backlog, arrived') /\ withdrawn' = withdrawn
          /\ \E n \in Sizes : size' = [size EXCEPT ![arrived'] = IF kind = "udp" THEN n ELSE 0]
      BY <2>1 DEF Connect
    <3>2. InLine' /\ backlog' \in Seq(Connections) /\ Len(backlog') = Len(backlog) + 1
      BY <1>0, <1>1, <3>1, LineConnected DEF serverVars
    <3>3. size' \in [Connections -> Sizes \cup {0}]
      BY <1>0, <1>2, <3>1 DEF LineType
    <3> QED BY <1>0, <1>1, <1>2, <2>1, <3>1, <3>2, <3>3 DEF LineType
  <2>2. CASE ~(Len(backlog) < Backlog)
    <3>1. withdrawn' = withdrawn \cup {arrived'} /\ UNCHANGED <<backlog, size>>
      BY <2>2 DEF Connect
    <3>2. Line' = Line
      BY <1>1, <3>1 DEF Line, serverVars
    <3>3. Placed(Line, arrived + 1, withdrawn \cup {arrived + 1})
      BY <1>0, <1>2, LineParts, PlacedMisses DEF InLine
    <3>4. InLine'
      BY <1>1, <3>1, <3>2, <3>3 DEF InLine
    <3> QED BY <1>0, <1>1, <1>2, <3>1, <3>4 DEF LineType
  <2> QED BY <2>1, <2>2
<1> QED BY <1>1, <1>3, <1>4, Kept DEF Inv, Types, serverVars

LEMMA WithdrawStep == ASSUME Inv, Withdraw PROVE Inv'
<1>0. ServerType /\ LineType /\ InLine
  BY DEF Inv, Types
<1>1. PICK i \in DOMAIN backlog :
        /\ backlog' = RemoveAt(backlog, i) /\ withdrawn' = withdrawn \cup {backlog[i]}
        /\ size' = [size EXCEPT ![backlog[i]] = 0]
  BY DEF Withdraw
<1>2. UNCHANGED <<serverVars, socket, arrived, pipeVars, streamVars, abortVars, ended>>
  BY DEF Withdraw
<1>3. i \in 1 .. Len(backlog) /\ Len(backlog) \in Nat
  BY <1>0, LenProperties DEF LineType
<1>4. /\ InLine' /\ backlog[i] \in Connections
      /\ backlog' \in Seq(Connections) /\ Len(backlog') <= Len(backlog)
  BY <1>0, <1>1, <1>2, <1>3, LineCut DEF serverVars
<1>5. Len(backlog') <= Backlog
  <2>1. Len(backlog') \in Nat /\ Backlog \in Nat
    BY <1>4, LenProperties, ServerAssumption
  <2> QED BY <1>0, <1>3, <1>4, <2>1 DEF LineType
<1>6. LineType'
  BY <1>0, <1>1, <1>2, <1>4, <1>5 DEF LineType
<1> QED BY <1>2, <1>4, <1>6, Kept DEF Inv, Types, serverVars

LEMMA CloseStreamStep == ASSUME Inv, NEW c \in open, CloseStream(c) PROVE Inv'
<1>0. StreamType /\ Buffers /\ c \in Connections /\ BufferSize \in Nat /\ MaxOpen \in Nat
  BY ServerAssumption DEF Inv, Types, StreamType
<1>1. /\ open' = open \ {c} /\ readable' = readable \ {c} /\ unread' = [unread EXCEPT ![c] = 0]
      /\ UNCHANGED <<serverVars, lineVars, pipeVars, abortVars, ended>>
  BY DEF CloseStream
<1>2. /\ Cardinality(open) \in Nat /\ Cardinality(open') \in Nat /\ Cardinality(open') <= Cardinality(open)
  BY <1>0, <1>1, OpenBounded DEF StreamType
<1>3. kind # "udp" => Cardinality(open') <= MaxOpen
  BY <1>0, <1>2 DEF StreamType
<1>4. StreamType'
  BY <1>0, <1>1, <1>3 DEF StreamType, serverVars
<1>5. Buffers'
  BY <1>0, <1>1 DEF StreamType, Buffers, DatagramsRead
<1> QED BY <1>1, <1>4, <1>5, Kept DEF Inv, Types, serverVars, lineVars

LEMMA ReadBufferStep ==
  ASSUME Inv, NEW c \in open, NEW n \in 1 .. BufferSize, ReadBuffer(c, n)
  PROVE  Inv'
<1>0. StreamType /\ Buffers /\ c \in Connections /\ BufferSize \in Nat /\ unread[c] \in 0 .. BufferSize
  BY ServerAssumption DEF Inv, Types, StreamType
<1> DEFINE left == IF n > unread[c] THEN 0 ELSE unread[c] - n
<1>1. /\ unread' = [unread EXCEPT ![c] = left] /\ readable' = CloseBuffer(c, left)
      /\ UNCHANGED <<serverVars, lineVars, pipeVars, open, abortVars, ended>>
  BY DEF ReadBuffer
<1>2. left \in 0 .. BufferSize /\ (left > 0 => unread[c] > 0)
  BY <1>0
<1> HIDE DEF left
<1>3. StreamType'
  BY <1>0, <1>1, <1>2 DEF StreamType, CloseBuffer, serverVars
<1>4. Buffers'
  <2>1. unread'[c] = left /\ \A d \in Connections \ {c} : unread'[d] = unread[d]
    BY <1>0, <1>1 DEF StreamType
  <2> QED BY <1>0, <1>1, <1>2, <2>1 DEF Buffers, DatagramsRead, CloseBuffer
<1> QED BY <1>1, <1>3, <1>4, Kept DEF Inv, Types, serverVars, lineVars

-----------------------------------------------------------------------------
LEMMA InvStep == Inv /\ [Next]_vars => Inv'
<1> SUFFICES ASSUME Inv, [Next]_vars PROVE Inv'
  OBVIOUS
<1>1. CASE RunServer \/ UseThreads
  BY <1>1, CreateStep, SelectStep, AcceptStep, ReceiveStep, CallbackStep, EndStep DEF RunServer
<1>2. CASE Connect \/ Withdraw
  BY <1>2, ConnectStep, WithdrawStep
<1>3. ASSUME NEW t \in Threads, BeginAbort(t) \/ Abort(t) PROVE Inv'
  BY <1>3, BeginAbortStep, AbortStep
<1>4. ASSUME NEW c \in open, CloseStream(c) \/ \E n \in 1 .. BufferSize : ReadBuffer(c, n) PROVE Inv'
  BY <1>4, CloseStreamStep, ReadBufferStep
<1>5. CASE UNCHANGED vars
  BY <1>5, Kept DEF Inv, Types, vars, serverVars, lineVars
<1> QED BY <1>1, <1>2, <1>3, <1>4, <1>5 DEF Next

LEMMA AlwaysInv == Spec => []Inv
  BY InvInit, InvStep, PTL DEF Spec

-----------------------------------------------------------------------------
(***************************************************************************)
(* Every variable of the server keeps its type; its counters stay within   *)
(* the bounds of the kernel and of the process.                            *)
(***************************************************************************)
THEOREM TypeCorrect == Spec => []TypeOK
  BY InvTyped, AlwaysInv, PTL

(***************************************************************************)
(* As long as zs__thread_abort was called once only, zs__server_abort      *)
(* never writes to a pipe that zs__server_run has closed, however many     *)
(* threads could call it and wherever the server's thread is.              *)
(***************************************************************************)
THEOREM SingleAbort == Spec => []OneAbortIsSafe
<1>1. Inv => OneAbortIsSafe
  <2> SUFFICES ASSUME Inv, aborts <= 1
               PROVE  ~ended /\ \A t \in Threads : at[t] = "write" => ends = {"reader", "writer"}
    BY DEF OneAbortIsSafe
  <2>1. Written /\ bytes \in Nat /\ aborts \in Nat
    BY ServerAssumption DEF Inv, Types, PipeType, AbortType
  <2> QED BY <2>1 DEF Written
<1> QED BY <1>1, AlwaysInv, PTL

(***************************************************************************)
(* zs__server_run and zs__server_run_dgram hand every connection and every *)
(* datagram with content to on_connect once at most and in the order in    *)
(* which they came; the others are those that vanished, had no content or  *)
(* found no room.  A server whose creation failed cannot be reached.       *)
(***************************************************************************)
THEOREM InTurn == Spec => []EachInItsTurn
<1>1. Inv => EachInItsTurn
  <2>1. Inv /\ pc = "failed" => arrived = 0
    BY DEF Inv, Unreachable, Making
  <2> QED BY <2>1 DEF Inv, InLine, Placed, Increasing, EachInItsTurn
<1> QED BY <1>1, AlwaysInv, PTL

(***************************************************************************)
(* zs__stream_read of a datagram closes the reader with the last byte of   *)
(* the buffer and not before, for any size of the buffer, of the datagram  *)
(* and of the reads.                                                       *)
(***************************************************************************)
THEOREM ReadToTheEnd == Spec => []DatagramsRead
<1>1. Inv => DatagramsRead
  BY DEF Inv, Buffers
<1> QED BY <1>1, AlwaysInv, PTL
-----------------------------------------------------------------------------
(***************************************************************************)
(* The wait object.  After n registrations it has counted them, keeps the  *)
(* first of the earliest timers, and lists the readers in their order:     *)
(* Records, by induction on n, as the least number that refutes it.        *)
(***************************************************************************)
LEMMA Least == ASSUME NEW S \in SUBSET Nat, S # {} PROVE \E n \in S : \A k \in S : n <= k
<1>1. PICK n \in S : \A k \in S : ~ (<<k, n>> \in OpToRel(<, Nat))
  BY WFMin, NatLessThanWellFounded
<1>2. \A k \in S : ~(k < n)
  BY <1>1 DEF OpToRel
<1> QED BY <1>2

LEMMA TheMin ==
  ASSUME NEW S \in SUBSET Nat, NEW m \in S, \A k \in S : m <= k PROVE Min(S) = m
<1>1. \A x \in S : (\A y \in S : x <= y) => x = m
  OBVIOUS
<1> QED BY <1>1 DEF Min

LEMMA PerSecondIsNat == PerSecond \in Nat
  BY SMT DEF PerSecond

LEMMA DuesBounded == \A d \in Dues : d[1] \in Nat /\ d[2] \in Nat /\ d[2] < PerSecond
<1>1. PerSecond - 1 \in Int
  BY PerSecondIsNat
<1>2. ASSUME NEW d \in Dues PROVE d[1] \in Nat /\ d[2] \in Nat /\ d[2] < PerSecond
  <2>1. d[1] \in Nat /\ d[2] \in 0 .. PerSecond - 1
    BY WaitAssumption
  <2> QED BY <1>1, <2>1, PerSecondIsNat
<1> QED BY <1>2

LEMMA SoonerIsLess ==
  /\ \A d \in Dues : Micros(d) \in Nat
  /\ \A d, e \in Dues : Sooner(d, e) <=> Micros(d) < Micros(e)
<1>1. ASSUME NEW d \in Dues PROVE Micros(d) \in Nat
  <2>1. d[1] \in Nat /\ d[2] \in Nat
    BY DuesBounded
  <2> QED BY SMT, <2>1 DEF Micros, PerSecond
<1>2. ASSUME NEW d \in Dues, NEW e \in Dues PROVE Sooner(d, e) <=> Micros(d) < Micros(e)
  <2>1. /\ d[1] \in Nat /\ d[2] \in Nat /\ d[2] < PerSecond
        /\ e[1] \in Nat /\ e[2] \in Nat /\ e[2] < PerSecond
    BY DuesBounded
  <2> QED BY SMT, <2>1 DEF Sooner, Micros, PerSecond
<1> QED BY <1>1, <1>2

Waits == [max : Nat, timer : Nat, due : Dues \cup {<<0, 0>>},
          readers : Seq([number : Nat, fd : Files])]

Timed(w, rs, n) ==
  /\ w.timer = 0 => \A i \in 1 .. n : rs[i][1] # "timer"
  /\ w.timer # 0 =>
       /\ w.timer \in 1 .. n /\ rs[w.timer] = <<"timer", w.due>> /\ w.due \in Dues
       /\ \A i \in 1 .. n : rs[i][1] = "timer" =>
            /\ Micros(w.due) <= Micros(rs[i][2])
            /\ i < w.timer => Micros(w.due) < Micros(rs[i][2])

Listed(w, rs, n) ==
  /\ \A k \in 1 .. Len(w.readers) :
       w.readers[k].number \in 1 .. n /\ rs[w.readers[k].number] = <<"reader", w.readers[k].fd>>
  /\ \A k, l \in 1 .. Len(w.readers) : k < l => w.readers[k].number < w.readers[l].number
  /\ \A i \in 1 .. n : rs[i][1] = "reader" =>
       \E k \in 1 .. Len(w.readers) : w.readers[k].number = i

Records(w, rs, n) == w \in Waits /\ w.max = n /\ Timed(w, rs, n) /\ Listed(w, rs, n)

LEMMA AddTimerRecords ==
  ASSUME NEW n \in Nat, NEW rs, NEW w, Records(w, rs, n),
         \A i \in 1 .. n : rs[i] \in Registrations,
         NEW due \in Dues, rs[n + 1] = <<"timer", due>>
  PROVE  Records(AddTimer(w, due), rs, n + 1)
<1> DEFINE v == AddTimer(w, due)
<1>0. /\ w \in Waits /\ w.max = n /\ Timed(w, rs, n) /\ Listed(w, rs, n)
      /\ \A i \in 1 .. n + 1 : i \in 1 .. n \/ i = n + 1
      /\ 1 .. n \subseteq 1 .. n + 1 /\ n + 1 \in 1 .. n + 1 /\ n + 1 \in Nat
  BY DEF Records
<1>1. \A i \in 1 .. n : rs[i][1] = "timer" => rs[i][2] \in Dues
  BY DEF Registrations
<1>2. v.max = n + 1 /\ v.readers = w.readers /\ v \in Waits
  BY <1>0 DEF AddTimer, Waits
<1>3. Listed(v, rs, n + 1)
  <2>1. rs[n + 1][1] # "reader"
    OBVIOUS
  <2> QED BY <1>0, <1>2, <2>1 DEF Listed
<1>4. Timed(v, rs, n + 1)
  <2>1. CASE w.timer = 0 \/ Sooner(due, w.due)
    <3>1. v.timer = n + 1 /\ v.due = due
      BY <1>0, <2>1 DEF AddTimer, Waits
    <3>2. \A i \in 1 .. n : rs[i][1] = "timer" => Micros(due) < Micros(rs[i][2])
      <4> SUFFICES ASSUME NEW i \in 1 .. n, rs[i][1] = "timer"
                   PROVE  Micros(due) < Micros(rs[i][2])
        OBVIOUS
      <4>1. w.timer # 0 /\ w.due \in Dues /\ Micros(w.due) <= Micros(rs[i][2])
        BY <1>0 DEF Timed
      <4>2. Micros(due) < Micros(w.due)
        BY <2>1, <4>1, SoonerIsLess
      <4> QED BY <1>1, <4>1, <4>2, SoonerIsLess
    <3>3. Micros(due) \in Nat /\ \A i \in 1 .. n : rs[i][1] = "timer" => Micros(rs[i][2]) \in Nat
      BY <1>1, SoonerIsLess
    <3>4. ASSUME NEW i \in 1 .. n + 1, rs[i][1] = "timer"
          PROVE  /\ Micros(due) <= Micros(rs[i][2])
                 /\ i < n + 1 => Micros(due) < Micros(rs[i][2])
      <4>1. CASE i \in 1 .. n
        BY <3>2, <3>3, <3>4, <4>1
      <4>2. CASE i = n + 1
        <5>1. rs[i][2] = due /\ ~(i < n + 1)
          BY <4>2
        <5> QED BY <3>3, <5>1
      <4> QED BY <1>0, <4>1, <4>2
    <3> HIDE DEF v
    <3> QED BY <1>0, <3>1, <3>4 DEF Timed
  <2>2. CASE w.timer # 0 /\ ~Sooner(due, w.due)
    <3>1. v.timer = w.timer /\ v.due = w.due /\ w.due \in Dues /\ w.timer \in 1 .. n
      BY <1>0, <2>2 DEF AddTimer, Waits, Timed
    <3>2. Micros(w.due) <= Micros(due)
      BY <2>2, <3>1, SoonerIsLess
    <3>3. rs[n + 1][2] = due /\ ~(n + 1 < w.timer)
      BY <3>1
    <3> HIDE DEF v
    <3> QED BY <1>0, <2>2, <3>1, <3>2, <3>3 DEF Timed
  <2> QED BY <2>1, <2>2
<1> QED BY <1>2, <1>3, <1>4 DEF Records

LEMMA AddReaderRecords ==
  ASSUME NEW n \in Nat, NEW rs, NEW w, Records(w, rs, n),
         NEW file \in Files, rs[n + 1] = <<"reader", file>>
  PROVE  Records(AddReader(w, file), rs, n + 1)
<1> DEFINE v == AddReader(w, file)
           m == Len(w.readers)
           e == [number |-> n + 1, fd |-> file]
<1>0. /\ w \in Waits /\ w.max = n /\ Timed(w, rs, n) /\ Listed(w, rs, n)
      /\ \A i \in 1 .. n + 1 : i \in 1 .. n \/ i = n + 1
      /\ 1 .. n \subseteq 1 .. n + 1 /\ n + 1 \in 1 .. n + 1 /\ n + 1 \in Nat
      /\ w.readers \in Seq([number : Nat, fd : Files]) /\ m \in Nat
  BY DEF Records, Waits
<1>1. e \in [number : Nat, fd : Files]
  BY <1>0
<1>2. /\ v.max = n + 1 /\ v.timer = w.timer /\ v.due = w.due
      /\ v.readers = Append(w.readers, e) /\ v \in Waits
  <2>1. v = [w EXCEPT !.max = n + 1, !.readers = Append(w.readers, e)]
    BY <1>0 DEF AddReader
  <2>2. Append(w.readers, e) \in Seq([number : Nat, fd : Files])
    <3> HIDE DEF e
    <3> QED BY <1>0, <1>1
  <2> HIDE DEF v, e
  <2> QED BY <1>0, <2>1, <2>2 DEF Waits
<1>3. Timed(v, rs, n + 1)
  <2>1. rs[n + 1][1] # "timer"
    OBVIOUS
  <2> HIDE DEF v
  <2> QED BY <1>0, <1>2, <2>1 DEF Timed
<1>4. /\ Len(v.readers) = m + 1 /\ v.readers[m + 1] = e
      /\ \A k \in 1 .. m : v.readers[k] = w.readers[k]
      /\ \A k \in 1 .. m + 1 : k \in 1 .. m \/ k = m + 1
      /\ 1 .. m \subseteq 1 .. m + 1 /\ m + 1 \in 1 .. m + 1
      /\ \A k \in 1 .. m : ~(m + 1 < k)
  BY <1>0, <1>1, <1>2
<1>5. /\ e.number = n + 1 /\ e.fd = file /\ ~(m + 1 < m + 1)
      /\ \A i \in 1 .. n : i < n + 1
  BY <1>0
<1>6. Listed(v, rs, n + 1)
  <2> HIDE DEF v, m, e
  <2>1. \A k \in 1 .. m :
          w.readers[k].number \in 1 .. n /\ rs[w.readers[k].number] = <<"reader", w.readers[k].fd>>
    BY <1>0 DEF Listed, m
  <2>2. \A k \in 1 .. Len(v.readers) :
          v.readers[k].number \in 1 .. n + 1 /\ rs[v.readers[k].number] = <<"reader", v.readers[k].fd>>
    BY <1>0, <1>4, <1>5, <2>1
  <2>3. \A k, l \in 1 .. Len(v.readers) : k < l => v.readers[k].number < v.readers[l].number
    <3> SUFFICES ASSUME NEW k \in 1 .. m + 1, NEW l \in 1 .. m + 1, k < l
                 PROVE  v.readers[k].number < v.readers[l].number
      BY <1>4
    <3>1. k \in 1 .. m
      BY <1>0, <1>4
    <3>2. CASE l \in 1 .. m
      BY <1>0, <1>4, <3>1, <3>2 DEF Listed, m
    <3>3. CASE l = m + 1
      BY <1>4, <1>5, <2>1, <3>1, <3>3
    <3> QED BY <1>4, <3>2, <3>3
  <2>4. ASSUME NEW i \in 1 .. n + 1, rs[i][1] = "reader"
        PROVE  \E k \in 1 .. Len(v.readers) : v.readers[k].number = i
    <3>1. CASE i \in 1 .. n
      <4>1. PICK k \in 1 .. m : w.readers[k].number = i
        BY <1>0, <2>4, <3>1 DEF Listed, m
      <4> QED BY <1>4, <4>1
    <3>2. CASE i = n + 1
      BY <1>4, <1>5, <3>2
    <3> QED BY <1>0, <3>1, <3>2
  <2> QED BY <2>2, <2>3, <2>4 DEF Listed
<1> QED BY <1>2, <1>3, <1>6 DEF Records

LEMMA CreatedRecords == ASSUME NEW rs PROVE Records(Created, rs, 0)
<1>1. Created \in Waits
  BY DEF Created, Waits
<1>2. Created.max = 0 /\ Created.timer = 0 /\ Len(Created.readers) = 0 /\ 1 .. 0 = {}
  BY DEF Created
<1> QED BY <1>1, <1>2 DEF Records, Timed, Listed

LEMMA RegisterRecords ==
  ASSUME NEW N \in Nat, NEW rs \in [1 .. N -> Registrations], NEW n \in Nat, n < N,
         NEW w, Records(w, rs, n)
  PROVE  Records(Register(w, rs[n + 1]), rs, n + 1)
<1>1. n + 1 \in 1 .. N /\ \A i \in 1 .. n : rs[i] \in Registrations
  OBVIOUS
<1>2. rs[n + 1] \in Registrations
  BY <1>1
<1>3. ASSUME NEW due \in Dues, rs[n + 1] = <<"timer", due>>
      PROVE  Records(Register(w, rs[n + 1]), rs, n + 1)
  <2>1. Register(w, rs[n + 1]) = AddTimer(w, due)
    BY <1>3 DEF Register
  <2> QED BY <1>1, <1>3, <2>1, AddTimerRecords
<1>4. ASSUME NEW file \in Files, rs[n + 1] = <<"reader", file>>
      PROVE  Records(Register(w, rs[n + 1]), rs, n + 1)
  <2>1. Register(w, rs[n + 1]) = AddReader(w, file)
    BY <1>4 DEF Register
  <2> QED BY <1>4, <2>1, AddReaderRecords
<1> QED BY <1>2, <1>3, <1>4 DEF Registrations

(***************************************************************************)
(* The recursive function of Registered exists, and its last value records *)
(* all the registrations.                                                  *)
(***************************************************************************)
LEMMA RegisteredRecords ==
  ASSUME NEW N \in Nat, NEW rs \in [1 .. N -> Registrations]
  PROVE  Records(Registered(rs), rs, N)
<1> DEFINE Step(f, n) == IF n = 0 THEN Created ELSE Register(f[n - 1], rs[n])
           Is(f, m)   == f = [n \in 0 .. m |-> Step(f, n)]
           Bad == {m \in 0 .. N : ~\E f : Is(f, m)}
<1>0. Len(rs) = N
  OBVIOUS
<1>1. Bad = {}
  <2> SUFFICES ASSUME Bad # {} PROVE FALSE
    OBVIOUS
  <2>1. Bad \in SUBSET Nat
    OBVIOUS
  <2>2. PICK m \in Bad : \A k \in Bad : m <= k
    <3> HIDE DEF Bad
    <3> QED BY <2>1, Least
  <2>3. m \in 0 .. N /\ m \in Nat
    BY <2>2
  <2>4. CASE m = 0
    <3> DEFINE f == [n \in 0 .. 0 |-> Created]
    <3>1. f = [n \in 0 .. 0 |-> Step(f, n)]
      OBVIOUS
    <3> QED BY <2>2, <2>4, <3>1
  <2>5. CASE m # 0
    <3>1. m - 1 \in 0 .. N /\ m - 1 \notin Bad
      <4>1. m - 1 \in 0 .. N /\ ~(m <= m - 1)
        BY <2>3, <2>5
      <4> HIDE DEF Bad
      <4> QED BY <2>2, <4>1
    <3>2. PICK g : Is(g, m - 1)
      BY <3>1
    <3> DEFINE f == [n \in 0 .. m |-> IF n = m THEN Step(g, m) ELSE g[n]]
    <3>3. \A n \in 0 .. m - 1 : f[n] = g[n] /\ g[n] = Step(g, n)
      <4>1. \A n \in 0 .. m - 1 : n \in 0 .. m /\ n # m
        BY <2>3
      <4>2. \A n \in 0 .. m - 1 : g[n] = Step(g, n)
        BY <3>2
      <4> QED BY <4>1, <4>2
    <3>4. ASSUME NEW n \in 0 .. m PROVE f[n] = Step(f, n)
      <4>1. CASE n = m
        <5>1. f[n] = Step(g, m)
          BY <4>1
        <5>2. m - 1 \in 0 .. m - 1
          BY <2>3, <2>5
        <5>3. f[m - 1] = g[m - 1]
          BY <3>3, <5>2
        <5> HIDE DEF f
        <5> QED BY <4>1, <5>1, <5>3
      <4>2. CASE n # m /\ n # 0
        <5>1. n \in 0 .. m - 1 /\ n - 1 \in 0 .. m - 1
          BY <2>3, <4>2
        <5>2. f[n] = g[n] /\ g[n] = Step(g, n) /\ f[n - 1] = g[n - 1]
          BY <3>3, <5>1
        <5> HIDE DEF f
        <5> QED BY <4>2, <5>2
      <4>3. CASE n # m /\ n = 0
        <5>1. n \in 0 .. m - 1
          BY <2>3, <4>3
        <5>2. f[n] = g[n] /\ g[n] = Step(g, n)
          BY <3>3, <5>1
        <5> HIDE DEF f
        <5> QED BY <4>3, <5>2
      <4> QED BY <4>1, <4>2, <4>3
    <3>5. f = [n \in 0 .. m |-> f[n]]
      OBVIOUS
    <3>6. Is(f, m)
      <4> HIDE DEF f
      <4> QED BY <3>4, <3>5
    <3> QED BY <2>2, <3>6
  <2> QED BY <2>4, <2>5
<1>2. \E f : Is(f, N)
  BY <1>1
<1> DEFINE after == CHOOSE f : Is(f, N)
<1>3. Is(after, N)
  <2> HIDE DEF Is
  <2> QED BY <1>2
<1>4. Registered(rs) = after[N]
  BY <1>0 DEF Registered
<1> HIDE DEF after
<1>5. \A n \in 0 .. N : after[n] = Step(after, n)
  BY <1>3
<1> DEFINE Wrong == {n \in 0 .. N : ~Records(after[n], rs, n)}
<1>6. Wrong = {}
  <2> SUFFICES ASSUME Wrong # {} PROVE FALSE
    OBVIOUS
  <2>1. Wrong \in SUBSET Nat
    OBVIOUS
  <2>2. PICK m \in Wrong : \A k \in Wrong : m <= k
    <3> HIDE DEF Wrong
    <3> QED BY <2>1, Least
  <2>3. m \in 0 .. N /\ m \in Nat /\ ~Records(after[m], rs, m)
    BY <2>2
  <2>4. CASE m = 0
    <3>1. after[m] = Created
      BY <1>5, <2>3, <2>4
    <3> QED BY <2>3, <2>4, <3>1, CreatedRecords
  <2>5. CASE m # 0
    <3>1. m - 1 \in 0 .. N /\ ~(m <= m - 1) /\ m - 1 \in Nat /\ m - 1 < N /\ m = (m - 1) + 1
      BY <2>3, <2>5
    <3>2. Records(after[m - 1], rs, m - 1)
      <4>1. m - 1 \notin Wrong
        <5> HIDE DEF Wrong
        <5> QED BY <2>2, <3>1
      <4> QED BY <3>1, <4>1
    <3>3. after[m] = Register(after[m - 1], rs[m])
      BY <1>5, <2>3, <2>5
    <3> QED BY <2>3, <3>1, <3>2, <3>3, RegisterRecords
  <2> QED BY <2>4, <2>5
<1> QED BY <1>4, <1>6

(***************************************************************************)
(* What zs__wait_do returns of an object that records the registrations.   *)
(***************************************************************************)
LEMMA RecordsMatch ==
  ASSUME NEW N \in Nat, NEW rs \in [1 .. N -> Registrations], NEW ready \in SUBSET Files,
         NEW w, Records(w, rs, N)
  PROVE  /\ Blocks(w, ready) <=> Reference(rs, ready) = 0
         /\ ~Blocks(w, ready) => Returns(w, ready) = Reference(rs, ready)
<1> DEFINE isReady == {i \in 1 .. N : rs[i][1] = "reader" /\ rs[i][2] \in ready}
           timers  == {i \in 1 .. N : rs[i][1] = "timer"}
           soonest == {i \in timers : \A j \in timers : Micros(rs[i][2]) <= Micros(rs[j][2])}
           hits    == {k \in 1 .. Len(w.readers) : w.readers[k].fd \in ready}
<1>0. /\ w \in Waits /\ Timed(w, rs, N) /\ Listed(w, rs, N) /\ DOMAIN rs = 1 .. N
      /\ w.readers \in Seq([number : Nat, fd : Files]) /\ w.timer \in Nat
  BY DEF Records, Waits
<1>1. Reference(rs, ready) =
        IF isReady # {} THEN Min(isReady) ELSE IF timers # {} THEN Min(soonest) ELSE 0
  BY <1>0 DEF Reference
<1>2. Returns(w, ready) = LET hit == IF hits # {} THEN Min(hits) ELSE 0
                          IN IF hit = 0 THEN w.timer ELSE w.readers[hit].number
  BY DEF Returns, SelectInSeq
<1>3. Blocks(w, ready) <=> w.timer = 0 /\ hits = {}
  <2>1. Range(w.readers) = {w.readers[k] : k \in 1 .. Len(w.readers)}
    BY <1>0 DEF Range
  <2> QED BY <2>1 DEF Blocks
<1>4. CASE hits # {}
  <2>1. PICK h \in hits : \A k \in hits : h <= k
    <3>1. hits \in SUBSET Nat
      OBVIOUS
    <3> HIDE DEF hits
    <3> QED BY <1>4, <3>1, Least
  <2>2. Min(hits) = h /\ h \in 1 .. Len(w.readers) /\ h # 0
    <3>1. hits \in SUBSET Nat /\ h \in 1 .. Len(w.readers)
      OBVIOUS
    <3> HIDE DEF hits
    <3> QED BY <2>1, <3>1, TheMin
  <2> DEFINE i == w.readers[h].number
  <2>3. Returns(w, ready) = i
    <3> HIDE DEF hits
    <3> QED BY <1>2, <1>4, <2>2
  <2>4. i \in 1 .. N /\ rs[i] = <<"reader", w.readers[h].fd>> /\ w.readers[h].fd \in ready
    BY <1>0, <2>1, <2>2 DEF Listed
  <2>5. i \in isReady
    BY <2>4
  <2>6. ASSUME NEW j \in isReady PROVE i <= j
    <3>1. PICK k \in 1 .. Len(w.readers) : w.readers[k].number = j
      BY <1>0 DEF Listed
    <3>2. rs[j] = <<"reader", w.readers[k].fd>>
      BY <1>0, <3>1 DEF Listed
    <3>3. k \in hits
      BY <3>2
    <3>4. h <= k
      BY <2>1, <3>3
    <3>5. h = k \/ h < k
      BY <2>2, <3>4
    <3>6. i \in Nat /\ j \in Nat
      BY <2>4
    <3> QED BY <1>0, <2>2, <3>1, <3>5, <3>6 DEF Listed
  <2>7. Min(isReady) = i /\ i # 0
    <3>1. isReady \in SUBSET Nat /\ i # 0
      BY <2>4
    <3> HIDE DEF isReady, i
    <3> QED BY <2>5, <2>6, <3>1, TheMin
  <2> HIDE DEF isReady, hits, i
  <2> QED BY <1>1, <1>3, <1>4, <2>3, <2>5, <2>7
<1>5. CASE hits = {}
  <2>1. isReady = {}
    <3> SUFFICES ASSUME NEW j \in isReady PROVE FALSE
      OBVIOUS
    <3>1. PICK k \in 1 .. Len(w.readers) : w.readers[k].number = j
      BY <1>0 DEF Listed
    <3>2. rs[j] = <<"reader", w.readers[k].fd>>
      BY <1>0, <3>1 DEF Listed
    <3> QED BY <1>5, <3>2
  <2>2. Returns(w, ready) = w.timer
    <3> HIDE DEF hits
    <3> QED BY <1>2, <1>5
  <2>3. CASE w.timer = 0
    <3>1. timers = {}
      BY <1>0, <2>3 DEF Timed
    <3> HIDE DEF isReady, timers, hits
    <3> QED BY <1>1, <1>3, <1>5, <2>1, <2>3, <3>1
  <2>4. CASE w.timer # 0
    <3>1. w.timer \in 1 .. N /\ rs[w.timer] = <<"timer", w.due>> /\ w.due \in Dues
      BY <1>0, <2>4 DEF Timed
    <3>2. w.timer \in timers
      BY <3>1
    <3>3. \A j \in timers : Micros(w.due) <= Micros(rs[j][2])
      BY <1>0, <2>4 DEF Timed
    <3>4. w.timer \in soonest
      BY <3>1, <3>2, <3>3
    <3>5. ASSUME NEW j \in soonest PROVE w.timer <= j
      <4>1. j \in timers /\ Micros(rs[j][2]) <= Micros(rs[w.timer][2])
        BY <3>2
      <4>2. rs[j][2] \in Dues
        BY <4>1 DEF Registrations
      <4>3. ~(j < w.timer)
        <5>1. ~(Micros(w.due) < Micros(rs[j][2]))
          BY <3>1, <4>1, <4>2, SoonerIsLess
        <5> QED BY <1>0, <2>4, <4>1, <5>1 DEF Timed
      <4> QED BY <3>1, <4>1, <4>3
    <3>6. Min(soonest) = w.timer
      <4>1. soonest \in SUBSET Nat
        OBVIOUS
      <4> HIDE DEF soonest
      <4> QED BY <3>4, <3>5, <4>1, TheMin
    <3> HIDE DEF isReady, timers, hits, soonest
    <3> QED BY <1>1, <1>3, <1>5, <2>1, <2>2, <2>4, <3>2, <3>6
  <2> QED BY <2>3, <2>4
<1> QED BY <1>4, <1>5

(***************************************************************************)
(* After any registrations zs__wait_do returns the number of the first     *)
(* reader that is ready, else of the first of the earliest timers.         *)
(***************************************************************************)
THEOREM WaitFindsTheFirst == Spec => []WaitMatchesReference
<1>1. MatchesReference
  <2> SUFFICES ASSUME NEW rs \in BoundedSeq(Registrations, MaxRegistrations),
                      NEW ready \in SUBSET Files
               PROVE  LET w == Registered(rs)
                      IN /\ Blocks(w, ready) <=> Reference(rs, ready) = 0
                         /\ ~Blocks(w, ready) => Returns(w, ready) = Reference(rs, ready)
    BY DEF MatchesReference
  <2>1. PICK N \in 0 .. MaxRegistrations : rs \in [1 .. N -> Registrations]
    BY DEF BoundedSeq, SeqOf
  <2>2. N \in Nat
    BY <2>1, WaitAssumption
  <2> QED BY <2>1, <2>2, RegisteredRecords, RecordsMatch
<1>2. WaitMatchesReference
  BY <1>1 DEF WaitMatchesReference
<1> QED BY <1>2, PTL
=============================================================================
