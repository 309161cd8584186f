---------------------------- MODULE StreamProofs -----------------------------
(***************************************************************************)
(* What is proved of ZsStream for every set of threads, all kinds of       *)
(* streams, and any number of descriptors, lines and handles.              *)
(***************************************************************************)
EXTENDS ZsStream, FiniteSetTheorems, TLAPS

(* The thread that is dropping a handle, and what it has still to do. *)
Dropping(t) == pc[t] \in {"close", "last"}
Closing(s)  == \E t \in Threads : pc[t] = "close" /\ side[t] = s

OneDrops == \A t, u \in Threads : Dropping(t) /\ Dropping(u) => t = u

(* A counter of ZSStream is the number of the objects. *)
CountsExact == \A s \in Sides : count[s] = Cardinality(Handles(s))

(* A thread in a call has the handle it uses. *)
UsersHold == \A t \in Threads :
  /\ pc[t] \in {"pollReader", "read"} => held[t]["reader"] > 0
  /\ pc[t] \in {"pollWriter", "write"} => held[t]["writer"] > 0

(***************************************************************************)
(* The bit of a side is set when it has no handle and nobody has to close  *)
(* it any more; its descriptor is the stream's until then.                 *)
(***************************************************************************)
BitSet(s) == s \in closed <=>
  (count[s] = 0 /\ ~Closing(s)) \/ (kind = "input" /\ s = "writer")

EndOpen(s) == IF Socket THEN closed # Sides ELSE s \notin closed

Belongs(d) == \E s \in Sides : Number(s) = d /\ EndOpen(s)

Bits ==
  /\ \A s \in Sides : BitSet(s)
  /\ \A d \in Descriptors : table[d] = "stream" <=> Belongs(d)
  /\ deleted <=> (\A s \in Sides : count[s] = 0) /\ \A t \in Threads : ~Dropping(t)

Unmade ==
  /\ \A t \in Threads : pc[t] = "idle" /\ \A s \in Sides : held[t][s] = 0
  /\ closed = {} /\ ~deleted
  /\ \A d \in Descriptors : table[d] = "stream" => made = "failed" /\ kind = "local" /\ d = 0
  /\ made = "failed" /\ kind = "local" => table[0] = "stream"
  /\ made = "no" => \A d \in Descriptors : table[d] = "free"

Inv ==
  /\ TypeOK /\ OneDrops /\ CountsExact /\ UsersHold /\ ~robbed
  /\ IF made = "yes" THEN Bits ELSE Unmade

-----------------------------------------------------------------------------
(***************************************************************************)
(* Counting handles.                                                       *)
(***************************************************************************)
Numbers == 1 .. MaxHandles

LEMMA HandlesFinite ==
  ASSUME NEW s \in Sides
  PROVE  IsFiniteSet(Handles(s)) /\ Cardinality(Handles(s)) \in Nat
<1>1. IsFiniteSet(Numbers)
  BY StreamAssumption, FS_Interval DEF Numbers
<1>2. IsFiniteSet(Threads \X Numbers)
  BY <1>1, StreamAssumption, FS_Product
<1>3. Handles(s) \in SUBSET (Threads \X Numbers)
  BY DEF Handles, Numbers
<1> QED BY <1>2, <1>3, FS_Subset, FS_CardinalityType

(* The handles of one thread are some of all the handles. *)
LEMMA HeldBelowCount ==
  ASSUME TypeOK, CountsExact, NEW t \in Threads, NEW s \in Sides
  PROVE  held[t][s] \in Nat /\ count[s] \in Nat /\ held[t][s] <= count[s]
<1>1. held[t][s] \in 0 .. MaxHandles /\ MaxHandles \in Nat /\ count[s] = Cardinality(Handles(s))
  BY StreamAssumption DEF TypeOK, CountsExact
<1> DEFINE mine == 1 .. held[t][s]
           f == [i \in mine |-> <<t, i>>]
<1>2. f \in [mine -> Handles(s)] /\ \A i, j \in mine : f[i] = f[j] => i = j
  BY <1>1 DEF Handles
<1>3. f \in Injection(mine, Handles(s))
  BY <1>2 DEF Injection, IsInjective
<1>4. Cardinality(mine) <= Cardinality(Handles(s))
  BY <1>3, HandlesFinite, FS_Injection
<1>5. Cardinality(mine) = held[t][s]
  <2>1. ASSUME NEW n \in Nat PROVE Cardinality(1 .. n) = n
    BY FS_Interval
  <2>2. held[t][s] \in Nat
    BY <1>1
  <2> QED BY <2>1, <2>2
<1> QED BY <1>1, <1>4, <1>5, HandlesFinite

LEMMA NoneHeld ==
  ASSUME TypeOK, CountsExact, NEW s \in Sides
  PROVE  /\ count[s] = 0 <=> Handles(s) = {}
         /\ count[s] = 0 <=> \A t \in Threads : held[t][s] = 0
<1>1. count[s] = 0 <=> Handles(s) = {}
  BY HandlesFinite, FS_EmptySet DEF CountsExact
<1>2. Handles(s) = {} <=> \A t \in Threads : held[t][s] = 0
  <2>1. ASSUME NEW t \in Threads, held[t][s] # 0 PROVE <<t, held[t][s]>> \in Handles(s)
    BY <2>1, StreamAssumption DEF TypeOK, Handles
  <2>2. ASSUME NEW h \in Handles(s) PROVE held[h[1]][s] # 0 /\ h[1] \in Threads
    BY <2>2, StreamAssumption DEF TypeOK, Handles
  <2> QED BY <2>1, <2>2
<1> QED BY <1>1, <1>2

-----------------------------------------------------------------------------
LEMMA InvInit == Init => Inv
<1> SUFFICES ASSUME Init PROVE Inv
  OBVIOUS
<1>1. TypeOK
  <2>1. /\ kind \in Kinds /\ made \in {"no", "yes", "failed"} /\ closed \subseteq Sides
        /\ table \in [Descriptors -> {"free", "stream", "other"}]
        /\ pc \in [Threads -> Labels] /\ side \in [Threads -> Sides]
    BY DEF Init, Labels, Sides
  <2>2. /\ count \in [Sides -> 0 .. MaxHandles]
        /\ held \in [Threads -> [Sides -> 0 .. MaxHandles]]
        /\ pending \in 0 .. Capacity /\ written \in Nat
    BY StreamAssumption DEF Init
  <2>3. {deleted, robbed, killed} \subseteq BOOLEAN /\ peer \in {"open", "closed", "reset"}
    BY DEF Init
  <2> QED BY <2>1, <2>2, <2>3 DEF TypeOK
<1>2. OneDrops /\ UsersHold /\ ~robbed /\ made = "no" /\ Unmade
  BY DEF Init, OneDrops, Dropping, UsersHold, Unmade
<1>3. ASSUME NEW s \in Sides PROVE count[s] = Cardinality(Handles(s))
  <2>1. Handles(s) = {}
    BY StreamAssumption DEF Init, Handles
  <2> QED BY <2>1, FS_EmptySet DEF Init
<1> QED BY <1>1, <1>2, <1>3 DEF Inv, CountsExact

-----------------------------------------------------------------------------
(***************************************************************************)
(* A step of a call, and what the other process and the rest of this one   *)
(* do, leave the handles and the bits alone.                               *)
(***************************************************************************)
Quiet ==
  /\ \E t \in Threads, label \in Labels :
       /\ pc' = [pc EXCEPT ![t] = label]
       /\ Dropping(t) <=> label \in {"close", "last"}
       /\ pc[t] = "close" <=> label = "close"
       /\ made # "yes" => label = pc[t]
       /\ label \in {"pollReader", "read"} => held[t]["reader"] > 0
       /\ label \in {"pollWriter", "write"} => held[t]["writer"] > 0
  /\ UNCHANGED <<kind, made, closed, robbed, handleVars>>
  /\ \A d \in Descriptors : table'[d] = table[d] \/ (table[d] = "free" /\ table'[d] = "other")
  /\ made = "no" => table' = table

LEMMA QuietStep == Inv /\ TypeOK' /\ Quiet => Inv'
<1> SUFFICES ASSUME Inv, TypeOK', Quiet PROVE Inv'
  OBVIOUS
<1>0. pc \in [Threads -> Labels] /\ TypeOK
  BY DEF Inv, TypeOK
<1>1. PICK t \in Threads, label \in Labels :
       /\ pc' = [pc EXCEPT ![t] = label]
       /\ Dropping(t) <=> label \in {"close", "last"}
       /\ pc[t] = "close" <=> label = "close"
       /\ made # "yes" => label = pc[t]
       /\ label \in {"pollReader", "read"} => held[t]["reader"] > 0
       /\ label \in {"pollWriter", "write"} => held[t]["writer"] > 0
  BY DEF Quiet
<1>2. UNCHANGED <<kind, made, closed, robbed, count, held, deleted, side>>
  BY DEF Quiet, handleVars
<1>3. \A u \in Threads : (Dropping(u)' <=> Dropping(u)) /\ (pc'[u] = "close" <=> pc[u] = "close")
  BY <1>0, <1>1 DEF Dropping
<1>4. OneDrops'
  BY <1>3 DEF Inv, OneDrops
<1>5. CountsExact'
  BY <1>2 DEF Inv, CountsExact, Handles
<1>6. UsersHold'
  BY <1>0, <1>1, <1>2 DEF Inv, UsersHold
<1>7. \A d \in Descriptors : (table'[d] = "stream" <=> table[d] = "stream")
  BY DEF Quiet
<1>8. CASE made = "yes"
  <2>1. \A s \in Sides : BitSet(s)' /\ (EndOpen(s)' <=> EndOpen(s)) /\ Number(s)' = Number(s)
    BY <1>2, <1>3, <1>8 DEF Inv, Bits, BitSet, Closing, EndOpen, Socket, Number
  <2>2. \A d \in Descriptors : Belongs(d)' <=> Belongs(d)
    BY <2>1 DEF Belongs
  <2>3. Bits'
    BY <1>2, <1>3, <1>7, <1>8, <2>1, <2>2 DEF Inv, Bits
  <2> QED BY <1>2, <1>4, <1>5, <1>6, <1>8, <2>3 DEF Inv
<1>9. CASE made # "yes"
  <2>1. Unmade'
    BY <1>0, <1>1, <1>2, <1>7, <1>9, StreamAssumption DEF Inv, Unmade, Quiet
  <2> QED BY <1>2, <1>4, <1>5, <1>6, <1>9, <2>1 DEF Inv
<1> QED BY <1>8, <1>9

-----------------------------------------------------------------------------
(***************************************************************************)
(* The two ways in which table changes.                                    *)
(***************************************************************************)
Tables == [Descriptors -> {"free", "stream", "other"}]

LEMMA OpenedType == Opened \in Tables
  BY DEF Opened, Tables

LEMMA CloseAllType ==
  ASSUME NEW numbers, CloseAll(numbers), table \in Tables, robbed \in BOOLEAN
  PROVE  table' \in Tables /\ robbed' \in BOOLEAN
  BY DEF CloseAll, Tables

Flow(t) == BeginGet(t) \/ PollReader(t) \/ Read(t) \/ BeginPut(t) \/ PollWriter(t) \/ Write(t)

LEMMA FlowType == ASSUME Inv, NEW t \in Threads, Flow(t) PROVE TypeOK'
<1>0. TypeOK /\ pc \in [Threads -> Labels] /\ pending \in 0 .. Capacity /\ written \in Nat
      /\ Capacity \in Nat
  BY StreamAssumption DEF Inv, TypeOK
<1>1. \E label \in Labels : pc' = [pc EXCEPT ![t] = label]
  BY DEF Flow, BeginGet, PollReader, Read, BeginPut, PollWriter, Write, Goto, Labels
<1>2. pc' \in [Threads -> Labels]
  BY <1>0, <1>1
<1>3. pending' \in 0 .. Capacity /\ written' \in Nat
  <2>1. CASE Read(t)
    BY <1>0, <2>1 DEF Read
  <2>2. CASE Write(t)
    BY <1>0, <2>2 DEF Write, WriteLine
  <2>3. CASE BeginGet(t) \/ PollReader(t) \/ BeginPut(t) \/ PollWriter(t)
    BY <1>0, <2>3 DEF BeginGet, PollReader, BeginPut, PollWriter, lineVars
  <2> QED BY <2>1, <2>2, <2>3 DEF Flow
<1>4. killed' \in BOOLEAN
  <2>1. CASE Write(t)
    BY <2>1 DEF Write, WriteLine
  <2>2. CASE ~Write(t)
    BY <1>0, <2>2 DEF Flow, BeginGet, PollReader, Read, BeginPut, PollWriter, TypeOK
  <2> QED BY <2>1, <2>2
<1>5. UNCHANGED <<kindVars, endVars, handleVars, peer>>
  BY DEF Flow, BeginGet, PollReader, Read, BeginPut, PollWriter, Write, lineVars
<1> QED BY <1>0, <1>2, <1>3, <1>4, <1>5 DEF TypeOK, kindVars, endVars, handleVars

LEMMA FlowQuiet == ASSUME Inv, NEW t \in Threads, Flow(t) PROVE Quiet
<1>0. TypeOK /\ pc \in [Threads -> Labels] /\ UsersHold
  BY DEF Inv, TypeOK
<1>1. UNCHANGED <<kindVars, endVars, handleVars>>
  BY DEF Flow, BeginGet, PollReader, Read, BeginPut, PollWriter, Write
<1>2. made = "yes"
  BY DEF Inv, Unmade, Flow, BeginGet, PollReader, Read, BeginPut, PollWriter, Write, At, Sides
<1>3. \E label \in Labels :
       /\ pc' = [pc EXCEPT ![t] = label]
       /\ ~Dropping(t) /\ label \notin {"close", "last"}
       /\ label \in {"pollReader", "read"} => held[t]["reader"] > 0
       /\ label \in {"pollWriter", "write"} => held[t]["writer"] > 0
  <2>1. CASE BeginGet(t) \/ PollReader(t) \/ Read(t)
    BY <1>0, <2>1 DEF BeginGet, PollReader, Read, At, Goto, Labels, Dropping, UsersHold
  <2>2. CASE BeginPut(t) \/ PollWriter(t) \/ Write(t)
    BY <1>0, <2>2 DEF BeginPut, PollWriter, Write, At, Goto, Labels, Dropping, UsersHold
  <2> QED BY <2>1, <2>2 DEF Flow
<1> QED BY <1>1, <1>2, <1>3 DEF Quiet, kindVars, endVars, Dropping

Outside == OpenOther \/ PeerSend \/ PeerClose \/ PeerReset

LEMMA OutsideType == ASSUME Inv, Outside PROVE TypeOK'
<1>0. TypeOK /\ table \in Tables /\ pending \in 0 .. Capacity /\ written \in Nat /\ Capacity \in Nat
  BY StreamAssumption DEF Inv, TypeOK, Tables
<1>1. table' \in Tables
  BY <1>0 DEF Outside, OpenOther, PeerSend, PeerClose, PeerReset, endVars, Tables
<1>2. pending' \in 0 .. Capacity /\ written' \in Nat
  BY <1>0 DEF Outside, OpenOther, PeerSend, PeerClose, PeerReset, lineVars
<1>3. peer' \in {"open", "closed", "reset"}
  BY <1>0 DEF Outside, OpenOther, PeerSend, PeerClose, PeerReset, lineVars, TypeOK
<1>4. UNCHANGED <<kindVars, closed, handleVars, robbed, pc, killed>>
  BY DEF Outside, OpenOther, PeerSend, PeerClose, PeerReset, endVars
<1> QED BY <1>0, <1>1, <1>2, <1>3, <1>4 DEF TypeOK, Tables, kindVars, handleVars

LEMMA OutsideQuiet == ASSUME Inv, Outside PROVE Quiet
<1>0. pc \in [Threads -> Labels] /\ table \in Tables /\ Creator \in Threads
  BY StreamAssumption DEF Inv, TypeOK, Tables
<1>1. UNCHANGED <<kind, made, closed, robbed, handleVars, pc>>
  BY DEF Outside, OpenOther, PeerSend, PeerClose, PeerReset, kindVars, endVars
<1>2. /\ \A d \in Descriptors : table'[d] = table[d] \/ (table[d] = "free" /\ table'[d] = "other")
      /\ made = "no" => table' = table
  BY <1>0 DEF Outside, OpenOther, PeerSend, PeerClose, PeerReset, endVars, Tables
<1>3. pc' = [pc EXCEPT ![Creator] = pc[Creator]] /\ pc[Creator] \in Labels
  BY <1>0, <1>1
<1>4. UsersHold
  BY DEF Inv
<1> QED BY <1>0, <1>1, <1>2, <1>3, <1>4 DEF Quiet, Dropping, UsersHold

-----------------------------------------------------------------------------
(***************************************************************************)
(* Creation.                                                               *)
(***************************************************************************)
LEMMA CreateType == ASSUME Inv, Create PROVE TypeOK'
<1>0. TypeOK /\ Creator \in Threads /\ MaxHandles \in Nat \ {0}
  BY StreamAssumption DEF Inv
<1>1. made' \in {"no", "yes", "failed"} /\ closed' \subseteq Sides /\ table' \in Tables
  BY OpenedType DEF Create, Sides
<1>2. count' \in [Sides -> 0 .. MaxHandles]
  BY <1>0 DEF Create
<1>3. held' \in [Threads -> [Sides -> 0 .. MaxHandles]]
  <2>1. [s \in Sides |-> 1] \in [Sides -> 0 .. MaxHandles]
    BY <1>0
  <2> QED BY <1>0, <2>1 DEF Create, TypeOK
<1>4. UNCHANGED <<kind, robbed, deleted, side, pending, written, peer, pc, killed>>
  BY DEF Create, lineVars
<1> QED BY <1>0, <1>1, <1>2, <1>3, <1>4 DEF TypeOK, Tables

LEMMA CreateInv == ASSUME Inv, Create PROVE Inv'
<1>0. TypeOK /\ Creator \in Threads /\ MaxHandles \in Nat \ {0} /\ Unmade /\ ~robbed
  BY StreamAssumption DEF Inv, Create
<1>1. pc' = pc /\ side' = side /\ kind' = kind /\ ~robbed' /\ made' = "yes" /\ ~deleted'
      /\ \A t \in Threads : pc[t] = "idle"
  BY <1>0 DEF Create, Unmade
<1>2. \A s \in Sides : count'[s] = 1
  BY DEF Create
<1>3. \A t \in Threads, s \in Sides : held'[t][s] = IF t = Creator THEN 1 ELSE 0
  BY <1>0 DEF Create, TypeOK, Unmade
<1>4. ASSUME NEW s \in Sides PROVE count'[s] = Cardinality(Handles(s)')
  <2>1. \A h \in Threads \X (1 .. MaxHandles) : h[2] <= held'[h[1]][s] <=> h = <<Creator, 1>>
    BY <1>0, <1>3
  <2>2. <<Creator, 1>> \in Threads \X (1 .. MaxHandles)
    BY <1>0
  <2>3. Handles(s)' = {<<Creator, 1>>}
    BY <2>1, <2>2 DEF Handles
  <2> QED BY <1>2, <2>3, FS_Singleton
<1>5. OneDrops' /\ UsersHold' /\ \A t \in Threads : ~Dropping(t)'
  BY <1>1 DEF OneDrops, Dropping, UsersHold
<1>6. \A s \in Sides : BitSet(s)'
  BY <1>1, <1>2 DEF BitSet, Closing, Create, Sides
<1>7. ASSUME NEW d \in Descriptors PROVE (table[d] = "stream")' <=> Belongs(d)'
  <2>1. (table[d] = "stream")' <=> \E s \in Sides : Number(s) = d
    BY DEF Create, Opened
  <2>2. Belongs(d)' <=> \E s \in Sides : Number(s) = d
    BY <1>1 DEF Belongs, EndOpen, Socket, Number, Create, Sides
  <2> QED BY <2>1, <2>2
<1>8. Bits'
  BY <1>1, <1>2, <1>5, <1>6, <1>7 DEF Bits, Sides
<1> QED BY <1>1, <1>4, <1>5, <1>8, CreateType DEF Inv, CountsExact

LEMMA CreateFailsType == ASSUME Inv, CreateFails PROVE TypeOK'
<1>0. TypeOK
  BY DEF Inv
<1>1. table' \in Tables /\ made' \in {"no", "yes", "failed"}
  BY <1>0, OpenedType DEF CreateFails, LeftOpen, TypeOK, Tables
<1> QED BY <1>0, <1>1 DEF CreateFails, TypeOK, Tables, handleVars, lineVars

LEMMA CreateFailsInv == ASSUME Inv, CreateFails PROVE Inv'
<1>0. OneDrops /\ CountsExact /\ UsersHold /\ ~robbed /\ Unmade /\ 0 \in Descriptors
  BY StreamAssumption DEF Inv, CreateFails
<1>1. UNCHANGED <<kind, closed, robbed, count, held, deleted, side, pc>> /\ made' = "failed"
  BY DEF CreateFails, handleVars
<1>2. OneDrops' /\ CountsExact' /\ UsersHold'
  BY <1>0, <1>1 DEF OneDrops, Dropping, CountsExact, Handles, UsersHold
<1>3. table' = LeftOpen
  BY DEF CreateFails
<1>4. \A d \in Descriptors : (table'[d] = "stream" <=> kind = "local" /\ d = 0)
  <2>1. CASE kind = "local"
    BY <1>3, <2>1 DEF LeftOpen, Opened, Number, Sides
  <2>2. CASE kind # "local"
    BY <1>0, <1>3, <2>2 DEF LeftOpen, Unmade
  <2> QED BY <2>1, <2>2
<1>5. Unmade'
  BY <1>0, <1>1, <1>4 DEF Unmade
<1> QED BY <1>0, <1>1, <1>2, <1>5, CreateFailsType DEF Inv

-----------------------------------------------------------------------------
(***************************************************************************)
(* One handle more, one handle less.                                       *)
(***************************************************************************)
LEMMA CopyType ==
  ASSUME Inv, NEW t \in Threads, NEW u \in Threads, NEW s \in Sides, Copy(t, u, s)
  PROVE  TypeOK'
<1>0. TypeOK /\ CountsExact /\ MaxHandles \in Nat
  BY StreamAssumption DEF Inv
<1>1. held[u][s] \in Nat /\ count[s] \in Nat /\ held[u][s] + 1 <= MaxHandles /\ count[s] + 1 <= MaxHandles
  BY <1>0, HeldBelowCount DEF Copy
<1>2. count' \in [Sides -> 0 .. MaxHandles]
  BY <1>0, <1>1 DEF Copy, TypeOK
<1>3. held' \in [Threads -> [Sides -> 0 .. MaxHandles]]
  <2>1. held[u][s] + 1 \in 0 .. MaxHandles
    BY <1>0, <1>1
  <2>2. [held[u] EXCEPT ![s] = held[u][s] + 1] \in [Sides -> 0 .. MaxHandles]
    BY <1>0, <2>1 DEF TypeOK
  <2>3. held' = [held EXCEPT ![u] = [held[u] EXCEPT ![s] = held[u][s] + 1]]
    BY DEF Copy
  <2> QED BY <1>0, <2>2, <2>3 DEF TypeOK
<1>4. UNCHANGED <<kind, made, table, closed, robbed, deleted, side, pending, written, peer, pc, killed>>
  BY DEF Copy, kindVars, endVars, lineVars
<1> QED BY <1>0, <1>2, <1>3, <1>4 DEF TypeOK

LEMMA CopyInv ==
  ASSUME Inv, NEW t \in Threads, NEW u \in Threads, NEW s \in Sides, Copy(t, u, s)
  PROVE  Inv'
<1>0. TypeOK /\ CountsExact /\ OneDrops /\ UsersHold /\ ~robbed /\ MaxHandles \in Nat /\ made = "yes" /\ Bits
  BY StreamAssumption DEF Inv, Copy, Unmade
<1>1. UNCHANGED <<kind, made, table, closed, robbed, deleted, side, pc>>
  BY DEF Copy, kindVars, endVars
<1>2. held[u][s] \in Nat /\ count[s] \in Nat /\ held[u][s] + 1 <= MaxHandles
      /\ count[s] > 0 /\ Undisturbed
  <2>1. held[u][s] \in Nat /\ count[s] \in Nat /\ held[u][s] <= count[s] /\ held[t][s] <= count[s]
        /\ held[t][s] \in Nat
    BY <1>0, HeldBelowCount
  <2> QED BY <1>0, <2>1 DEF Copy
<1>3. /\ count'[s] = count[s] + 1 /\ \A r \in Sides \ {s} : count'[r] = count[r]
      /\ \A v \in Threads, r \in Sides :
           held'[v][r] = IF v = u /\ r = s THEN held[u][s] + 1 ELSE held[v][r]
  BY <1>0 DEF Copy, TypeOK
<1>4. \A v \in Threads : \A r \in Sides : held[v][r] \in Nat
  BY <1>0, HeldBelowCount
<1>5. CountsExact'
  <2>1. ASSUME NEW r \in Sides \ {s} PROVE Handles(r)' = Handles(r)
    BY <1>3 DEF Handles
  <2>2. Handles(s)' = Handles(s) \cup {<<u, held[u][s] + 1>>}
    <3> DEFINE new == <<u, held[u][s] + 1>>
    <3>1. new \in Threads \X (1 .. MaxHandles) /\ new \in Handles(s)'
      BY <1>0, <1>2, <1>3 DEF Handles
    <3>2. ASSUME NEW h \in Threads \X (1 .. MaxHandles)
          PROVE  h[2] <= held'[h[1]][s] <=> h[2] <= held[h[1]][s] \/ h = new
      <4>1. h[1] \in Threads /\ h[2] \in Nat /\ h = <<h[1], h[2]>>
        BY <1>0
      <4>2. CASE h[1] = u
        BY <1>2, <1>3, <4>1, <4>2
      <4>3. CASE h[1] # u
        BY <1>3, <4>1, <4>3
      <4> QED BY <4>2, <4>3
    <3> QED BY <3>1, <3>2 DEF Handles
  <2>3. <<u, held[u][s] + 1>> \notin Handles(s)
    BY <1>2 DEF Handles
  <2>4. Cardinality(Handles(s)') = Cardinality(Handles(s)) + 1
    BY <2>2, <2>3, HandlesFinite, FS_AddElement
  <2> QED BY <1>0, <1>3, <2>1, <2>4 DEF CountsExact
<1>6. OneDrops' /\ \A v \in Threads : Dropping(v)' <=> Dropping(v)
  BY <1>0, <1>1 DEF OneDrops, Dropping
<1>7. UsersHold'
  BY <1>0, <1>1, <1>3, <1>4 DEF UsersHold, Sides
<1>8. \A r \in Sides : count'[r] = 0 <=> count[r] = 0
  BY <1>2, <1>3
<1>9. Bits'
  <2>1. \A r \in Sides : BitSet(r)' /\ (EndOpen(r)' <=> EndOpen(r)) /\ Number(r)' = Number(r)
    BY <1>0, <1>1, <1>8 DEF Bits, BitSet, Closing, EndOpen, Socket, Number
  <2>2. \A d \in Descriptors : Belongs(d)' <=> Belongs(d)
    BY <2>1 DEF Belongs
  <2> QED BY <1>0, <1>1, <1>6, <1>8, <2>1, <2>2 DEF Bits
<1> QED BY <1>0, <1>1, <1>5, <1>6, <1>7, <1>9, CopyType DEF Inv

LEMMA DropType ==
  ASSUME Inv, NEW t \in Threads, NEW s \in Sides, Drop(t, s)
  PROVE  TypeOK'
<1>0. TypeOK /\ CountsExact /\ MaxHandles \in Nat
  BY StreamAssumption DEF Inv
<1>1. held[t][s] - 1 \in 0 .. MaxHandles /\ count[s] - 1 \in 0 .. MaxHandles
  <2>1. held[t][s] \in Nat /\ count[s] \in Nat /\ held[t][s] <= count[s]
    BY <1>0, HeldBelowCount
  <2>2. count[s] <= MaxHandles /\ held[t][s] > 0
    BY <1>0 DEF TypeOK, Drop
  <2> QED BY <1>0, <2>1, <2>2
<1>2. count' \in [Sides -> 0 .. MaxHandles]
  BY <1>0, <1>1 DEF Drop, TypeOK
<1>3. held' \in [Threads -> [Sides -> 0 .. MaxHandles]]
  <2>2. [held[t] EXCEPT ![s] = held[t][s] - 1] \in [Sides -> 0 .. MaxHandles]
    BY <1>0, <1>1 DEF TypeOK
  <2>3. held' = [held EXCEPT ![t] = [held[t] EXCEPT ![s] = held[t][s] - 1]]
    BY DEF Drop
  <2> QED BY <1>0, <2>2, <2>3 DEF TypeOK
<1>4. side' \in [Threads -> Sides] /\ pc' \in [Threads -> Labels]
  BY <1>0 DEF Drop, Goto, Labels, TypeOK
<1>5. UNCHANGED <<kind, made, table, closed, robbed, deleted, pending, written, peer, killed>>
  BY DEF Drop, kindVars, endVars, lineVars
<1> QED BY <1>0, <1>2, <1>3, <1>4, <1>5 DEF TypeOK

LEMMA DropInv ==
  ASSUME Inv, NEW t \in Threads, NEW s \in Sides, Drop(t, s)
  PROVE  Inv'
<1>0. TypeOK /\ CountsExact /\ OneDrops /\ UsersHold /\ ~robbed /\ MaxHandles \in Nat /\ made = "yes" /\ Bits
  BY StreamAssumption DEF Inv, Drop, Unmade
<1>1. UNCHANGED <<kind, made, table, closed, robbed, deleted>>
  BY DEF Drop, kindVars, endVars
<1>2. held[t][s] \in Nat \ {0} /\ held[t][s] <= MaxHandles /\ count[s] \in Nat \ {0} /\ Undisturbed
      /\ pc[t] = "idle"
  <2>1. held[t][s] \in Nat /\ count[s] \in Nat /\ held[t][s] <= count[s]
    BY <1>0, HeldBelowCount
  <2>2. held[t][s] <= MaxHandles /\ held[t][s] > 0
    BY <1>0 DEF TypeOK, Drop
  <2> QED BY <2>1, <2>2 DEF Drop, At
<1>3. /\ count'[s] = count[s] - 1 /\ \A r \in Sides \ {s} : count'[r] = count[r]
      /\ \A v \in Threads, r \in Sides :
           held'[v][r] = IF v = t /\ r = s THEN held[t][s] - 1 ELSE held[v][r]
  BY <1>0 DEF Drop, TypeOK
<1>4. /\ \A v \in Threads : pc'[v] = IF v = t THEN "close" ELSE pc[v]
      /\ \A v \in Threads : side'[v] = IF v = t THEN s ELSE side[v]
  BY <1>0 DEF Drop, Goto, TypeOK
<1>5. CountsExact'
  <2>1. ASSUME NEW r \in Sides \ {s} PROVE Handles(r)' = Handles(r)
    BY <1>3 DEF Handles
  <2> DEFINE old == <<t, held[t][s]>>
  <2>2. Handles(s)' = Handles(s) \ {old}
    <3>2. ASSUME NEW h \in Threads \X (1 .. MaxHandles)
          PROVE  h[2] <= held'[h[1]][s] <=> h[2] <= held[h[1]][s] /\ h # old
      <4>1. h[1] \in Threads /\ h[2] \in Nat /\ h = <<h[1], h[2]>>
        BY <1>0
      <4>2. CASE h[1] = t
        BY <1>2, <1>3, <4>1, <4>2
      <4>3. CASE h[1] # t
        BY <1>3, <4>1, <4>3
      <4> QED BY <4>2, <4>3
    <3> QED BY <3>2 DEF Handles
  <2>3. old \in Handles(s)
    BY <1>0, <1>2 DEF Handles
  <2>4. Cardinality(Handles(s)') = Cardinality(Handles(s)) - 1
    <3> HIDE DEF old
    <3> QED BY <2>2, <2>3, HandlesFinite, FS_RemoveElement
  <2> QED BY <1>0, <1>3, <2>1, <2>4 DEF CountsExact
<1>6. OneDrops' /\ UsersHold'
  <2>1. OneDrops'
    BY <1>2, <1>4 DEF OneDrops, Dropping, Undisturbed
  <2>2. \A v \in Threads : v # t => \A r \in Sides : held'[v][r] = held[v][r]
    BY <1>3
  <2>3. UsersHold'
    BY <1>0, <1>4, <2>2 DEF UsersHold, Sides
  <2> QED BY <2>1, <2>3
<1>7. Bits'
  <2>1. \A r \in Sides : (EndOpen(r)' <=> EndOpen(r)) /\ Number(r)' = Number(r)
    BY <1>1 DEF EndOpen, Socket, Number
  <2>2. \A r \in Sides : ~Closing(r)
    BY <1>2 DEF Closing, Undisturbed
  <2>3. \A r \in Sides : Closing(r)' <=> r = s
    BY <1>2, <1>4 DEF Closing, Undisturbed
  <2>4. \A r \in Sides : BitSet(r)'
    BY <1>0, <1>1, <1>2, <1>3, <2>2, <2>3 DEF Bits, BitSet
  <2>5. ~deleted /\ Dropping(t)'
    BY <1>0, <1>2, <1>4 DEF Bits, Dropping
  <2>6. \A d \in Descriptors : Belongs(d)' <=> Belongs(d)
    BY <2>1 DEF Belongs
  <2> QED BY <1>0, <1>1, <2>4, <2>5, <2>6 DEF Bits
<1> QED BY <1>0, <1>1, <1>5, <1>6, <1>7, DropType DEF Inv

-----------------------------------------------------------------------------
(***************************************************************************)
(* The two steps of the end of a handle.                                   *)
(***************************************************************************)
LEMMA ClosesNumbers ==
  ASSUME NEW s \in Sides, NEW bits
  PROVE  Closes(s, bits) \subseteq {Number(s)} /\ (s \in bits => Closes(s, bits) = {})
  BY DEF Closes, ClosesPipe, ClosesSocket

(* zs__stream_close_reader, _writer close the end only when it is theirs. *)
LEMMA CloseEnd ==
  ASSUME TypeOK, \A d \in Descriptors : table[d] = "stream" <=> Belongs(d), ~robbed,
         NEW s \in Sides, CloseAll(Closes(s, closed)), closed' = closed \cup {s}, kind' = kind,
         kind = "input" => "writer" \in closed
  PROVE  ~robbed' /\ \A d \in Descriptors : (table[d] = "stream")' <=> Belongs(d)'
<1>0. closed \subseteq Sides /\ {0, 1} \subseteq Descriptors /\ 0 # 1
  BY StreamAssumption DEF TypeOK
<1>1. \A r \in Sides : Number(r) \in Descriptors /\ Number(r)' = Number(r) /\ (Socket' <=> Socket)
  BY <1>0 DEF Number, Socket
<1>2. ASSUME NEW d \in Closes(s, closed) PROVE d = Number(s) /\ EndOpen(s)
  BY <1>0, <1>2 DEF Closes, ClosesPipe, ClosesSocket, EndOpen
<1>3. ASSUME NEW d \in Closes(s, closed) PROVE table[d] = "stream"
  BY <1>1, <1>2 DEF Belongs
<1>4. ~robbed'
  BY <1>3 DEF CloseAll
<1>5. \A d \in Descriptors : table'[d] = "stream" <=> (d \notin Closes(s, closed) /\ Belongs(d))
  BY DEF CloseAll
<1>6. ASSUME NEW d \in Descriptors
      PROVE  Belongs(d)' <=> d \notin Closes(s, closed) /\ Belongs(d)
  <2>1. CASE Socket
    BY <1>0, <1>1, <2>1 DEF Belongs, EndOpen, Closes, ClosesSocket, Number, Socket, Sides
  <2>2. CASE ~Socket
    <3>1. \A r \in Sides : EndOpen(r)' <=> EndOpen(r) /\ r # s
      BY <1>1, <2>2 DEF EndOpen
    <3>2. Belongs(d)' <=> \E r \in Sides : Number(r) = d /\ r \notin closed /\ r # s
      BY <1>1, <2>2, <3>1 DEF Belongs, EndOpen
    <3>3. Belongs(d) <=> \E r \in Sides : Number(r) = d /\ r \notin closed
      BY <2>2 DEF Belongs, EndOpen
    <3>4. d \in Closes(s, closed) <=> s \notin closed /\ d = Number(s)
      BY <2>2 DEF Closes, ClosesPipe
    <3>5. CASE kind = "pipe"
      <4>1. \A r \in Sides : Number(r) = Number(s) => r = s
        BY <1>0, <3>5 DEF Number, Sides
      <4> QED BY <3>2, <3>3, <3>4, <4>1
    <3>6. CASE kind = "input"
      BY <3>2, <3>3, <3>4, <3>6 DEF Number, Sides
    <3> QED BY <2>2, <3>5, <3>6, StreamAssumption DEF TypeOK, Socket
  <2> QED BY <2>1, <2>2
<1> QED BY <1>4, <1>5, <1>6

LEMMA CloseSideType == ASSUME Inv, NEW t \in Threads, CloseSide(t) PROVE TypeOK'
<1>0. TypeOK /\ table \in Tables /\ robbed \in BOOLEAN
  BY DEF Inv, TypeOK, Tables
<1>1. table' \in Tables /\ robbed' \in BOOLEAN /\ closed' \subseteq Sides
  <2>1. CASE count[side[t]] = 0
    BY <1>0, <2>1, CloseAllType DEF CloseSide, TypeOK
  <2>2. CASE count[side[t]] # 0
    BY <1>0, <2>2 DEF CloseSide, endVars, TypeOK
  <2> QED BY <2>1, <2>2
<1>2. pc' \in [Threads -> Labels]
  BY <1>0 DEF CloseSide, Goto, Labels, TypeOK
<1>3. UNCHANGED <<kind, made, count, held, deleted, side, pending, written, peer, killed>>
  BY DEF CloseSide, kindVars, handleVars, lineVars
<1> QED BY <1>0, <1>1, <1>2, <1>3 DEF TypeOK, Tables

LEMMA CloseSideInv == ASSUME Inv, NEW t \in Threads, CloseSide(t) PROVE Inv'
<1>0. TypeOK /\ CountsExact /\ OneDrops /\ UsersHold /\ ~robbed /\ made = "yes" /\ Bits /\ pc[t] = "close"
  BY DEF Inv, CloseSide, Unmade, At
<1>1. UNCHANGED <<kind, made, count, held, deleted, side>>
  BY DEF CloseSide, kindVars, handleVars
<1>2. \A u \in Threads : pc'[u] = IF u = t THEN "last" ELSE pc[u]
  BY <1>0 DEF CloseSide, Goto, TypeOK
<1>3. CountsExact' /\ OneDrops' /\ UsersHold' /\ \A u \in Threads : Dropping(u)' <=> Dropping(u)
  BY <1>0, <1>1, <1>2 DEF CountsExact, Handles, OneDrops, UsersHold, Dropping
<1> DEFINE s == side[t]
<1>4. s \in Sides /\ (\A r \in Sides : (Closing(r) <=> r = s) /\ ~Closing(r)')
  BY <1>0, <1>1, <1>2 DEF TypeOK, Closing, OneDrops, Dropping
<1>5. ~robbed' /\ (\A d \in Descriptors : (table[d] = "stream")' <=> Belongs(d)')
      /\ closed' = IF count[s] = 0 THEN closed \cup {s} ELSE closed
  <2>1. CASE count[s] = 0
    <3>1. CloseAll(Closes(s, closed)) /\ closed' = closed \cup {s}
      BY <2>1 DEF CloseSide
    <3>2. kind = "input" => "writer" \in closed
      BY <1>0 DEF Bits, BitSet, Sides
    <3> QED BY <1>0, <1>1, <1>4, <2>1, <3>1, <3>2, CloseEnd DEF Bits
  <2>2. CASE count[s] # 0
    <3>1. UNCHANGED <<table, closed, robbed>>
      BY <2>2 DEF CloseSide, endVars
    <3>2. \A d \in Descriptors : Belongs(d)' <=> Belongs(d)
      BY <1>1, <3>1 DEF Belongs, EndOpen, Number, Socket
    <3> QED BY <1>0, <2>2, <3>1, <3>2 DEF Bits
  <2> QED BY <2>1, <2>2
<1>6. \A r \in Sides : BitSet(r)'
  BY <1>0, <1>1, <1>4, <1>5 DEF Bits, BitSet
<1>7. Bits'
  BY <1>0, <1>1, <1>3, <1>5, <1>6 DEF Bits
<1> QED BY <1>0, <1>1, <1>3, <1>5, <1>7, CloseSideType DEF Inv

LEMMA LastType == ASSUME Inv, NEW t \in Threads, Last(t) PROVE TypeOK'
<1>0. TypeOK /\ table \in Tables /\ robbed \in BOOLEAN /\ deleted \in BOOLEAN
  BY DEF Inv, TypeOK, Tables
<1>1. table' \in Tables /\ robbed' \in BOOLEAN /\ closed' \subseteq Sides
  <2>1. CASE Unused
    BY <1>0, <2>1, CloseAllType DEF Last
  <2>2. CASE ~Unused
    BY <1>0, <2>2 DEF Last, endVars, TypeOK
  <2> QED BY <2>1, <2>2
<1>2. pc' \in [Threads -> Labels] /\ deleted' \in BOOLEAN
  <2>1. pc' \in [Threads -> Labels]
    BY <1>0 DEF Last, Goto, Labels, TypeOK
  <2>2. deleted' \in BOOLEAN
    BY <1>0 DEF Last
  <2> QED BY <2>1, <2>2
<1>3. UNCHANGED <<kind, made, count, held, side, pending, written, peer, killed>>
  BY DEF Last, kindVars, lineVars
<1> QED BY <1>0, <1>1, <1>2, <1>3 DEF TypeOK, Tables

LEMMA LastInv == ASSUME Inv, NEW t \in Threads, Last(t) PROVE Inv'
<1>0. TypeOK /\ CountsExact /\ OneDrops /\ UsersHold /\ ~robbed /\ made = "yes" /\ Bits /\ pc[t] = "last"
      /\ closed \subseteq Sides
  BY DEF Inv, Last, Unmade, At, TypeOK
<1>1. UNCHANGED <<kind, made, count, held, side>>
  BY DEF Last, kindVars
<1>2. \A u \in Threads : pc'[u] = IF u = t THEN "idle" ELSE pc[u]
  BY <1>0 DEF Last, Goto, TypeOK
<1>3. CountsExact' /\ OneDrops' /\ UsersHold' /\ \A u \in Threads : ~Dropping(u)'
  BY <1>0, <1>1, <1>2 DEF CountsExact, Handles, OneDrops, UsersHold, Dropping
<1>4. \A r \in Sides : ~Closing(r) /\ ~Closing(r)'
  BY <1>0, <1>2 DEF Closing, OneDrops, Dropping
<1>5. UNCHANGED <<robbed, closed>> /\ (\A d \in Descriptors : table'[d] = table[d])
      /\ deleted' = (deleted \/ Unused)
  <2>1. CASE Unused
    <3>1. closed = Sides
      BY <1>0, <1>4, <2>1 DEF Bits, BitSet, Unused
    <3>2. Closes("reader", closed) \cup Closes("writer", closed \cup {"reader"}) = {}
      BY <3>1, ClosesNumbers DEF Sides
    <3> QED BY <1>0, <2>1, <3>1, <3>2 DEF Last, CloseAll, TypeOK
  <2>2. CASE ~Unused
    <3>1. UNCHANGED <<robbed, closed, table, deleted>> /\ deleted \in BOOLEAN
      BY <1>0, <2>2 DEF Last, endVars, TypeOK
    <3> QED BY <2>2, <3>1
  <2> QED BY <2>1, <2>2
<1>6. Bits'
  <2>1. \A r \in Sides : BitSet(r)' /\ (EndOpen(r)' <=> EndOpen(r)) /\ Number(r)' = Number(r)
    BY <1>0, <1>1, <1>4, <1>5 DEF Bits, BitSet, EndOpen, Socket, Number
  <2>2. \A d \in Descriptors : Belongs(d)' <=> Belongs(d)
    BY <2>1 DEF Belongs
  <2>3. ~deleted
    BY <1>0 DEF Bits, Dropping
  <2> QED BY <1>0, <1>1, <1>3, <1>5, <2>1, <2>2, <2>3 DEF Bits, Unused
<1> QED BY <1>0, <1>1, <1>3, <1>5, <1>6, LastType DEF Inv

LEMMA Stutter == ASSUME Inv, UNCHANGED vars PROVE Inv'
<1>1. UNCHANGED <<kind, made, table, closed, robbed, count, held, deleted, side,
                  pending, written, peer, pc, killed>>
  BY DEF vars, kindVars, endVars, handleVars, lineVars
<1>2. TypeOK'
  BY <1>1 DEF Inv, TypeOK
<1>3. OneDrops' /\ CountsExact' /\ UsersHold' /\ ~robbed'
  BY <1>1 DEF Inv, OneDrops, Dropping, CountsExact, Handles, UsersHold
<1>4. Bits' <=> Bits
  BY <1>1 DEF Bits, BitSet, Closing, Belongs, EndOpen, Socket, Number, Dropping
<1>5. Unmade' <=> Unmade
  BY <1>1 DEF Unmade
<1> QED BY <1>1, <1>2, <1>3, <1>4, <1>5 DEF Inv

LEMMA InvStep == Inv /\ [Next]_vars => Inv'
<1> SUFFICES ASSUME Inv, [Next]_vars PROVE Inv'
  OBVIOUS
<1>1. ASSUME NEW t \in Threads, Flow(t) PROVE Inv'
  BY <1>1, FlowType, FlowQuiet, QuietStep
<1>2. CASE Outside
  BY <1>2, OutsideType, OutsideQuiet, QuietStep
<1>3. ASSUME NEW t \in Threads, CloseSide(t) \/ Last(t) PROVE Inv'
  BY <1>3, CloseSideInv, LastInv
<1>4. ASSUME NEW t \in Threads, NEW u \in Threads, NEW s \in Sides, Copy(t, u, s) PROVE Inv'
  BY <1>4, CopyInv
<1>5. ASSUME NEW t \in Threads, NEW s \in Sides, Drop(t, s) PROVE Inv'
  BY <1>5, DropInv
<1>6. CASE Create \/ CreateFails
  BY <1>6, CreateInv, CreateFailsInv
<1>7. CASE UNCHANGED vars
  BY <1>7, Stutter
<1> QED BY <1>1, <1>2, <1>3, <1>4, <1>5, <1>6, <1>7 DEF Next, Step, Flow, Outside

LEMMA AlwaysInv == Spec => []Inv
  BY InvInit, InvStep, PTL DEF Spec

-----------------------------------------------------------------------------
(***************************************************************************)
(* Every variable of the stream keeps its type, whatever the threads, the  *)
(* other process and the rest of this one do.                              *)
(***************************************************************************)
THEOREM TypeCorrect == Spec => []TypeOK
<1>1. Inv => TypeOK
  BY DEF Inv
<1> QED BY <1>1, AlwaysInv, PTL

(***************************************************************************)
(* The ends of a stream are open exactly while ZSStream counts handles on  *)
(* them, and it is destroyed exactly with the last one: none is left open  *)
(* and none is closed under a handle, but for the socket that              *)
(* zs__stream_create_local forgets when it cannot connect.                 *)
(***************************************************************************)
THEOREM OpenWhileHeld == Spec => []EndsMatchHandles
<1>1. Inv => EndsMatchHandles
  <2> SUFFICES ASSUME Inv, Undisturbed
               PROVE  /\ \A d \in Descriptors : table[d] = "stream" <=>
                           Needed(d) \/ (made = "failed" /\ kind = "local" /\ d = 0)
                      /\ made = "yes" => (deleted <=> \A s \in Sides : Handles(s) = {})
    BY DEF EndsMatchHandles
  <2>1. \A s \in Sides : count[s] = 0 <=> Handles(s) = {}
    BY NoneHeld DEF Inv
  <2>2. CASE made = "yes"
    <3>1. \A s \in Sides : s \in closed <=> Handles(s) = {} \/ (kind = "input" /\ s = "writer")
      BY <2>1, <2>2 DEF Inv, Bits, BitSet, Closing, Undisturbed
    <3>2. ASSUME NEW d \in Descriptors PROVE Belongs(d) <=> Needed(d)
      <4>1. CASE Socket
        BY <3>1, <4>1 DEF Belongs, Needed, EndOpen, Number, Socket, Sides, Inv, TypeOK
      <4>2. CASE ~Socket
        BY <3>1, <4>2 DEF Belongs, Needed, EndOpen, Sides
      <4> QED BY <4>1, <4>2
    <3> QED BY <2>1, <2>2, <3>2 DEF Inv, Bits, Dropping, Undisturbed
  <2>3. CASE made # "yes"
    <3>1. \A s \in Sides : Handles(s) = {}
      BY <2>3, NoneHeld DEF Inv, Unmade
    <3> QED BY <2>3, <3>1 DEF Inv, Unmade, Needed
  <2> QED BY <2>2, <2>3
<1> QED BY <1>1, AlwaysInv, PTL

(***************************************************************************)
(* Neither the end of a handle nor the destructor of the stream closes a   *)
(* descriptor that the process was given again for something else.         *)
(***************************************************************************)
THEOREM NothingRobbed == Spec => []NeverRobbed
<1>1. Inv => NeverRobbed
  BY DEF Inv, NeverRobbed
<1> QED BY <1>1, AlwaysInv, PTL

(***************************************************************************)
(* Whoever drops the last handle of both sides is the last one to use the  *)
(* stream: nobody is in a call on it or has a handle when it is freed.     *)
(***************************************************************************)
THEOREM FreedUnused == Spec => []NoUseAfterDelete
<1>1. Inv => NoUseAfterDelete
  <2> SUFFICES ASSUME Inv, deleted, NEW t \in Threads
               PROVE  pc[t] = "idle" /\ \A s \in Sides : held[t][s] = 0
    BY DEF NoUseAfterDelete
  <2>1. Bits
    BY DEF Inv, Unmade
  <2>2. ~Dropping(t) /\ \A s \in Sides : held[t][s] = 0
    BY <2>1, NoneHeld DEF Inv, Bits
  <2>3. pc[t] \in Labels /\ UsersHold
    BY DEF Inv, TypeOK
  <2> QED BY <2>2, <2>3 DEF UsersHold, Dropping, Labels, Sides
<1> QED BY <1>1, AlwaysInv, PTL
=============================================================================
