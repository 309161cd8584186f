---------------------------- MODULE ZsThreadMap -----------------------------
(***************************************************************************)
(* zs__thread_map of lib/zslib.c: the singly linked list of the threads    *)
(* that have not ended, newest first, at the level of its pointers.        *)
(*                                                                         *)
(* The entries are heap blocks.  free gives a block back, and it may be    *)
(* still linked then (zs__thread_map_remove tests a_list->next != a_entry  *)
(* where == was meant): a walk over the list may read a freed block, or a  *)
(* block that malloc has given out again.                                  *)
(***************************************************************************)
EXTENDS Integers, FiniteSets

CONSTANTS
  Threads,   \* the threads of the process but the one in zs__execute
  Blocks,    \* the heap blocks for struct zs__thread_list
  Null

ASSUME MapAssumption ==
  /\ IsFiniteSet(Threads) /\ IsFiniteSet(Blocks)
  /\ Null \notin Threads \cup Blocks

VARIABLES
  head,        \* zs__thread_map
  next,        \* next of every block
  entryOf,     \* thread of every block: whose struct zs__thread it points to
  allocated,   \* the blocks that malloc gave out and nobody freed
  handle       \* thread_handle of every struct: the thread it names, or Null

mapVars == <<head, next, entryOf, allocated, handle>>

MapTypeOK ==
  /\ head \in Blocks \cup {Null}
  /\ next \in [Blocks -> Blocks \cup {Null}]
  /\ entryOf \in [Blocks -> Threads \cup {Null}]
  /\ allocated \subseteq Blocks
  /\ handle \in [Threads -> Threads \cup {Null}]

MapInit ==
  /\ head = Null
  /\ next = [b \in Blocks |-> Null]
  /\ entryOf = [b \in Blocks |-> Null]
  /\ allocated = {}
  /\ handle = [t \in Threads |-> Null]

(***************************************************************************)
(* zs__thread_map_find.  Walk[n] is a_list after n steps; a walk that has  *)
(* visited all the blocks and goes on is in a circle and never ends.       *)
(***************************************************************************)
Walk[n \in 0 .. Cardinality(Blocks)] ==
  IF n = 0 THEN head
  ELSE IF Walk[n - 1] = Null THEN Null ELSE next[Walk[n - 1]]

Names(b, h) == b # Null /\ entryOf[b] # Null /\ handle[entryOf[b]] = h
Stops(h) == {n \in DOMAIN Walk : Walk[n] = Null \/ Names(Walk[n], h)}
Steps(h) == CHOOSE n \in Stops(h) : \A k \in Stops(h) : n <= k

FindEnds(h) == Stops(h) # {}
Find(h)     == Walk[Steps(h)]
Visited(h)  == IF FindEnds(h) THEN {Walk[n] : n \in 0 .. Steps(h)} \ {Null}
                              ELSE {Walk[n] : n \in DOMAIN Walk}

(***************************************************************************)
(* The insertion of zs__thread_create: malloc, and the block in front.     *)
(* The handle field is not set yet: it reads as what the heap holds, 0 or  *)
(* the handle that an ended thread left in a block of this size.           *)
(***************************************************************************)
Insert(t, stale) ==
  /\ \E b \in Blocks \ allocated :
       /\ allocated' = allocated \cup {b}
       /\ entryOf' = [entryOf EXCEPT ![b] = t]
       /\ next' = [next EXCEPT ![b] = head]
       /\ head' = b
  /\ handle' = [handle EXCEPT ![t] = stale]

(***************************************************************************)
(* zs__thread_map_remove.  An entry that is not the first: the loop ends   *)
(* at the first element whose successor is NOT the entry, so at the head,  *)
(* or, if the entry is the second element, at the entry itself.            *)
(***************************************************************************)
RemoveEnds(b) == b = head \/ next[head] # b \/ next[b] # b

(* Mutant of Remove: the first element is not told apart. *)
RemoveNoHead(b) ==
  /\ next' = [next EXCEPT ![IF next[head] # b THEN head ELSE b] = next[b]]
  /\ allocated' = allocated \ {b}
  /\ UNCHANGED <<head, entryOf, handle>>

Remove(b) ==
  /\ IF b = head
       THEN head' = next[b] /\ next' = next
       ELSE LET a_list == IF next[head] # b THEN head ELSE b
            IN next' = [next EXCEPT ![a_list] = next[b]] /\ head' = head
  /\ allocated' = allocated \ {b}
  /\ UNCHANGED <<entryOf, handle>>
=============================================================================
