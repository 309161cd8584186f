---------------------------- MODULE MessageQueue ----------------------------
(***************************************************************************)
(* What struct zs__messageloop promises its clients: the messages that     *)
(* zs__messageloop_post accepts are given to the response function one at  *)
(* a time, each once, in the order they were accepted; after the abort no  *)
(* message is accepted any more, those that were accepted before it are    *)
(* still handled, and then, once, after_abort is called.                   *)
(***************************************************************************)
EXTENDS Sequences, Naturals

CONSTANT Messages

VARIABLES
  accepted,   \* the messages accepted, in order
  handled,    \* the messages whose response returned, in order
  open,       \* no abort yet
  finished    \* after_abort was called

vars == <<accepted, handled, open, finished>>

Init == accepted = <<>> /\ handled = <<>> /\ open = TRUE /\ finished = FALSE

Accept(m) ==
  /\ open
  /\ accepted' = Append(accepted, m)
  /\ UNCHANGED <<handled, open, finished>>

Close ==
  /\ open /\ open' = FALSE
  /\ UNCHANGED <<accepted, handled, finished>>

Handle ==
  /\ Len(handled) < Len(accepted)
  /\ handled' = Append(handled, accepted[Len(handled) + 1])
  /\ UNCHANGED <<accepted, open, finished>>

Finish ==
  /\ ~open /\ ~finished /\ handled = accepted
  /\ finished' = TRUE
  /\ UNCHANGED <<accepted, handled, open>>

Next == (\E m \in Messages : Accept(m)) \/ Close \/ Handle \/ Finish

Safety == Init /\ [][Next]_vars
Fairness == WF_vars(Handle) /\ WF_vars(Finish)
Spec == Safety /\ Fairness
=============================================================================
