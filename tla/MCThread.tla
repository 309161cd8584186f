------------------------------ MODULE MCThread ------------------------------
(* Instances of ZsThread for TLC. *)
EXTENDS ZsThread, TLC

CONSTANTS m, t, u

(* Every thread is executed once, or t may be executed again while it runs. *)
MCOnce  == [h \in Threads |-> 1]
MCTwice == [h \in Threads |-> IF h = t THEN 2 ELSE 1]

BlockSymmetry == Permutations(Blocks)
=============================================================================
