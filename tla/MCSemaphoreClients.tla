------------------------- MODULE MCSemaphoreClients -------------------------
(* Instances of SemaphoreClients for TLC. *)
EXTENDS SemaphoreClients, TLC

MCInitial == [s \in SemIds |-> IF s = 0 THEN 1 ELSE 0]

(* P and V on two semaphores, a call with a timeout, a wrong id, the value 0, and
   the values next to the width of a short, 32768 and 65536. *)
MCOpArgs == {<<0, -1, FALSE>>, <<0, 1, FALSE>>, <<1, -1, TRUE>>, <<1, 1, FALSE>>,
             <<2, 1, FALSE>>, <<0, 0, FALSE>>,
             <<0, ShortMax + 1, FALSE>>, <<1, 2 * ShortMax + 2, FALSE>>}
MCSetArgs == {<<0, 0>>, <<1, 2>>, <<2, 1>>, <<0, -1>>}

Unraced == ~raced

Symmetry == Permutations(Handles)
=============================================================================
