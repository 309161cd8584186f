------------------------------ MODULE MCServer -------------------------------
(* Instances of ZsServer for TLC. *)
EXTENDS ZsServer

(* Datagrams without content, and that are cut off. *)
MCSizes == {0, 3}

(* Equal times, times that differ in one of the parts or in both. *)
MCDues == {<<0, 1>>, <<0, 999999>>, <<1, 0>>, <<1, 1>>}
=============================================================================
