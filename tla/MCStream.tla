------------------------------ MODULE MCStream ------------------------------
(* Instances of ZsStream for TLC. *)
EXTENDS ZsStream

MCDescriptors == 0 .. 2
=============================================================================
