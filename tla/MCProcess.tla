----------------------------- MODULE MCProcess ------------------------------
(* Instances of ZsProcess for TLC. *)
EXTENDS ZsProcess, TLC

CONSTANTS p, q

Start(mine, hers, open) == <<(p :> mine) @@ (q :> hers), open>>

Own(streams)     == [streams |-> streams, cpp |-> FALSE]
Process(streams) == [streams |-> streams, cpp |-> TRUE]

MCDescriptors == 0 .. 5

(* Two pipes and a closed output, or a pipe each; one client has ZSProcess. *)
MCStarts == {
  Start(Own({"out", "in"}), Process({}), {0}),
  Start(Own({"out"}), Process({"in"}), {0, 1})}

(* The second process of example/process/cpp. *)
MCReader == {Start(Process({"out"}), Process({}), {0, 1})}
=============================================================================
