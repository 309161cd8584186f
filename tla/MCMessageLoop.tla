--------------------------- MODULE MCMessageLoop ----------------------------
(* Instances of ZsMessageLoop for TLC. *)
EXTENDS ZsMessageLoop, TLC

CONSTANTS l, p, q, a   \* the loop's thread, two posters, the aborter

(* p posts two messages, everybody else (the loop from its response) one. *)
MCMaxPosts == [t \in Threads |-> CASE t = p -> 2 [] t = a -> 0 [] OTHER -> 1]

(* The posters: p two messages, q one. *)
MCPosts == [t \in Threads |-> CASE t = p -> 2 [] t = q -> 1 [] OTHER -> 0]

(* One poster, one message. *)
MCOnePost == [t \in Threads |-> IF t = p THEN 1 ELSE 0]
=============================================================================
