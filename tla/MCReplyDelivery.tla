--------------------------- MODULE MCReplyDelivery ---------------------------
(* Small instances of ReplyDelivery. *)
EXTENDS ReplyDelivery, TLC

Sym == Permutations(Procs)

AllDeployments == [coalesce : BOOLEAN, threaded : BOOLEAN]
Coalescing == {[coalesce |-> TRUE, threaded |-> TRUE]}
=============================================================================
