------------------------- MODULE MCPubSubDelivery -------------------------
(* The instances of PubSubDelivery that TLC checks. *)
EXTENDS PubSubDelivery, TLC

Symmetry == Permutations(Messages) \cup Permutations(Handlers)
=============================================================================
