------------------------------ MODULE MCGwApp -------------------------------
(* GwApp with endpoints and nodes that can be exchanged. *)
EXTENDS GwApp, TLC

Alike == Permutations(Endpoint) \cup Permutations(Node)
=============================================================================
