------------------------------- MODULE MCEdge -------------------------------
(* Instances of Edge for TLC. *)
EXTENDS Edge, TLC

Symmetry == Permutations(ContainerIds) \cup Permutations(ApiRequests)

=============================================================================
