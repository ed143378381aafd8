----------------------------- MODULE MCDeletion -----------------------------
(* Instances of Deletion for TLC. *)
EXTENDS Deletion, TLC

\* Container ids are interchangeable, and so are the request slots of the API process.
Symmetry == Permutations(ContainerIds) \cup Permutations(ApiRequests)

=============================================================================
