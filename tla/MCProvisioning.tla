--------------------------- MODULE MCProvisioning ---------------------------
(* Instances of Provisioning for TLC. *)
EXTENDS Provisioning, TLC

\* The slots of the API process are interchangeable, and so are the slugs.
Symmetry == Permutations(ApiRequests) \cup Permutations(Slugs)

=============================================================================
