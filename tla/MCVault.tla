------------------------------- MODULE MCVault -------------------------------
(* Vault on small instances. *)
EXTENDS Vault, TLC

\* Keys, row ids and requests that may all fail differ in nothing but their names.
Symmetry == Permutations(Keys) \cup Permutations(RowIds) \cup Permutations(Requests)

=============================================================================
