------------------------------ MODULE MCAccess ------------------------------
(* Instances of Access for TLC. *)
EXTENDS Access, TLC

\* Request slots, of which all may fail, and random values are interchangeable.
Symmetry == Permutations(Requests) \cup Permutations(UserIds) \cup Permutations(RowIds)
            \cup Permutations(Tokens)

=============================================================================
