------------------------------ MODULE MCSessions ------------------------------
(* Small instances of Sessions for TLC. *)
EXTENDS Sessions, TLC

\* The ids have no order.
Symmetry == Permutations(SessionIds) \cup Permutations(Tokens)

=============================================================================
