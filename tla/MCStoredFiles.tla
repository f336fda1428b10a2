---------------------------- MODULE MCStoredFiles ----------------------------
(* Small instances of StoredFiles for TLC. *)
EXTENDS StoredFiles, TLC

Symmetry == Permutations(Handlers) \cup Permutations(Images)

=============================================================================
