--------------------------- MODULE MCInspectionFee ---------------------------
(* Small instances of InspectionFee for TLC. *)
EXTENDS InspectionFee, TLC

\* Neither the handlers nor the references have an order.
Symmetry == Permutations(Handlers) \cup Permutations(Refs)

=============================================================================
