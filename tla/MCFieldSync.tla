----------------------------- MODULE MCFieldSync -----------------------------
(* Small instances of FieldSync for TLC. *)
EXTENDS FieldSync

CONSTANT p1

TwoOperations == {1, 2}
ABatchOrAPhoto == {{1, 2}, {1, p1}}
OneOperation == {{1}}

=============================================================================
