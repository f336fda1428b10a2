------------------------- MODULE MCInspectionSerial -------------------------
(***************************************************************************)
(* Requests that do not overlap: whole reviews, and work that is handed    *)
(* over and sent back.  The two are not combined in every way.             *)
(***************************************************************************)
EXTENDS MCInspectionWorkflow

SerialOperations == ReviewOperations \cup HandoverOperations

\* Once a review has been filled in, the work is in its first round and stays
\* with the one who submitted it.
InScope ==
  workspace # {} =>
    /\ insp.inspector = attestedBy
    /\ insp.submissionCount = 1
    /\ \A r \in Requests : requests[r].op # "assign"

=============================================================================
