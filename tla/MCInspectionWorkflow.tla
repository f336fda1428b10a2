------------------------ MODULE MCInspectionWorkflow ------------------------
(* Small instances of InspectionWorkflow for TLC. *)
EXTENDS InspectionWorkflow, TLC

CONSTANTS ann, bob, rita,     \* an inspector, one with both roles, a reviewer
          r1, r2,             \* request slots
          draft, plain, built \* contents: incomplete, complete, with a building

MCPermissionsOf ==
  ann :> {"inspections.write"} @@
  bob :> {"inspections.write", "reviews.decide"} @@
  rita :> {"inspections.assign", "reviews.decide", "reports.generate"}

\* Two people: an inspector, and one who may do everything.
MCPairPermissionsOf ==
  ann :> {"inspections.write"} @@
  bob :> {"inspections.write", "inspections.assign", "reviews.decide",
          "reports.generate"}

Symmetry == Permutations(Requests)

\* One review from assignment to report, with every part of the workspace.
ReviewOperations ==
  {"start", "saveContent", "submit", "generateReport"}
    \cup Decisions \cup (ReviewEdits \ {"addAdjustment"})

\* Handing the work over and sending it back, without the workspace.
HandoverOperations ==
  {"assign", "start", "saveContent", "submit", "beginReview", "reject",
   "requestCorrection"}

EveryOperation == AllOperations

=============================================================================
