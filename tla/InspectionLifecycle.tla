------------------------ MODULE InspectionLifecycle ------------------------
(***************************************************************************)
(* What the transition table promises of an inspection: its status moves   *)
(* by the rules of TRANSITIONS, one whole rule at a time, each judged on   *)
(* the inspection as it is when the status moves.  There are no requests   *)
(* here.  InspectionWorkflow implements this specification when the        *)
(* requests about an inspection do not overlap.                            *)
(***************************************************************************)
EXTENDS Integers, InspectionStateMachine

CONSTANTS Users, PermissionsOf

VARIABLES
  status, inspector, reviewer,
  rounds,        \* how many times the work was submitted
  attestedBy,    \* who submitted it last
  paid           \* the fee has been settled

vars == <<status, inspector, reviewer, rounds, attestedBy, paid>>

Holds(u, action) == TRANSITIONS[action].permission \in PermissionsOf[u]

\* The status moves by the rule of the action, and a user takes it.
Move(action, u) ==
  /\ status \in TRANSITIONS[action].from
  /\ status' = TRANSITIONS[action].to
  /\ Holds(u, action)

Init ==
  /\ status = "ASSIGNED"
  /\ inspector \in Users \cup {NoUser}
  /\ reviewer \in Users \cup {NoUser}
  /\ rounds = 0
  /\ attestedBy = NoUser
  /\ paid = FALSE

Pay ==
  /\ paid' = TRUE
  /\ UNCHANGED <<status, inspector, reviewer, rounds, attestedBy>>

\* The work changes hands only before a submission, never during a review.
Assign ==
  /\ \E u \in Users :
       Move("ASSIGN", u) \/ Move("REASSIGN", u)
  /\ inspector' \in {u \in Users : Holds(u, "SUBMIT")}
  /\ reviewer' \in Users \cup {NoUser}
  /\ UNCHANGED <<rounds, attestedBy, paid>>

Start ==
  /\ paid
  /\ inspector # NoUser
  /\ Move("START", inspector)
  /\ UNCHANGED <<inspector, reviewer, rounds, attestedBy, paid>>

\* The assigned inspector submits, and attests to, what was recorded.
Submit ==
  /\ inspector # NoUser
  /\ Move("SUBMIT", inspector) \/ Move("RESUBMIT", inspector)
  /\ rounds' = rounds + 1
  /\ attestedBy' = inspector
  /\ UNCHANGED <<inspector, reviewer, paid>>

\* Anyone entitled to decide does, but never the one who did the work.
Decide ==
  /\ \E u \in Users \ {inspector, attestedBy} :
       /\ \E action \in {"BEGIN_REVIEW", "APPROVE", "REJECT",
                         "REQUEST_CORRECTION"} :
            /\ Move(action, u)
            /\ action = "APPROVE" => reviewer = u
       /\ reviewer' = u
  /\ UNCHANGED <<inspector, rounds, attestedBy, paid>>

Report ==
  /\ \E u \in Users : Move("GENERATE_REPORT", u)
  /\ UNCHANGED <<inspector, reviewer, rounds, attestedBy, paid>>

Next == Pay \/ Assign \/ Start \/ Submit \/ Decide \/ Report

Spec == Init /\ [][Next]_vars

=============================================================================
