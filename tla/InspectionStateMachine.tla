----------------------- MODULE InspectionStateMachine -----------------------
(***************************************************************************)
(* The inspection lifecycle as data: the table of transitions and the one  *)
(* question every handler asks of it, "may this user take this action      *)
(* now?".  The table is a record of rules indexed by action, as TRANSITIONS *)
(* is in inspection-state-machine.ts; the question is Permits.  The codes   *)
(* and wording of a refusal are left out: a refused request changes        *)
(* nothing.                                                                *)
(***************************************************************************)

CONSTANT NoUser      \* the null of a user column

Statuses ==
  {"ASSIGNED", "IN_PROGRESS", "SUBMITTED", "UNDER_REVIEW",
   "CORRECTION_REQUESTED", "RESUBMITTED", "APPROVED", "REJECTED",
   "REPORT_GENERATED", "ARCHIVED"}

Permissions ==
  {"inspections.assign", "inspections.write", "reviews.decide",
   "reports.generate", "inspections.archive"}

\* A rule with none of the four optional requirements.
PlainRule(from, to, permission) ==
  [from |-> from, to |-> to, permission |-> permission,
   assigneeOnly |-> FALSE, forbidSelfReview |-> FALSE,
   requiresReason |-> FALSE, requiresSettledFee |-> FALSE]

REVIEW_QUEUE_STATUSES == {"SUBMITTED", "RESUBMITTED", "UNDER_REVIEW"}

EDITABLE_STATUSES == {"IN_PROGRESS", "CORRECTION_REQUESTED"}

TRANSITIONS ==
  [ASSIGN |-> PlainRule({"ASSIGNED"}, "ASSIGNED", "inspections.assign"),
   REASSIGN |->
     [PlainRule({"ASSIGNED", "IN_PROGRESS", "CORRECTION_REQUESTED"},
                "ASSIGNED", "inspections.assign")
      EXCEPT !.requiresReason = TRUE],
   START |->
     [PlainRule({"ASSIGNED"}, "IN_PROGRESS", "inspections.write")
      EXCEPT !.assigneeOnly = TRUE, !.requiresSettledFee = TRUE],
   SUBMIT |->
     [PlainRule({"IN_PROGRESS"}, "SUBMITTED", "inspections.write")
      EXCEPT !.assigneeOnly = TRUE],
   BEGIN_REVIEW |->
     [PlainRule({"SUBMITTED", "RESUBMITTED"}, "UNDER_REVIEW", "reviews.decide")
      EXCEPT !.forbidSelfReview = TRUE],
   APPROVE |->
     [PlainRule(REVIEW_QUEUE_STATUSES, "APPROVED", "reviews.decide")
      EXCEPT !.forbidSelfReview = TRUE],
   REJECT |->
     [PlainRule(REVIEW_QUEUE_STATUSES, "REJECTED", "reviews.decide")
      EXCEPT !.forbidSelfReview = TRUE, !.requiresReason = TRUE],
   REQUEST_CORRECTION |->
     [PlainRule(REVIEW_QUEUE_STATUSES, "CORRECTION_REQUESTED", "reviews.decide")
      EXCEPT !.forbidSelfReview = TRUE, !.requiresReason = TRUE],
   RESUBMIT |->
     [PlainRule({"CORRECTION_REQUESTED"}, "RESUBMITTED", "inspections.write")
      EXCEPT !.assigneeOnly = TRUE],
   GENERATE_REPORT |->
     PlainRule({"APPROVED", "REPORT_GENERATED"}, "REPORT_GENERATED",
               "reports.generate"),
   ARCHIVE |->
     PlainRule({"REPORT_GENERATED", "REJECTED"}, "ARCHIVED",
               "inspections.archive")]

\* Mutants of Permits: a fee gate that fails open; no look at the status.
PermitsUnlessFeeFailed(ctx) ==
  LET rule == TRANSITIONS[ctx.action]
  IN  /\ ctx.currentStatus \in rule.from
      /\ rule.permission \in ctx.permissions
      /\ rule.assigneeOnly => ctx.inspectorId = ctx.userId
      /\ rule.forbidSelfReview => ctx.submittedById # ctx.userId
      /\ rule.requiresReason => ctx.reason
      /\ rule.requiresSettledFee => ctx.feeStatus # "FAILED"

PermitsInAnyStatus(ctx) ==
  LET rule == TRANSITIONS[ctx.action]
  IN  /\ rule.permission \in ctx.permissions
      /\ rule.assigneeOnly => ctx.inspectorId = ctx.userId
      /\ rule.forbidSelfReview => ctx.submittedById # ctx.userId
      /\ rule.requiresReason => ctx.reason
      /\ rule.requiresSettledFee => ctx.feeStatus = "SUCCESSFUL"

(***************************************************************************)
(* A context names the action, the inspection as the handler read it and   *)
(* the caller: [action, currentStatus, userId, permissions, inspectorId,   *)
(* submittedById, reason, feeStatus].  The reason is abstracted to whether *)
(* a non-blank one was given.                                              *)
(***************************************************************************)
Permits(ctx) ==
  LET rule == TRANSITIONS[ctx.action]
  IN  /\ ctx.currentStatus \in rule.from
      /\ rule.permission \in ctx.permissions
      /\ rule.assigneeOnly => ctx.inspectorId = ctx.userId
      /\ rule.forbidSelfReview => ctx.submittedById # ctx.userId
      /\ rule.requiresReason => ctx.reason
      /\ rule.requiresSettledFee => ctx.feeStatus = "SUCCESSFUL"

=============================================================================
