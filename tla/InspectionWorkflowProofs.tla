---------------------- MODULE InspectionWorkflowProofs ----------------------
(***************************************************************************)
(* Theorems about InspectionWorkflow, for any staff, any number of         *)
(* overlapping requests and any bound: its type invariant, and the safety  *)
(* properties that hold however requests interleave.                       *)
(***************************************************************************)
EXTENDS InspectionWorkflow, TLAPS

(***************************************************************************)
(* What a request in flight may rely on, although the inspection has moved *)
(* on since it was read, when it has been submitted count times and its    *)
(* fee has (or has not) been settled: counts only grow, a fee once settled *)
(* was settled, and what was decided about had been submitted.             *)
(***************************************************************************)
InFlight(q, count, settled) ==
  /\ q.seen.submissionCount <= count
  /\ q.op = "start" /\ q.step = "ready" => settled
  /\ q.op = "submit" => settled
  /\ q.op = "submit" /\ q.step = "ready" => q.content \in Complete
  /\ q.op \in Decisions \cup {"generateReport"} => settled /\ 1 <= count
  /\ q.op = "requestCorrection" => 1 <= q.seen.submissionCount

RequestsInFlight ==
  \A r \in Requests : InFlight(requests[r], insp.submissionCount, everSettled)

\* ReviewedWorkWasSubmitted, told by the count instead of by the snapshots.
Submitted ==
  /\ insp.status \notin {"ASSIGNED", "IN_PROGRESS"} =>
       1 <= insp.submissionCount
  /\ \A n \in openCorrections : 1 <= n /\ n <= insp.submissionCount

FeeHistory == feeStatus = "SUCCESSFUL" => everSettled

\* What the database itself keeps.
Ledger ==
  /\ SubmissionsAreSnapshotted
  /\ FieldworkIsPaidFor
  /\ Submitted
  /\ FeeHistory

IInv == TypeOK /\ Ledger /\ RequestsInFlight

-----------------------------------------------------------------------------
(* Types *)

\* An empty slot is well typed.
LEMMA IdleIsRequest == Idle \in Request
BY WorkflowAssumption
DEF Idle, NothingSeen, Request, SeenRow, People, Statuses, Steps

\* What a handler reads of the row is well typed.
LEMMA SeenIsTyped == TypeOK => Seen \in SeenRow /\ NothingSeen \in SeenRow
BY DEF TypeOK, Row, Seen, SeenRow, NothingSeen, People, Statuses

\* Base versions are versions.
LEMMA BasesAreTyped == TypeOK => FreshBases \subseteq Nat
BY DEF TypeOK, Row, FreshBases

\* A request that arrives is well typed.
LEMMA NewRequestIsTyped ==
  ASSUME NEW op \in AllOperations, NEW u \in Users, NEW seen \in SeenRow,
         NEW base \in Nat, NEW step \in Steps
  PROVE  NewRequest(op, u, seen, base, step) \in Request
BY IdleIsRequest DEF NewRequest, Idle, Request, People

\* Receiving a well-typed request disturbs no type.
LEMMA ReceiveKeepsTypes ==
  ASSUME TypeOK, NEW r \in Requests, NEW q \in Request, Receive(r, q)
  PROVE  TypeOK'
BY DEF TypeOK, Receive, data, fees

\* Every read that begins a request leaves a well-typed request in its slot.
LEMMA ArriveKeepsTypes ==
  ASSUME TypeOK, NEW r \in Requests, Arrive(r)
  PROVE  TypeOK'
<1> USE SeenIsTyped, BasesAreTyped
<1>1. PICK u \in Users :
        \/ \E target \in Users, reviewer \in People :
             AssignRead(r, u, target, reviewer)
        \/ StartRead(r, u)
        \/ SaveContentRead(r, u)
        \/ CaptureLocationRead(r, u)
        \/ UploadPhotoRead(r, u)
        \/ RemovePhotoRead(r, u)
        \/ SyncPushRead(r, u)
        \/ AdminSaveRead(r, u)
        \/ SubmitRead(r, u)
        \/ BeginReviewRead(r, u)
        \/ ApproveRead(r, u)
        \/ RejectRead(r, u)
        \/ RequestCorrectionRead(r, u)
        \/ GenerateRead(r, u)
        \/ \E op \in ReviewEdits :
             \/ ReviewEditRead(r, u, op)
             \/ ClaimedEditRead(r, u, op)
             \/ MapEditRead(r, u, op)
  BY DEF Arrive
<1>2. SUFFICES \E q \in Request : Receive(r, q)
  BY ReceiveKeepsTypes
<1>3. CASE \E target \in Users, reviewer \in People :
             AssignRead(r, u, target, reviewer)
  <2>1. PICK target \in Users, reviewer \in People :
          AssignRead(r, u, target, reviewer)
    BY <1>3
  <2> DEFINE q == [NewRequest("assign", u, Seen, 0, "ready")
                   EXCEPT !.target = target, !.reviewer = reviewer]
  <2>2. NewRequest("assign", u, Seen, 0, "ready") \in Request
    BY NewRequestIsTyped DEF AllOperations, Steps
  <2>3. q \in Request
    BY <2>2 DEF Request, People
  <2>4. QED
    BY <2>1, <2>3 DEF AssignRead
<1>4. CASE StartRead(r, u)
  BY <1>4, NewRequestIsTyped DEF StartRead, AllOperations, Steps
<1>5. CASE SaveContentRead(r, u)
  BY <1>5, NewRequestIsTyped
  DEF SaveContentRead, AllOperations, ContentOperations, Steps
<1>6. CASE CaptureLocationRead(r, u)
  BY <1>6, NewRequestIsTyped
  DEF CaptureLocationRead, AllOperations, ContentOperations, Steps
<1>7. CASE UploadPhotoRead(r, u)
  BY <1>7, NewRequestIsTyped
  DEF UploadPhotoRead, AllOperations, ContentOperations, Steps
<1>8. CASE RemovePhotoRead(r, u)
  BY <1>8, NewRequestIsTyped
  DEF RemovePhotoRead, AllOperations, ContentOperations, Steps
<1>9. CASE SyncPushRead(r, u)
  BY <1>9, NewRequestIsTyped
  DEF SyncPushRead, AllOperations, ContentOperations, Steps
<1>10. CASE AdminSaveRead(r, u)
  BY <1>10, NewRequestIsTyped DEF AdminSaveRead, AllOperations, Steps
<1>11. CASE SubmitRead(r, u)
  BY <1>11, NewRequestIsTyped DEF SubmitRead, AllOperations, Steps
<1>12. ASSUME NEW op \in Decisions, NEW base \in Nat,
              DecideRead(r, u, op, base)
       PROVE  \E q \in Request : Receive(r, q)
  BY <1>12, NewRequestIsTyped DEF DecideRead, AllOperations, Steps
<1>13. CASE BeginReviewRead(r, u)
  BY <1>12, <1>13 DEF BeginReviewRead, Decisions
<1>14. CASE ApproveRead(r, u)
  BY <1>12, <1>14 DEF ApproveRead, Decisions
<1>15. CASE RejectRead(r, u)
  BY <1>12, <1>15 DEF RejectRead, Decisions
<1>16. CASE RequestCorrectionRead(r, u)
  BY <1>12, <1>16 DEF RequestCorrectionRead, Decisions
<1>17. CASE GenerateRead(r, u)
  BY <1>17, NewRequestIsTyped DEF GenerateRead, AllOperations, Steps
<1>18. CASE \E op \in ReviewEdits :
              \/ ReviewEditRead(r, u, op)
              \/ ClaimedEditRead(r, u, op)
              \/ MapEditRead(r, u, op)
  <2>1. PICK op \in ReviewEdits :
          \/ ReviewEditRead(r, u, op)
          \/ ClaimedEditRead(r, u, op)
          \/ MapEditRead(r, u, op)
    BY <1>18
  <2>2. \E step \in {"read", "ready"}, base \in Nat :
          Receive(r, NewRequest(op, u, NothingSeen, base, step))
    BY <2>1 DEF ReviewEditRead, ClaimedEditRead, MapEditRead
  <2>3. QED
    BY <2>2, NewRequestIsTyped DEF AllOperations, Steps
<1>19. QED
  BY <1>1, <1>3, <1>4, <1>5, <1>6, <1>7, <1>8, <1>9, <1>10, <1>11, <1>13,
     <1>14, <1>15, <1>16, <1>17, <1>18

\* A later read of a request leaves its slot well typed and writes nothing.
LEMMA ReadAgainKeepsTypes ==
  ASSUME TypeOK, NEW r \in Requests, ReadAgain(r)
  PROVE  TypeOK'
<1> USE DEF data, fees
<1>1. ASSUME NEW step \in Steps, Proceed(r, step)
      PROVE  TypeOK'
  BY <1>1 DEF TypeOK, Proceed, Request
<1>2. CASE StartReadFee(r)
  BY <1>1, <1>2 DEF StartReadFee, Steps
<1>3. CASE SubmitReadContent(r)
  <2> DEFINE q == [requests[r] EXCEPT !.step = "ready", !.content = content]
  <2>1. requests' = [requests EXCEPT ![r] = q]
    BY <1>3 DEF SubmitReadContent
  <2>2. q \in Request
    BY DEF TypeOK, Request, Steps
  <2>3. QED
    BY <1>3, <2>1, <2>2 DEF SubmitReadContent, TypeOK
<1>4. CASE ApproveReadReview(r)
  BY <1>1, <1>4 DEF ApproveReadReview, Steps
<1>5. CASE ApproveReadRequirements(r)
  BY <1>1, <1>5 DEF ApproveReadRequirements, Steps
<1>6. CASE ApproveThenGenerate(r)
  <2> DEFINE q == [requests[r] EXCEPT !.op = "generateReport",
                                      !.step = "ready", !.seen = Seen]
  <2>1. requests' = [requests EXCEPT ![r] = q]
    BY <1>6 DEF ApproveThenGenerate
  <2>2. q \in Request
    BY SeenIsTyped DEF TypeOK, Request, Steps, AllOperations
  <2>3. QED
    BY <1>6, <2>1, <2>2 DEF ApproveThenGenerate, TypeOK
<1>7. CASE RemoveMapReadImage(r)
  BY <1>1, <1>7 DEF RemoveMapReadImage, Steps
<1>8. QED
  BY <1>2, <1>3, <1>4, <1>5, <1>6, <1>7 DEF ReadAgain

\* Where the rules of the table lead.
LEMMA TransitionsLandOnStatuses ==
  /\ TRANSITIONS.START.to = "IN_PROGRESS"
  /\ TRANSITIONS.SUBMIT.to = "SUBMITTED"
  /\ TRANSITIONS.RESUBMIT.to = "RESUBMITTED"
  /\ TRANSITIONS.BEGIN_REVIEW.to = "UNDER_REVIEW"
  /\ TRANSITIONS.APPROVE.to = "APPROVED"
  /\ TRANSITIONS.REJECT.to = "REJECTED"
  /\ TRANSITIONS.REQUEST_CORRECTION.to = "CORRECTION_REQUESTED"
BY DEF TRANSITIONS, PlainRule

\* The status a submission or a decision leads to.
LEMMA SubmissionsLand ==
  ASSUME NEW row
  PROVE  TRANSITIONS[SubmitAction(row)].to \in {"SUBMITTED", "RESUBMITTED"}
BY TransitionsLandOnStatuses DEF SubmitAction

\* The status each decision leads to.
LEMMA DecisionsLand ==
  ASSUME NEW op \in Decisions
  PROVE  TRANSITIONS[DecisionAction[op]].to \in
           {"UNDER_REVIEW", "APPROVED", "REJECTED", "CORRECTION_REQUESTED"}
BY TransitionsLandOnStatuses DEF Decisions, DecisionAction

\* Emptying a slot keeps the slots well typed.
LEMMA FinishKeepsRequests ==
  ASSUME requests \in [Requests -> Request], NEW r \in Requests, Finish(r)
  PROVE  requests' \in [Requests -> Request]
BY IdleIsRequest DEF Finish

\* Every commit writes well-typed columns.
LEMMA CommitKeepsTypes ==
  ASSUME TypeOK, NEW r \in Requests, Commit(r)
  PROVE  TypeOK'
<1> DEFINE q == requests[r]
<1> USE FinishKeepsRequests DEF data, fees
<1>1. q \in Request /\ insp \in Row
  BY DEF TypeOK
<1>2. ASSUME NEW row \in Row, Update(row)
      PROVE  insp' \in Row
  BY <1>1, <1>2 DEF Update, Row
<1>3. CASE AssignCommit(r)
  <2> DEFINE kept == IF q.reviewer # NoUser THEN q.reviewer ELSE q.seen.reviewer
             row == [insp EXCEPT !.status = "ASSIGNED", !.inspector = q.target,
                                 !.reviewer = kept]
  <2>1. row \in Row
    BY <1>1 DEF Row, Request, SeenRow, Statuses
  <2>2. insp' \in Row
    BY <1>2, <1>3, <2>1 DEF AssignCommit
  <2>3. q.seen.status \in Statuses
    BY <1>1 DEF Request, SeenRow
  <2>4. QED
    BY <1>3, <2>2, <2>3 DEF AssignCommit, TypeOK, LogEvent, Statuses
<1>4. CASE StartCommit(r)
  <2> DEFINE row == [insp EXCEPT !.status = TRANSITIONS.START.to,
                                 !.started = TRUE]
  <2>1. row \in Row
    BY <1>1, TransitionsLandOnStatuses DEF Row, Statuses
  <2>2. insp' \in Row
    BY <1>2, <1>4, <2>1 DEF StartCommit
  <2>3. q.seen.status \in Statuses
    BY <1>1 DEF Request, SeenRow
  <2>4. QED
    BY <1>4, <2>2, <2>3, TransitionsLandOnStatuses
    DEF StartCommit, TypeOK, LogEvent, Statuses
<1>5. CASE ContentCommit(r)
  BY <1>1, <1>2, <1>5 DEF ContentCommit, TypeOK
<1>6. CASE SubmitCommit(r)
  <2> DEFINE round == q.seen.submissionCount + 1
             next == TRANSITIONS[SubmitAction(q.seen)].to
             row == [insp EXCEPT !.status = next, !.submissionCount = round]
  <2>1. next \in Statuses
    BY SubmissionsLand DEF Statuses
  <2>2. round \in Nat /\ q.seen.status \in Statuses /\ q.user \in People
        /\ q.content \in Contents
    BY <1>1 DEF Request, SeenRow
  <2> HIDE DEF next, round
  <2>3. row \in Row
    BY <1>1, <2>1, <2>2 DEF Row
  <2>4. insp' \in Row
    BY <1>2, <1>6, <2>3 DEF SubmitCommit, next, round
  <2>5. snapshots' \in SUBSET [round : Nat, payload : Contents]
    BY <1>6, <2>2 DEF SubmitCommit, TypeOK, round
  <2>6. lastEvent' \in [from : Statuses \cup {"NONE"}, to : Statuses]
    BY <1>6, <2>1, <2>2 DEF SubmitCommit, LogEvent, next
  <2>7. QED
    BY <1>6, <2>2, <2>4, <2>5, <2>6 DEF SubmitCommit, TypeOK, ResolveCorrections
<1>7. CASE DecideCommit(r)
  <2> DEFINE next == TRANSITIONS[DecisionAction[q.op]].to
             row == [insp EXCEPT !.status = next, !.reviewer = q.user,
                                 !.approved = IF q.op = "approve" THEN TRUE
                                              ELSE insp.approved]
  <2>1. next \in Statuses
    BY <1>7, DecisionsLand DEF DecideCommit, Statuses
  <2>2. q.seen.status \in Statuses /\ q.seen.submissionCount \in Nat
        /\ q.user \in People
    BY <1>1 DEF Request, SeenRow
  <2> HIDE DEF next
  <2>3. row \in Row
    BY <1>1, <2>1, <2>2 DEF Row
  <2>4. insp' \in Row
    BY <1>2, <1>7, <2>3 DEF DecideCommit, next
  <2>5. lastEvent' \in [from : Statuses \cup {"NONE"}, to : Statuses]
    BY <1>7, <2>1, <2>2 DEF DecideCommit, LogEvent, next
  <2>6. [Idle EXCEPT !.op = "approve", !.step = "approved", !.user = q.user]
          \in Request
    BY <2>2, IdleIsRequest DEF Request, AllOperations, Decisions, Steps
  <2>7. requests' \in [Requests -> Request]
    BY <1>7, <2>6 DEF DecideCommit, TypeOK
  <2>8. openCorrections' \in SUBSET Nat
    BY <1>7, <2>2 DEF DecideCommit, TypeOK
  <2>9. QED
    BY <1>7, <2>4, <2>5, <2>7, <2>8 DEF DecideCommit, TypeOK
<1>8. CASE GenerateCommit(r)
  <2> DEFINE row == [insp EXCEPT !.status = "REPORT_GENERATED"]
  <2>1. row \in Row /\ q.seen.status \in Statuses
    BY <1>1 DEF Row, Statuses, Request, SeenRow
  <2>2. insp' \in Row
    BY <1>1, <1>2, <1>8, <2>1 DEF GenerateCommit
  <2>3. lastEvent' \in [from : Statuses \cup {"NONE"}, to : Statuses]
    BY <1>8, <2>1 DEF GenerateCommit, LogEvent, TypeOK, Statuses
  <2>4. QED
    BY <1>8, <2>2, <2>3 DEF GenerateCommit, TypeOK
<1>9. CASE ReviewEditCommit(r)
  <2>1. workspace' \in SUBSET ReviewParts
    BY <1>9 DEF ReviewEditCommit, TypeOK, Edited, ReviewParts, ReviewEdits,
                UnclaimedReviewEdits, ClaimedReviewEdits
  <2>2. QED
    BY <1>1, <1>2, <1>9, <2>1 DEF ReviewEditCommit, TypeOK
<1>10. QED
  BY <1>3, <1>4, <1>5, <1>6, <1>7, <1>8, <1>9 DEF Commit

\* TypeOK is inductive.
LEMMA StepKeepsTypes == TypeOK /\ [Next]_vars => TypeOK'
<1> SUFFICES ASSUME TypeOK, [Next]_vars
             PROVE  TypeOK'
  OBVIOUS
<1>1. ASSUME NEW r \in Requests, RequestStep(r)
      PROVE  TypeOK'
  <2>1. CASE Abandon(r)
    BY <2>1, FinishKeepsRequests DEF Abandon, TypeOK, data, fees
  <2>2. QED
    BY <1>1, <2>1, ArriveKeepsTypes, ReadAgainKeepsTypes, CommitKeepsTypes
    DEF RequestStep
<1>2. CASE PaymentsServiceWrites
  BY <1>2 DEF PaymentsServiceWrites, TypeOK, data
<1>3. CASE UNCHANGED vars
  BY <1>3 DEF TypeOK, vars
<1>4. QED
  BY <1>1, <1>2, <1>3 DEF Next

\* TypeOK holds of an inspection as create leaves it.
LEMMA InitTypes == Init => TypeOK
<1> SUFFICES ASSUME Init
             PROVE  TypeOK
  OBVIOUS
<1>1. Inspectors \cup {NoUser} \subseteq People
  BY DEF Inspectors, People
<1>2. insp \in Row
  <2> DEFINE Chosen == Inspectors \cup {NoUser}
  <2>1. insp \in [status : {"ASSIGNED"}, inspector : Chosen,
                  reviewer : People, version : {1}, submissionCount : {0},
                  started : {FALSE}, approved : {FALSE}]
    BY DEF Init
  <2>2. Chosen \subseteq People
    BY <1>1
  <2> HIDE DEF Chosen
  <2>3. PICK i \in Chosen, v \in People :
          insp = [status |-> "ASSIGNED", inspector |-> i, reviewer |-> v,
                  version |-> 1, submissionCount |-> 0, started |-> FALSE,
                  approved |-> FALSE]
    BY <2>1
  <2>4. QED
    BY <2>2, <2>3 DEF Row, Statuses
<1>3. QED
  BY <1>2, WorkflowAssumption, IdleIsRequest
  DEF Init, TypeOK, People, Statuses

(***************************************************************************)
(* Every column and every request slot keeps its type, whatever a handler  *)
(* does with rows that have changed since it read them.                    *)
(***************************************************************************)
THEOREM TypeCorrect == Spec => []TypeOK
BY InitTypes, StepKeepsTypes, PTL DEF Spec

-----------------------------------------------------------------------------
(* What a request may rely on *)

\* An empty slot relies on nothing.
LEMMA IdleRequestIsInFlight ==
  ASSUME NEW n \in Nat, NEW b \in BOOLEAN
  PROVE  InFlight(Idle, n, b)
BY DEF InFlight, Idle, NothingSeen, Decisions

\* The database moves on, and what a request relies on still holds.
LEMMA InFlightIsStable ==
  ASSUME NEW q \in Request, NEW m \in Nat, NEW n \in Nat, m <= n,
         NEW a \in BOOLEAN, NEW b \in BOOLEAN, a => b,
         InFlight(q, m, a)
  PROVE  InFlight(q, n, b)
BY DEF InFlight, Request, SeenRow

\* A step of one request keeps what the others rely on.
LEMMA OthersStayInFlight ==
  ASSUME IInv, TypeOK', NEW r \in Requests,
         insp.submissionCount <= insp'.submissionCount,
         everSettled => everSettled',
         \A x \in Requests \ {r} : requests'[x] = requests[x],
         InFlight(requests'[r], insp'.submissionCount, everSettled')
  PROVE  RequestsInFlight'
<1>1. /\ insp.submissionCount \in Nat /\ insp'.submissionCount \in Nat
      /\ everSettled \in BOOLEAN /\ everSettled' \in BOOLEAN
      /\ \A x \in Requests : requests[x] \in Request
  BY DEF IInv, TypeOK, Row
<1>2. ASSUME NEW x \in Requests \ {r}
      PROVE  InFlight(requests'[x], insp'.submissionCount, everSettled')
  <2>1. InFlight(requests[x], insp.submissionCount, everSettled)
    BY DEF IInv, RequestsInFlight
  <2>2. QED
    BY <1>1, <2>1, InFlightIsStable
<1>3. QED
  BY <1>2 DEF RequestsInFlight

\* A step that ends a request leaves nothing in flight in its slot.
LEMMA FinishKeepsInFlight ==
  ASSUME IInv, TypeOK', NEW r \in Requests,
         insp.submissionCount <= insp'.submissionCount,
         everSettled => everSettled',
         Finish(r)
  PROVE  RequestsInFlight'
<1>1. /\ requests'[r] = Idle
      /\ \A x \in Requests \ {r} : requests'[x] = requests[x]
  BY DEF Finish, IInv, TypeOK
<1>2. InFlight(Idle, insp'.submissionCount, everSettled')
  BY IdleRequestIsInFlight DEF TypeOK, Row
<1>3. QED
  BY <1>1, <1>2, OthersStayInFlight

\* A read: the database is as it was, and the slot holds a new request.
LEMMA ReadKeepsIInv ==
  ASSUME IInv, TypeOK', NEW r \in Requests, NEW q \in Request,
         requests' = [requests EXCEPT ![r] = q],
         UNCHANGED <<data, fees>>,
         InFlight(q, insp.submissionCount, everSettled)
  PROVE  IInv'
<1>1. /\ requests'[r] = q
      /\ \A x \in Requests \ {r} : requests'[x] = requests[x]
  BY DEF IInv, TypeOK
<1>2. insp.submissionCount \in Nat
  BY DEF IInv, TypeOK, Row
<1>3. RequestsInFlight'
  BY <1>1, <1>2, OthersStayInFlight DEF data, fees
<1>4. Ledger'
  BY DEF IInv, Ledger, SubmissionsAreSnapshotted, FieldworkIsPaidFor, Submitted,
         FeeHistory, Rounds, data, fees
<1>5. QED
  BY <1>3, <1>4 DEF IInv

\* The fields of a request that arrives.
LEMMA NewRequestFields ==
  ASSUME NEW op, NEW u, NEW seen, NEW base, NEW step
  PROVE  /\ NewRequest(op, u, seen, base, step).op = op
         /\ NewRequest(op, u, seen, base, step).step = step
         /\ NewRequest(op, u, seen, base, step).seen = seen
BY DEF NewRequest, Idle

\* Where the rules of the table start.
LEMMA TransitionsStartFrom ==
  /\ TRANSITIONS.START.requiresSettledFee
  /\ TRANSITIONS.SUBMIT.from = {"IN_PROGRESS"}
  /\ TRANSITIONS.RESUBMIT.from = {"CORRECTION_REQUESTED"}
  /\ TRANSITIONS.BEGIN_REVIEW.from = {"SUBMITTED", "RESUBMITTED"}
  /\ TRANSITIONS.APPROVE.from = {"SUBMITTED", "RESUBMITTED", "UNDER_REVIEW"}
  /\ TRANSITIONS.REJECT.from = {"SUBMITTED", "RESUBMITTED", "UNDER_REVIEW"}
  /\ TRANSITIONS.REQUEST_CORRECTION.from =
       {"SUBMITTED", "RESUBMITTED", "UNDER_REVIEW"}
  /\ TRANSITIONS.GENERATE_REPORT.from = {"APPROVED", "REPORT_GENERATED"}
BY DEF TRANSITIONS, PlainRule, REVIEW_QUEUE_STATUSES

\* A permitted action starts from a status of its rule.
LEMMA PermitsNeedsStatus ==
  ASSUME NEW action, NEW u, NEW row, NEW by, NEW reason, NEW fee,
         Permits(Context(action, u, row, by, reason, fee))
  PROVE  row.status \in TRANSITIONS[action].from
BY DEF Permits, Context

\* A permitted decision was taken on work in the review queue.
LEMMA DecisionsNeedTheQueue ==
  ASSUME NEW op \in Decisions, NEW u, NEW reason,
         Permits(DecisionContext(op, u, reason))
  PROVE  insp.status \in REVIEW_QUEUE_STATUSES
<1>1. insp.status \in TRANSITIONS[DecisionAction[op]].from
  BY PermitsNeedsStatus DEF DecisionContext
<1>2. QED
  BY <1>1, TransitionsStartFrom
  DEF Decisions, DecisionAction, REVIEW_QUEUE_STATUSES

\* A request of the content or of the review relies on nothing but its count.
LEMMA EditsAreInFlight ==
  ASSUME NEW op \in ContentOperations \cup ReviewEdits \cup {"adminSave"},
         NEW u, NEW base, NEW step, NEW n \in Nat, NEW b \in BOOLEAN
  PROVE  InFlight(NewRequest(op, u, NothingSeen, base, step), n, b)
BY NewRequestFields
DEF InFlight, NothingSeen, ContentOperations, ReviewEdits, Decisions,
    UnclaimedReviewEdits, ClaimedReviewEdits

\* The first read of every handler.
LEMMA ArriveKeepsIInv ==
  ASSUME IInv, NEW r \in Requests, Arrive(r)
  PROVE  IInv'
<1> USE SeenIsTyped, BasesAreTyped
<1>1. /\ TypeOK /\ TypeOK' /\ FieldworkIsPaidFor /\ Submitted
      /\ insp.submissionCount \in Nat /\ everSettled \in BOOLEAN
  BY ArriveKeepsTypes DEF IInv, Ledger, TypeOK, Row
<1>2. ASSUME NEW q \in Request, Receive(r, q),
             InFlight(q, insp.submissionCount, everSettled)
      PROVE  IInv'
  BY <1>1, <1>2, ReadKeepsIInv DEF Receive
<1>3. ASSUME NEW op \in AllOperations, NEW u \in Users, NEW seen \in SeenRow,
             NEW base \in Nat, NEW step \in Steps,
             Receive(r, NewRequest(op, u, seen, base, step)),
             InFlight(NewRequest(op, u, seen, base, step),
                      insp.submissionCount, everSettled)
      PROVE  IInv'
  BY <1>2, <1>3, NewRequestIsTyped
<1>4. ASSUME NEW op \in ContentOperations \cup ReviewEdits \cup {"adminSave"},
             NEW u \in Users, NEW base \in Nat, NEW step \in {"read", "ready"},
             Receive(r, NewRequest(op, u, NothingSeen, base, step))
      PROVE  IInv'
  BY <1>1, <1>3, <1>4, EditsAreInFlight DEF AllOperations, Steps
<1>5. Seen.submissionCount = insp.submissionCount
  BY DEF Seen
<1>6. PICK u \in Users :
        \/ \E target \in Users, reviewer \in People :
             AssignRead(r, u, target, reviewer)
        \/ StartRead(r, u)
        \/ SaveContentRead(r, u)
        \/ CaptureLocationRead(r, u)
        \/ UploadPhotoRead(r, u)
        \/ RemovePhotoRead(r, u)
        \/ SyncPushRead(r, u)
        \/ AdminSaveRead(r, u)
        \/ SubmitRead(r, u)
        \/ BeginReviewRead(r, u)
        \/ ApproveRead(r, u)
        \/ RejectRead(r, u)
        \/ RequestCorrectionRead(r, u)
        \/ GenerateRead(r, u)
        \/ \E op \in ReviewEdits :
             \/ ReviewEditRead(r, u, op)
             \/ ClaimedEditRead(r, u, op)
             \/ MapEditRead(r, u, op)
  BY DEF Arrive
<1>7. CASE \E target \in Users, reviewer \in People :
             AssignRead(r, u, target, reviewer)
  <2>1. PICK target \in Users, reviewer \in People :
          AssignRead(r, u, target, reviewer)
    BY <1>7
  <2> DEFINE n == NewRequest("assign", u, Seen, 0, "ready")
             q == [n EXCEPT !.target = target, !.reviewer = reviewer]
  <2>2. n \in Request /\ n.op = "assign" /\ n.seen = Seen
    BY <1>1, NewRequestIsTyped, NewRequestFields DEF AllOperations, Steps
  <2>3. Receive(r, q)
    BY <2>1 DEF AssignRead
  <2> HIDE DEF n
  <2>4. q \in Request /\ q.op = "assign" /\ q.seen = Seen
    BY <2>2 DEF Request, People
  <2> HIDE DEF q
  <2>5. InFlight(q, insp.submissionCount, everSettled)
    BY <1>1, <1>5, <2>4 DEF InFlight, Decisions
  <2>6. QED
    BY <1>2, <2>3, <2>4, <2>5
<1>8. CASE StartRead(r, u)
  <2>1. InFlight(NewRequest("start", u, Seen, 0, "read"),
                 insp.submissionCount, everSettled)
    BY <1>1, <1>5, NewRequestFields DEF InFlight, Decisions
  <2>2. QED
    BY <1>1, <1>3, <1>8, <2>1 DEF StartRead, AllOperations, Steps
<1>9. CASE SubmitRead(r, u)
  <2>1. insp.status \in {"IN_PROGRESS", "CORRECTION_REQUESTED"}
    BY <1>9, PermitsNeedsStatus, TransitionsStartFrom
    DEF SubmitRead, SubmitAction
  <2>2. everSettled
    BY <1>1, <2>1 DEF FieldworkIsPaidFor
  <2>3. InFlight(NewRequest("submit", u, Seen, 0, "read"),
                 insp.submissionCount, everSettled)
    BY <1>1, <1>5, <2>2, NewRequestFields DEF InFlight, Decisions
  <2>4. QED
    BY <1>1, <1>3, <1>9, <2>3 DEF SubmitRead, AllOperations, Steps
<1>10. ASSUME NEW op \in Decisions, NEW base \in Nat,
              DecideRead(r, u, op, base)
       PROVE  IInv'
  <2> DEFINE step == IF op = "approve" THEN "read" ELSE "ready"
  <2>1. insp.status \in REVIEW_QUEUE_STATUSES
    BY <1>10, DecisionsNeedTheQueue DEF DecideRead
  <2>2. everSettled /\ 1 <= insp.submissionCount
    BY <1>1, <2>1 DEF REVIEW_QUEUE_STATUSES, FieldworkIsPaidFor, Submitted
  <2>3. InFlight(NewRequest(op, u, Seen, base, step),
                 insp.submissionCount, everSettled)
    BY <1>1, <1>5, <2>2, NewRequestFields DEF InFlight, Decisions
  <2>4. step \in Steps /\ op \in AllOperations
    BY DEF Steps, AllOperations
  <2>5. Receive(r, NewRequest(op, u, Seen, base, step))
    BY <1>10 DEF DecideRead
  <2> HIDE DEF step
  <2>6. QED
    BY <1>1, <1>3, <2>3, <2>4, <2>5
<1>11. CASE \/ BeginReviewRead(r, u) \/ ApproveRead(r, u)
            \/ RejectRead(r, u) \/ RequestCorrectionRead(r, u)
  BY <1>1, <1>10, <1>11
  DEF BeginReviewRead, ApproveRead, RejectRead, RequestCorrectionRead, Decisions
<1>12. CASE GenerateRead(r, u)
  <2>1. insp.status \in {"APPROVED", "REPORT_GENERATED"}
    BY <1>12, PermitsNeedsStatus, TransitionsStartFrom
    DEF GenerateRead, MayGenerate
  <2>2. everSettled /\ 1 <= insp.submissionCount
    BY <1>1, <2>1 DEF FieldworkIsPaidFor, Submitted
  <2>3. InFlight(NewRequest("generateReport", u, Seen, 0, "ready"),
                 insp.submissionCount, everSettled)
    BY <1>1, <1>5, <2>2, NewRequestFields DEF InFlight, Decisions
  <2>4. QED
    BY <1>1, <1>3, <1>12, <2>3 DEF GenerateRead, AllOperations, Steps
<1>13. CASE \/ SaveContentRead(r, u) \/ CaptureLocationRead(r, u)
            \/ UploadPhotoRead(r, u) \/ RemovePhotoRead(r, u)
            \/ SyncPushRead(r, u) \/ AdminSaveRead(r, u)
  BY <1>1, <1>4, <1>13
  DEF SaveContentRead, CaptureLocationRead, UploadPhotoRead, RemovePhotoRead,
      SyncPushRead, AdminSaveRead, ContentOperations
<1>14. CASE \E op \in ReviewEdits :
              \/ ReviewEditRead(r, u, op)
              \/ ClaimedEditRead(r, u, op)
              \/ MapEditRead(r, u, op)
  BY <1>1, <1>4, <1>14 DEF ReviewEditRead, ClaimedEditRead, MapEditRead
<1>15. QED
  BY <1>6, <1>7, <1>8, <1>9, <1>11, <1>12, <1>13, <1>14

\* The later reads of a handler.
LEMMA ReadAgainKeepsIInv ==
  ASSUME IInv, NEW r \in Requests, ReadAgain(r)
  PROVE  IInv'
<1> DEFINE q == requests[r]
           n == insp.submissionCount
<1>1. /\ TypeOK /\ TypeOK' /\ q \in Request /\ n \in Nat
      /\ everSettled \in BOOLEAN
      /\ InFlight(q, n, everSettled)
  BY ReadAgainKeepsTypes DEF IInv, TypeOK, Row, RequestsInFlight
<1>2. ASSUME NEW next \in Request,
             requests' = [requests EXCEPT ![r] = next],
             UNCHANGED <<data, fees>>,
             InFlight(next, n, everSettled)
      PROVE  IInv'
  BY <1>1, <1>2, ReadKeepsIInv
<1>3. ASSUME NEW step \in {"checked", "ready"}, Proceed(r, step),
             InFlight([q EXCEPT !.step = step], n, everSettled)
      PROVE  IInv'
  <2> DEFINE next == [q EXCEPT !.step = step]
  <2>1. next \in Request
    BY <1>1 DEF Request, Steps
  <2>2. requests' = [requests EXCEPT ![r] = next]
    BY <1>3 DEF Proceed
  <2>3. QED
    BY <1>2, <1>3, <2>1, <2>2 DEF Proceed
<1>4. CASE StartReadFee(r)
  <2>1. feeStatus = "SUCCESSFUL"
    BY <1>4, TransitionsStartFrom DEF StartReadFee, Permits, Context
  <2>2. everSettled
    BY <2>1 DEF IInv, Ledger, FeeHistory
  <2>3. InFlight([q EXCEPT !.step = "ready"], n, everSettled)
    BY <1>1, <1>4, <2>2 DEF StartReadFee, At, InFlight, Request, Decisions
  <2>4. QED
    BY <1>3, <1>4, <2>3 DEF StartReadFee
<1>5. CASE SubmitReadContent(r)
  <2> DEFINE next == [q EXCEPT !.step = "ready", !.content = content]
  <2>1. next \in Request
    BY <1>1 DEF TypeOK, Request, Steps
  <2>2. requests' = [requests EXCEPT ![r] = next]
    BY <1>5 DEF SubmitReadContent
  <2>3. InFlight(next, n, everSettled)
    BY <1>1, <1>5 DEF SubmitReadContent, At, InFlight, Request, Decisions
  <2>4. QED
    BY <1>2, <1>5, <2>1, <2>2, <2>3 DEF SubmitReadContent
<1>6. CASE ApproveReadReview(r)
  <2>1. InFlight([q EXCEPT !.step = "checked"], n, everSettled)
    BY <1>1, <1>6 DEF ApproveReadReview, At, InFlight, Request, Decisions
  <2>2. QED
    BY <1>3, <1>6, <2>1 DEF ApproveReadReview
<1>7. CASE ApproveReadRequirements(r)
  <2>1. InFlight([q EXCEPT !.step = "ready"], n, everSettled)
    BY <1>1, <1>7 DEF ApproveReadRequirements, At, InFlight, Request, Decisions
  <2>2. QED
    BY <1>3, <1>7, <2>1 DEF ApproveReadRequirements
<1>8. CASE ApproveThenGenerate(r)
  <2> DEFINE next == [q EXCEPT !.op = "generateReport", !.step = "ready",
                               !.seen = Seen]
  <2>1. next \in Request
    BY <1>1, SeenIsTyped DEF Request, Steps, AllOperations
  <2>2. requests' = [requests EXCEPT ![r] = next]
    BY <1>8 DEF ApproveThenGenerate
  <2>3. InFlight(next, n, everSettled)
    BY <1>1, <1>8
    DEF ApproveThenGenerate, At, InFlight, Request, Decisions, Seen
  <2>4. QED
    BY <1>2, <1>8, <2>1, <2>2, <2>3 DEF ApproveThenGenerate
<1>9. CASE RemoveMapReadImage(r)
  <2>1. InFlight([q EXCEPT !.step = "ready"], n, everSettled)
    BY <1>1, <1>9 DEF RemoveMapReadImage, At, InFlight, Request, Decisions
  <2>2. QED
    BY <1>3, <1>9, <2>1 DEF RemoveMapReadImage
<1>10. QED
  BY <1>4, <1>5, <1>6, <1>7, <1>8, <1>9 DEF ReadAgain

-----------------------------------------------------------------------------
(* Commits *)

\* A commit that submits nothing, raises no correction and takes no decision.
LEMMA QuietCommitKeepsIInv ==
  ASSUME IInv, TypeOK', NEW r \in Requests, Finish(r), UNCHANGED fees,
         UNCHANGED <<snapshots, openCorrections>>,
         insp'.submissionCount = insp.submissionCount,
         insp'.started # insp.started => everSettled,
         insp'.status # insp.status =>
           \/ insp'.status = "ASSIGNED"
           \/ everSettled /\ insp'.status = "IN_PROGRESS"
           \/ everSettled /\ 1 <= insp.submissionCount
  PROVE  IInv'
<1>1. /\ SubmissionsAreSnapshotted /\ FieldworkIsPaidFor /\ Submitted
      /\ FeeHistory /\ insp.submissionCount \in Nat
      /\ insp.started \in BOOLEAN /\ insp'.started \in BOOLEAN
  BY DEF IInv, Ledger, TypeOK, Row
<1>2. RequestsInFlight'
  BY <1>1, FinishKeepsInFlight DEF fees
<1>3. SubmissionsAreSnapshotted'
  BY <1>1 DEF SubmissionsAreSnapshotted, Rounds
<1>4. FieldworkIsPaidFor'
  BY <1>1 DEF FieldworkIsPaidFor, fees
<1>5. Submitted'
  BY <1>1 DEF Submitted
<1>6. FeeHistory'
  BY <1>1 DEF FeeHistory, fees
<1>7. QED
  BY <1>2, <1>3, <1>4, <1>5, <1>6 DEF IInv, Ledger

\* A submission that commits read the current count, for its round is free.
LEMMA FreeRoundsAreNew ==
  ASSUME SubmissionsAreSnapshotted, insp.submissionCount \in Nat,
         NEW n \in Nat, n <= insp.submissionCount, RoundIsFree(n + 1)
  PROVE  n = insp.submissionCount
BY DEF SubmissionsAreSnapshotted, RoundIsFree

\* The commit of a submission.
LEMMA SubmitCommitKeepsIInv ==
  ASSUME IInv, NEW r \in Requests, SubmitCommit(r)
  PROVE  IInv'
<1> DEFINE q == requests[r]
           n == insp.submissionCount
           round == q.seen.submissionCount + 1
           new == [round |-> round, payload |-> q.content]
<1>1. /\ TypeOK /\ TypeOK' /\ SubmissionsAreSnapshotted
      /\ InFlight(q, n, everSettled)
      /\ q \in Request /\ n \in Nat
  BY CommitKeepsTypes DEF Commit, IInv, Ledger, TypeOK, Row, RequestsInFlight
<1>2. q.seen.submissionCount = n
  BY <1>1, FreeRoundsAreNew DEF SubmitCommit, InFlight, Request, SeenRow
<1>3. q.content \in Complete /\ everSettled
  BY <1>1 DEF SubmitCommit, At, InFlight
<1>4. insp'.submissionCount = n + 1 /\ insp'.started = insp.started
  BY <1>1, <1>2 DEF SubmitCommit, Update, TypeOK, Row
<1>5. snapshots' = snapshots \cup {new} /\ new.round = n + 1
  BY <1>2 DEF SubmitCommit
<1>6. SubmissionsAreSnapshotted'
  <2>1. Rounds' = Rounds \cup {n + 1}
    BY <1>5 DEF Rounds
  <2>2. Rounds = 1..n /\ Rounds' = 1..(n + 1)
    BY <1>1, <2>1 DEF SubmissionsAreSnapshotted
  <2>3. \A s \in snapshots : s.round # n + 1
    BY <1>1, <2>2 DEF Rounds
  <2>4. \A s, t \in snapshots' : s.round = t.round => s = t
    BY <1>1, <1>5, <2>3 DEF SubmissionsAreSnapshotted
  <2>5. \A s \in snapshots' : s.payload \in Complete
    BY <1>1, <1>3, <1>5 DEF SubmissionsAreSnapshotted
  <2>6. QED
    BY <1>4, <2>2, <2>4, <2>5 DEF SubmissionsAreSnapshotted
<1>7. Finish(r) /\ UNCHANGED fees /\ openCorrections' = {}
  BY DEF SubmitCommit, ResolveCorrections
<1>8. RequestsInFlight'
  BY <1>1, <1>4, <1>7, FinishKeepsInFlight DEF fees
<1>9. FieldworkIsPaidFor' /\ FeeHistory'
  BY <1>3, <1>7 DEF FieldworkIsPaidFor, FeeHistory, fees
<1>10. Submitted'
  BY <1>1, <1>4, <1>7 DEF Submitted
<1>11. QED
  BY <1>1, <1>6, <1>8, <1>9, <1>10 DEF IInv, Ledger

\* The commit of a decision.
LEMMA DecideCommitKeepsIInv ==
  ASSUME IInv, NEW r \in Requests, DecideCommit(r)
  PROVE  IInv'
<1> DEFINE q == requests[r]
           n == insp.submissionCount
           approved == [Idle EXCEPT !.op = "approve", !.step = "approved",
                                    !.user = q.user]
<1>1. /\ TypeOK /\ TypeOK' /\ SubmissionsAreSnapshotted /\ Submitted
      /\ FeeHistory
      /\ InFlight(q, n, everSettled)
      /\ q \in Request /\ n \in Nat /\ everSettled \in BOOLEAN
  BY CommitKeepsTypes DEF Commit, IInv, Ledger, TypeOK, Row, RequestsInFlight
<1>2. everSettled /\ 1 <= n
  BY <1>1 DEF DecideCommit, InFlight
<1>3. insp'.submissionCount = n
  BY <1>1 DEF DecideCommit, Update, TypeOK, Row
<1>4. UNCHANGED <<snapshots, fees>>
  BY DEF DecideCommit
<1>5. RequestsInFlight'
  <2>1. CASE q.op = "approve"
    <3>1. approved.op = "approve" /\ approved.step = "approved"
          /\ approved.seen.submissionCount = 0
      BY DEF Idle, NothingSeen
    <3> HIDE DEF approved
    <3>2. InFlight(approved, n, everSettled)
      BY <1>1, <1>2, <3>1 DEF InFlight
    <3>3. /\ requests'[r] = approved
          /\ \A x \in Requests \ {r} : requests'[x] = requests[x]
      BY <1>1, <2>1 DEF DecideCommit, TypeOK, approved
    <3>4. QED
      BY <1>1, <1>3, <1>4, <3>2, <3>3, OthersStayInFlight DEF fees
  <2>2. CASE q.op # "approve"
    BY <1>1, <1>3, <1>4, <2>2, FinishKeepsInFlight DEF DecideCommit, fees
  <2>3. QED
    BY <2>1, <2>2
<1>6. SubmissionsAreSnapshotted'
  BY <1>1, <1>3, <1>4 DEF SubmissionsAreSnapshotted, Rounds
<1>7. FieldworkIsPaidFor' /\ FeeHistory'
  BY <1>2, <1>4 DEF FieldworkIsPaidFor, FeeHistory, fees
<1>8. Submitted'
  <2>1. ASSUME NEW c \in openCorrections'
        PROVE  1 <= c /\ c <= n
    <3>1. CASE c \in openCorrections
      BY <1>1, <3>1 DEF Submitted
    <3>2. CASE q.op = "requestCorrection" /\ c = q.seen.submissionCount
      BY <1>1, <3>2 DEF InFlight
    <3>3. QED
      BY <2>1, <3>1, <3>2 DEF DecideCommit
  <2>2. QED
    BY <1>2, <1>3, <2>1 DEF Submitted
<1>9. QED
  BY <1>1, <1>5, <1>6, <1>7, <1>8 DEF IInv, Ledger

\* Every commit.
LEMMA CommitKeepsIInv ==
  ASSUME IInv, NEW r \in Requests, Commit(r)
  PROVE  IInv'
<1> DEFINE q == requests[r]
<1>1. /\ TypeOK /\ TypeOK' /\ insp \in Row
      /\ InFlight(q, insp.submissionCount, everSettled)
  BY CommitKeepsTypes DEF IInv, TypeOK, RequestsInFlight
<1> USE DEF Update, Row
<1>2. CASE AssignCommit(r)
  <2>1. /\ insp'.status = "ASSIGNED" /\ insp'.started = insp.started
        /\ insp'.submissionCount = insp.submissionCount
    BY <1>1, <1>2 DEF AssignCommit
  <2>2. QED
    BY <1>1, <1>2, <2>1, QuietCommitKeepsIInv DEF AssignCommit, fees
<1>3. CASE StartCommit(r)
  <2>1. everSettled
    BY <1>1, <1>3 DEF StartCommit, At, InFlight
  <2>2. /\ insp'.status = "IN_PROGRESS"
        /\ insp'.submissionCount = insp.submissionCount
    BY <1>1, <1>3, TransitionsLandOnStatuses DEF StartCommit
  <2>3. QED
    BY <1>1, <1>3, <2>1, <2>2, QuietCommitKeepsIInv DEF StartCommit, fees
<1>4. CASE ContentCommit(r)
  <2>1. /\ insp'.status = insp.status /\ insp'.started = insp.started
        /\ insp'.submissionCount = insp.submissionCount
    BY <1>1, <1>4 DEF ContentCommit
  <2>2. QED
    BY <1>1, <1>4, <2>1, QuietCommitKeepsIInv DEF ContentCommit, fees
<1>5. CASE GenerateCommit(r)
  <2>1. everSettled /\ 1 <= insp.submissionCount
    BY <1>1, <1>5 DEF GenerateCommit, At, InFlight
  <2>2. /\ insp'.started = insp.started
        /\ insp'.submissionCount = insp.submissionCount
    BY <1>1, <1>5 DEF GenerateCommit
  <2>3. QED
    BY <1>1, <1>5, <2>1, <2>2, QuietCommitKeepsIInv DEF GenerateCommit, fees
<1>6. CASE ReviewEditCommit(r)
  <2>1. /\ insp'.status = insp.status /\ insp'.started = insp.started
        /\ insp'.submissionCount = insp.submissionCount
    BY <1>1, <1>6 DEF ReviewEditCommit
  <2>2. QED
    BY <1>1, <1>6, <2>1, QuietCommitKeepsIInv DEF ReviewEditCommit, fees
<1>7. QED
  BY <1>2, <1>3, <1>4, <1>5, <1>6, SubmitCommitKeepsIInv, DecideCommitKeepsIInv
  DEF Commit

-----------------------------------------------------------------------------
(* The inductive invariant and what follows from it *)

\* IInv holds of an inspection as create leaves it.
LEMMA InitIInv == Init => IInv
<1> SUFFICES ASSUME Init
             PROVE  IInv
  OBVIOUS
<1>1. TypeOK
  BY InitTypes
<1>2. /\ insp.status = "ASSIGNED" /\ insp.started = FALSE
      /\ insp.submissionCount = 0
  BY DEF Init
<1>3. Rounds = {}
  BY DEF Init, Rounds
<1>4. SubmissionsAreSnapshotted
  BY <1>2, <1>3 DEF SubmissionsAreSnapshotted, Init
<1>5. FieldworkIsPaidFor /\ Submitted /\ FeeHistory
  BY <1>2 DEF FieldworkIsPaidFor, Submitted, FeeHistory, Init
<1>6. RequestsInFlight
  <2>1. \A r \in Requests : requests[r] = Idle
    BY DEF Init
  <2>2. InFlight(Idle, insp.submissionCount, everSettled)
    BY <1>1, IdleRequestIsInFlight DEF TypeOK, Row
  <2>3. QED
    BY <2>1, <2>2 DEF RequestsInFlight
<1>7. QED
  BY <1>1, <1>4, <1>5, <1>6 DEF IInv, Ledger

\* IInv is inductive.
LEMMA StepKeepsIInv == IInv /\ [Next]_vars => IInv'
<1> SUFFICES ASSUME IInv, [Next]_vars
             PROVE  IInv'
  OBVIOUS
<1>1. TypeOK'
  BY StepKeepsTypes DEF IInv
<1>2. ASSUME NEW r \in Requests, Abandon(r)
      PROVE  IInv'
  <2>1. Idle \in Request /\ insp.submissionCount \in Nat
        /\ everSettled \in BOOLEAN
    BY IdleIsRequest DEF IInv, TypeOK, Row
  <2>2. InFlight(Idle, insp.submissionCount, everSettled)
    BY <2>1, IdleRequestIsInFlight
  <2>3. requests' = [requests EXCEPT ![r] = Idle] /\ UNCHANGED <<data, fees>>
    BY <1>2 DEF Abandon, Finish
  <2>4. QED
    BY <1>1, <2>1, <2>2, <2>3, ReadKeepsIInv
<1>3. ASSUME NEW r \in Requests, RequestStep(r)
      PROVE  IInv'
  BY <1>2, <1>3, ArriveKeepsIInv, ReadAgainKeepsIInv, CommitKeepsIInv
  DEF RequestStep
<1>4. CASE PaymentsServiceWrites
  <2>1. /\ UNCHANGED <<data, requests>>
        /\ everSettled => everSettled'
        /\ feeStatus' = "SUCCESSFUL" => everSettled'
    BY <1>4 DEF PaymentsServiceWrites
  <2>2. Ledger'
    BY <2>1
    DEF IInv, Ledger, SubmissionsAreSnapshotted, FieldworkIsPaidFor, Submitted,
        FeeHistory, Rounds, data
  <2>3. ASSUME NEW r \in Requests
        PROVE  InFlight(requests[r], insp.submissionCount, everSettled')
    <3>1. InFlight(requests[r], insp.submissionCount, everSettled)
      BY DEF IInv, RequestsInFlight
    <3>2. QED
      BY <1>1, <2>1, <3>1, InFlightIsStable DEF IInv, TypeOK, Row
  <2>4. RequestsInFlight'
    BY <2>1, <2>3 DEF RequestsInFlight, data
  <2>5. QED
    BY <1>1, <2>2, <2>4 DEF IInv
<1>5. CASE UNCHANGED vars
  BY <1>1, <1>5
  DEF IInv, Ledger, SubmissionsAreSnapshotted, FieldworkIsPaidFor, Submitted,
      FeeHistory, Rounds, RequestsInFlight, vars
<1>6. QED
  BY <1>3, <1>4, <1>5 DEF Next

(***************************************************************************)
(* The inductive invariant: the ledger, and what every request in flight   *)
(* may rely on although the rows it read have changed.                     *)
(***************************************************************************)
THEOREM InductiveInvariant == Spec => []IInv
BY InitIInv, StepKeepsIInv, PTL DEF Spec

(***************************************************************************)
(* Whatever submissions overlap, every round has exactly one snapshot, of  *)
(* content that passed the completeness check (submit, and the unique      *)
(* index on inspection_snapshots).                                         *)
(***************************************************************************)
THEOREM EverySubmissionIsSnapshotted == Spec => []SubmissionsAreSnapshotted
<1>1. IInv => SubmissionsAreSnapshotted
  BY DEF IInv, Ledger
<1>2. QED
  BY <1>1, InductiveInvariant, PTL

(***************************************************************************)
(* No interleaving passes the fee gate of start: work past ASSIGNED was    *)
(* paid for, although the fee may be read long before the start commits.   *)
(***************************************************************************)
THEOREM TheFeeGateHolds == Spec => []FieldworkIsPaidFor
<1>1. IInv => FieldworkIsPaidFor
  BY DEF IInv, Ledger
<1>2. QED
  BY <1>1, InductiveInvariant, PTL

(***************************************************************************)
(* Whatever decisions overlap, nothing is reviewed, decided or reported    *)
(* that was never submitted, and corrections name submitted rounds.        *)
(***************************************************************************)
THEOREM OnlySubmittedWorkIsReviewed == Spec => []ReviewedWorkWasSubmitted
<1>1. IInv => ReviewedWorkWasSubmitted
  <2> SUFFICES ASSUME IInv
               PROVE  ReviewedWorkWasSubmitted
    OBVIOUS
  <2>1. /\ Rounds = 1..insp.submissionCount /\ insp.submissionCount \in Nat
        /\ openCorrections \subseteq Nat /\ Submitted
    BY DEF IInv, Ledger, SubmissionsAreSnapshotted, TypeOK, Row
  <2>2. QED
    BY <2>1 DEF ReviewedWorkWasSubmitted, Submitted
<1>2. QED
  BY <1>1, InductiveInvariant, PTL

-----------------------------------------------------------------------------
(* Reports *)

\* What was approved stays approved, and a report that is under way is one of
\* work that was: this is what a report's commit relies on, whatever status the
\* inspection has by then.
ReportInv ==
  /\ insp.status \in {"APPROVED", "REPORT_GENERATED"} => insp.approved
  /\ insp.approved => everSettled /\ 1 <= insp.submissionCount
  /\ \A r \in Requests :
       requests[r].op = "generateReport" => insp.approved

\* A report may be asked for only of work that was approved.
LEMMA GenerateNeedsApproval ==
  ASSUME ReportInv, NEW u, MayGenerate(u)
  PROVE  insp.approved
<1>1. insp.status \in TRANSITIONS.GENERATE_REPORT.from
  BY PermitsNeedsStatus DEF MayGenerate
<1>2. QED
  BY <1>1, TransitionsStartFrom DEF ReportInv

\* Reads: only those of a report put a report under way.
LEMMA ReadKeepsReportInv ==
  ASSUME IInv, ReportInv, NEW r \in Requests, Arrive(r) \/ ReadAgain(r)
  PROVE  ReportInv'
<1>1. UNCHANGED <<data, fees>>
  BY DEF Arrive, AssignRead, StartRead, SaveContentRead, CaptureLocationRead,
      UploadPhotoRead, RemovePhotoRead, SyncPushRead, AdminSaveRead, SubmitRead,
      BeginReviewRead, ApproveRead, RejectRead, RequestCorrectionRead,
      DecideRead, GenerateRead, ReviewEditRead, ClaimedEditRead, MapEditRead,
      Receive, ReadAgain, StartReadFee, SubmitReadContent, ApproveReadReview,
      ApproveReadRequirements, ApproveThenGenerate, RemoveMapReadImage, Proceed
<1>2. requests \in [Requests -> Request] /\ TypeOK
  BY DEF IInv, TypeOK
<1>3. \A x \in Requests \ {r} : requests'[x] = requests[x]
  BY <1>2
  DEF Arrive, AssignRead, StartRead, SaveContentRead, CaptureLocationRead,
      UploadPhotoRead, RemovePhotoRead, SyncPushRead, AdminSaveRead, SubmitRead,
      BeginReviewRead, ApproveRead, RejectRead, RequestCorrectionRead,
      DecideRead, GenerateRead, ReviewEditRead, ClaimedEditRead, MapEditRead,
      Receive, ReadAgain, StartReadFee, SubmitReadContent, ApproveReadReview,
      ApproveReadRequirements, ApproveThenGenerate, RemoveMapReadImage, Proceed
<1>4. requests'[r].op = "generateReport" => insp.approved
  <2>1. CASE Arrive(r)
    <3>1. CASE \E u \in Users : GenerateRead(r, u)
      BY <3>1, GenerateNeedsApproval DEF GenerateRead
    <3>2. CASE ~ \E u \in Users : GenerateRead(r, u)
      <4>1. ASSUME NEW op, NEW u, NEW seen, NEW base, NEW step,
                   op # "generateReport",
                   Receive(r, NewRequest(op, u, seen, base, step))
            PROVE  requests'[r].op # "generateReport"
        BY <1>2, <4>1, NewRequestFields DEF Receive
      <4>2. CASE \E u \in Users, target \in Users, reviewer \in People :
                   AssignRead(r, u, target, reviewer)
        BY <1>2, <4>2 DEF AssignRead, Receive, NewRequest, Idle
      <4>3. CASE \E u \in Users : StartRead(r, u) \/ SubmitRead(r, u)
        BY <4>1, <4>3 DEF StartRead, SubmitRead
      <4>4. CASE \E u \in Users :
                   \/ SaveContentRead(r, u)
                   \/ CaptureLocationRead(r, u)
                   \/ UploadPhotoRead(r, u)
                   \/ RemovePhotoRead(r, u)
                   \/ SyncPushRead(r, u)
                   \/ AdminSaveRead(r, u)
        BY <4>1, <4>4
        DEF SaveContentRead, CaptureLocationRead, UploadPhotoRead,
            RemovePhotoRead, SyncPushRead, AdminSaveRead
      <4>5. CASE \E u \in Users :
                   \/ BeginReviewRead(r, u)
                   \/ ApproveRead(r, u)
                   \/ RejectRead(r, u)
                   \/ RequestCorrectionRead(r, u)
        BY <4>1, <4>5
        DEF BeginReviewRead, ApproveRead, RejectRead, RequestCorrectionRead,
            DecideRead
      <4>6. CASE \E u \in Users, op \in ReviewEdits :
                   \/ ReviewEditRead(r, u, op)
                   \/ ClaimedEditRead(r, u, op)
                   \/ MapEditRead(r, u, op)
        BY <4>1, <4>6
        DEF ReviewEditRead, ClaimedEditRead, MapEditRead, ReviewEdits,
            UnclaimedReviewEdits, ClaimedReviewEdits
      <4>7. QED
        BY <2>1, <3>2, <4>2, <4>3, <4>4, <4>5, <4>6 DEF Arrive
    <3>3. QED
      BY <3>1, <3>2
  <2>2. CASE ApproveThenGenerate(r)
    BY <2>2, GenerateNeedsApproval DEF ApproveThenGenerate
  <2>3. CASE ReadAgain(r) /\ ~ ApproveThenGenerate(r)
    <3>1. requests'[r].op = requests[r].op
      BY <1>2, <2>3
      DEF ReadAgain, StartReadFee, SubmitReadContent, ApproveReadReview,
          ApproveReadRequirements, RemoveMapReadImage, Proceed, Request
    <3>2. QED
      BY <3>1 DEF ReportInv
  <2>4. QED
    BY <2>1, <2>2, <2>3
<1>5. QED
  BY <1>1, <1>3, <1>4 DEF ReportInv, data, fees

\* Commits: the mark of an approval is only ever set, by an approval of work
\* that was submitted, and counts only grow.
LEMMA CommitKeepsReportInv ==
  ASSUME IInv, ReportInv, NEW r \in Requests, Commit(r)
  PROVE  ReportInv'
<1> DEFINE q == requests[r]
           n == insp.submissionCount
<1>1. /\ TypeOK /\ q \in Request /\ insp \in Row /\ n \in Nat
      /\ InFlight(q, n, everSettled)
      /\ UNCHANGED fees
  BY DEF IInv, TypeOK, Row, RequestsInFlight, Commit, AssignCommit, StartCommit,
         ContentCommit, SubmitCommit, DecideCommit, GenerateCommit,
         ReviewEditCommit
<1>2. ASSUME NEW x \in Requests
      PROVE  \/ requests'[x] = requests[x]
             \/ requests'[x].op # "generateReport"
  <2>1. CASE Finish(r)
    BY <1>1, <2>1 DEF TypeOK, Finish, Idle
  <2>2. CASE DecideCommit(r) /\ q.op = "approve"
    BY <1>1, <2>2 DEF TypeOK, DecideCommit, Idle
  <2>3. Finish(r) \/ (DecideCommit(r) /\ q.op = "approve")
    BY DEF Commit, AssignCommit, StartCommit, ContentCommit, SubmitCommit,
           DecideCommit, GenerateCommit, ReviewEditCommit
  <2>4. QED
    BY <2>1, <2>2, <2>3
\* It is enough to look at the row.
<1>3. ASSUME insp.approved => insp'.approved,
             insp'.approved => everSettled /\ 1 <= insp'.submissionCount,
             insp'.status \in {"APPROVED", "REPORT_GENERATED"}
               => insp'.approved
      PROVE  ReportInv'
  BY <1>1, <1>2, <1>3 DEF ReportInv, fees
<1>4. ASSUME insp'.approved = insp.approved, n <= insp'.submissionCount,
             insp'.submissionCount \in Nat,
             insp'.status \in {"APPROVED", "REPORT_GENERATED"} =>
               insp.status = insp'.status \/ insp.approved
      PROVE  ReportInv'
  BY <1>1, <1>3, <1>4 DEF ReportInv
<1>5. CASE AssignCommit(r)
  BY <1>1, <1>4, <1>5 DEF AssignCommit, Update, Row
<1>6. CASE StartCommit(r)
  BY <1>1, <1>4, <1>6, TransitionsLandOnStatuses DEF StartCommit, Update, Row
<1>7. CASE ContentCommit(r) \/ ReviewEditCommit(r)
  BY <1>1, <1>4, <1>7 DEF ContentCommit, ReviewEditCommit, Update, Row
<1>8. CASE SubmitCommit(r)
  <2>1. insp'.submissionCount = n + 1
    BY <1>1, <1>8, FreeRoundsAreNew
    DEF SubmitCommit, Update, IInv, Ledger, InFlight, Request, SeenRow, Row
  <2>2. insp'.approved = insp.approved
        /\ insp'.status = TRANSITIONS[SubmitAction(q.seen)].to
    BY <1>1, <1>8 DEF SubmitCommit, Update, Row
  <2>3. insp'.status \in {"SUBMITTED", "RESUBMITTED"}
    BY <2>2, SubmissionsLand
  <2>4. QED
    BY <1>1, <1>4, <2>1, <2>2, <2>3
<1>9. CASE DecideCommit(r)
  <2>1. /\ insp'.status = TRANSITIONS[DecisionAction[q.op]].to
        /\ insp'.submissionCount = n
        /\ q.op = "approve" => insp'.approved = TRUE
        /\ q.op # "approve" => insp'.approved = insp.approved
        /\ q.op \in Decisions
    BY <1>1, <1>9 DEF DecideCommit, Update, Row
  <2>2. everSettled /\ 1 <= n
    BY <1>1, <2>1 DEF InFlight
  <2>3. insp'.status \in {"APPROVED", "REPORT_GENERATED"} => q.op = "approve"
    BY <2>1, TransitionsLandOnStatuses DEF Decisions, DecisionAction
  <2>4. QED
    BY <1>3, <2>1, <2>2, <2>3
<1>10. CASE GenerateCommit(r)
  <2>1. insp.approved
    BY <1>10 DEF GenerateCommit, At, ReportInv
  <2>2. insp'.approved = insp.approved /\ insp'.submissionCount = n
    BY <1>1, <1>10 DEF GenerateCommit, Update, Row
  <2>3. QED
    BY <1>1, <1>4, <2>1, <2>2
<1>11. QED
  BY <1>5, <1>6, <1>7, <1>8, <1>9, <1>10 DEF Commit

\* ReportInv is inductive, relative to IInv.
LEMMA StepKeepsReportInv == IInv /\ ReportInv /\ [Next]_vars => ReportInv'
<1> SUFFICES ASSUME IInv, ReportInv, [Next]_vars
             PROVE  ReportInv'
  OBVIOUS
<1>1. ASSUME NEW r \in Requests, Abandon(r)
      PROVE  ReportInv'
  <2>1. \A x \in Requests : requests'[x] = requests[x]
                               \/ requests'[x].op = "none"
    BY <1>1 DEF Abandon, Finish, Idle, IInv, TypeOK
  <2>2. QED
    BY <1>1, <2>1 DEF Abandon, ReportInv, data, fees
<1>2. CASE PaymentsServiceWrites
  BY <1>2 DEF PaymentsServiceWrites, ReportInv, data
<1>3. CASE UNCHANGED vars
  BY <1>3 DEF vars, ReportInv
<1>4. QED
  BY <1>1, <1>2, <1>3, ReadKeepsReportInv, CommitKeepsReportInv
  DEF Next, RequestStep

\* ReportInv holds of an inspection as create leaves it.
LEMMA InitReportInv == Init => ReportInv
<1> SUFFICES ASSUME Init
             PROVE  ReportInv
  OBVIOUS
<1>1. insp.status = "ASSIGNED" /\ insp.approved = FALSE
  BY DEF Init
<1>2. \A r \in Requests : requests[r].op = "none"
  BY DEF Init, Idle
<1>3. QED
  BY <1>1, <1>2 DEF ReportInv

(***************************************************************************)
(* However requests overlap, the official report is of work that was       *)
(* approved, and an approval is of work that was paid for and submitted:   *)
(* "generating one from unapproved data would create a document nobody     *)
(* sanctioned" (inspection-state-machine.ts).                              *)
(***************************************************************************)
THEOREM ReportsAreSanctioned == Spec => []OnlyApprovedWorkIsReported
<1>1. IInv /\ ReportInv => OnlyApprovedWorkIsReported
  BY DEF IInv, Ledger, SubmissionsAreSnapshotted, ReportInv, TypeOK, Row,
         OnlyApprovedWorkIsReported
<1>2. QED
  BY <1>1, InductiveInvariant, InitReportInv, StepKeepsReportInv, PTL DEF Spec

-----------------------------------------------------------------------------
(* The version *)

\* Every step that changes what a client sees adds one to the version.
LEMMA StepBumpsVersion ==
  ASSUME TypeOK, [Next]_vars,
         <<insp, content, workspace, snapshots, openCorrections>>' #
           <<insp, content, workspace, snapshots, openCorrections>>
  PROVE  insp'.version = insp.version + 1
<1>1. ~ UNCHANGED data /\ ~ UNCHANGED vars
  BY DEF data, vars
<1>2. PICK r \in Requests : RequestStep(r)
  BY <1>1 DEF Next, PaymentsServiceWrites
<1>3. ~ (Arrive(r) \/ ReadAgain(r) \/ Abandon(r))
  BY <1>1
  DEF Arrive, AssignRead, StartRead, SaveContentRead, CaptureLocationRead,
      UploadPhotoRead, RemovePhotoRead, SyncPushRead, AdminSaveRead, SubmitRead,
      BeginReviewRead, ApproveRead, RejectRead, RequestCorrectionRead,
      DecideRead, GenerateRead, ReviewEditRead, ClaimedEditRead, MapEditRead,
      Receive, ReadAgain, StartReadFee, SubmitReadContent, ApproveReadReview,
      ApproveReadRequirements, ApproveThenGenerate, RemoveMapReadImage, Proceed,
      Abandon
<1>4. Commit(r)
  BY <1>2, <1>3 DEF RequestStep
<1>5. insp \in Row
  BY DEF TypeOK
<1> USE <1>5 DEF Update, Row
<1>6. CASE AssignCommit(r)
  BY <1>6 DEF AssignCommit
<1>7. CASE StartCommit(r)
  BY <1>7 DEF StartCommit
<1>8. CASE ContentCommit(r) \/ ReviewEditCommit(r)
  BY <1>8 DEF ContentCommit, ReviewEditCommit
<1>9. CASE SubmitCommit(r)
  BY <1>9 DEF SubmitCommit
<1>10. CASE DecideCommit(r)
  BY <1>10 DEF DecideCommit
<1>11. CASE GenerateCommit(r)
  BY <1>1, <1>11 DEF GenerateCommit
<1>12. QED
  BY <1>4, <1>6, <1>7, <1>8, <1>9, <1>10, <1>11 DEF Commit

(***************************************************************************)
(* A version names one state of the inspection: no commit changes what a   *)
(* client sees without raising the version, by one.  (The update of every  *)
(* handler says version: { increment: 1 }.)                                *)
(***************************************************************************)
THEOREM VersionsNameStates == Spec => EveryChangeBumpsVersion
<1>1. TypeOK /\ [Next]_vars
      => [<<insp, content, workspace, snapshots, openCorrections>>' #
            <<insp, content, workspace, snapshots, openCorrections>>
          => insp'.version = insp.version + 1]_vars
  BY StepBumpsVersion
<1>2. QED
  BY <1>1, TypeCorrect, PTL DEF Spec, EveryChangeBumpsVersion

=============================================================================
