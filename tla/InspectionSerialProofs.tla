----------------------- MODULE InspectionSerialProofs -----------------------
(***************************************************************************)
(* Theorems about an inspection whose requests do not overlap, for any     *)
(* staff, contents and bound: the work that is reviewed, what an approval  *)
(* rests on, who decides, the chain of status events, and that the         *)
(* workflow implements InspectionLifecycle.                                *)
(***************************************************************************)
EXTENDS InspectionWorkflowProofs

\* There is one slot for requests at most.
OneAtATime == \A q, r \in Requests : q = r

\* The statuses in which no correction is outstanding.
Presented == REVIEW_QUEUE_STATUSES \cup {"APPROVED", "REJECTED",
                                         "REPORT_GENERATED"}

Reassignable == {"ASSIGNED", "IN_PROGRESS", "CORRECTION_REQUESTED"}

JudgedOps == {"assign", "start", "submit", "generateReport"} \cup Decisions

SomebodyMay(permission) == \E u \in Users : permission \in PermissionsOf[u]

(***************************************************************************)
(* What a request has judged is still so when no other request comes in    *)
(* between.  One conjunct for each thing that a handler looks at.          *)
(***************************************************************************)
CurrentRow(q) ==
  /\ q.op # "none" => q.user \in Users
  /\ q.op \in JudgedOps /\ q.step # "approved" => q.seen = Seen

CurrentWork(q) ==
  /\ q.op = "assign" =>
       /\ insp.status \in Reassignable
       /\ q.target \in Inspectors
       /\ SomebodyMay("inspections.assign")
  /\ q.op = "start" /\ q.step = "ready" =>
       /\ insp.status = "ASSIGNED"
       /\ insp.inspector = q.user
       /\ "inspections.write" \in PermissionsOf[q.user]
  /\ q.op = "submit" =>
       /\ insp.status \in EDITABLE_STATUSES
       /\ insp.inspector = q.user
       /\ "inspections.write" \in PermissionsOf[q.user]
  /\ q.op = "submit" /\ q.step = "ready" => q.content = content
  /\ q.op \in ContentOperations => insp.status \in EDITABLE_STATUSES
  /\ q.op = "adminSave" =>
       q.user \in Admins /\ insp.status \notin {"APPROVED", "REPORT_GENERATED"}

CurrentReview(q) ==
  /\ q.op \in Decisions /\ q.step # "approved" =>
       /\ insp.status \in TRANSITIONS[DecisionAction[q.op]].from
       /\ insp.inspector # q.user
       /\ "reviews.decide" \in PermissionsOf[q.user]
  /\ q.op = "approve" /\ q.step \in {"checked", "ready"} =>
       {"risk", "conclusion"} \subseteq workspace
  /\ q.op = "approve" /\ q.step = "ready" =>
       RequiredParts \subseteq workspace /\ insp.reviewer = q.user
  /\ q.op = "generateReport" =>
       /\ insp.status \in {"APPROVED", "REPORT_GENERATED"}
       /\ SomebodyMay("reports.generate")
  /\ q.op \in ReviewEdits => insp.status \in REVIEW_QUEUE_STATUSES

Current(q) == CurrentRow(q) /\ CurrentWork(q) /\ CurrentReview(q)

\* What the database keeps between two requests.
Standing ==
  /\ insp.status # "ARCHIVED"
  /\ insp.status \notin {"ASSIGNED", "IN_PROGRESS"} =>
       attestedBy = insp.inspector
  /\ insp.status \in Presented => openCorrections = {}
  /\ CorrectionsMatchStatus
  /\ ApprovalIsJustified
  /\ NobodyReviewsTheirOwnWork

Attested == Admins = {} => ReviewedContentIsAttested

SerialState ==
  Standing /\ Attested /\ \A r \in Requests : Current(requests[r])

SerialInv == IInv /\ SerialState

-----------------------------------------------------------------------------
(* Reads *)

\* The fields of a request that arrives.
LEMMA ArrivalFields ==
  ASSUME NEW op, NEW u, NEW seen, NEW base, NEW step
  PROVE  /\ NewRequest(op, u, seen, base, step).op = op
         /\ NewRequest(op, u, seen, base, step).step = step
         /\ NewRequest(op, u, seen, base, step).user = u
         /\ NewRequest(op, u, seen, base, step).seen = seen
BY DEF NewRequest, Idle

\* What the rules of the table ask of a context that a handler builds.
LEMMA PermittedAssignment ==
  ASSUME NEW target, NEW u, NEW reason,
         Permits(Context(AssignAction(insp, target), u, insp, NoUser, reason,
                         "NONE"))
  PROVE  /\ insp.status \in Reassignable
         /\ "inspections.assign" \in PermissionsOf[u]
<1>1. AssignAction(insp, target) \in {"ASSIGN", "REASSIGN"}
  BY DEF AssignAction
<1>2. CASE AssignAction(insp, target) = "ASSIGN"
  BY <1>2 DEF Permits, Context, TRANSITIONS, PlainRule, Reassignable
<1>3. CASE AssignAction(insp, target) = "REASSIGN"
  BY <1>3 DEF Permits, Context, TRANSITIONS, PlainRule, Reassignable
<1>4. QED
  BY <1>1, <1>2, <1>3

\* A start: by the assigned inspector.
LEMMA PermittedStart ==
  ASSUME NEW u, NEW row, NEW fee,
         Permits(Context("START", u, row, NoUser, FALSE, fee))
  PROVE  /\ row.status = "ASSIGNED"
         /\ row.inspector = u
         /\ "inspections.write" \in PermissionsOf[u]
BY DEF Permits, Context, TRANSITIONS, PlainRule

\* A first submission or another: by the assigned inspector.
LEMMA PermittedSubmission ==
  ASSUME NEW u,
         Permits(Context(SubmitAction(insp), u, insp, NoUser, FALSE, "NONE"))
  PROVE  /\ insp.status \in EDITABLE_STATUSES
         /\ insp.inspector = u
         /\ "inspections.write" \in PermissionsOf[u]
<1>1. CASE SubmitAction(insp) = "SUBMIT"
  BY <1>1 DEF Permits, Context, TRANSITIONS, PlainRule, EDITABLE_STATUSES
<1>2. CASE SubmitAction(insp) = "RESUBMIT"
  BY <1>2 DEF Permits, Context, TRANSITIONS, PlainRule, EDITABLE_STATUSES
<1>3. QED
  BY <1>1, <1>2 DEF SubmitAction

\* A decision: by anyone entitled but the assigned inspector.
LEMMA PermittedDecision ==
  ASSUME NEW op \in Decisions, NEW u, NEW reason,
         Permits(DecisionContext(op, u, reason))
  PROVE  /\ insp.status \in TRANSITIONS[DecisionAction[op]].from
         /\ insp.inspector # u
         /\ "reviews.decide" \in PermissionsOf[u]
<1> USE DEF Permits, Context, DecisionContext, TRANSITIONS, PlainRule,
            DecisionAction
<1>1. CASE op = "beginReview"
  BY <1>1
<1>2. CASE op = "approve"
  BY <1>2
<1>3. CASE op = "reject"
  BY <1>3
<1>4. CASE op = "requestCorrection"
  BY <1>4
<1>5. QED
  BY <1>1, <1>2, <1>3, <1>4 DEF Decisions

\* A report: of approved work.
LEMMA PermittedReport ==
  ASSUME NEW u, MayGenerate(u)
  PROVE  /\ insp.status \in {"APPROVED", "REPORT_GENERATED"}
         /\ "reports.generate" \in PermissionsOf[u]
BY DEF MayGenerate, Permits, Context, TRANSITIONS, PlainRule

\* A read: nothing is written, and the slot holds what was judged.
LEMMA ReadKeepsSerial ==
  ASSUME OneAtATime, TypeOK, Standing, Attested,
         NEW r \in Requests, NEW q,
         requests' = [requests EXCEPT ![r] = q], UNCHANGED <<data, fees>>,
         Current(q)
  PROVE  SerialState'
<1> USE DEF data, fees
<1>1. Standing'
  BY DEF Standing, CorrectionsMatchStatus, ApprovalIsJustified,
         NobodyReviewsTheirOwnWork
<1>2. Attested'
  BY DEF Attested, ReviewedContentIsAttested
<1>3. ASSUME NEW x \in Requests
      PROVE  Current(requests[x])'
  <2>1. requests'[x] = q
    BY DEF OneAtATime, TypeOK
  <2>2. QED
    BY <2>1 DEF Current, CurrentRow, CurrentWork, CurrentReview, Seen,
                RequiredParts
<1>4. QED
  BY <1>1, <1>2, <1>3 DEF SerialState

\* The first read of every handler.
LEMMA ArriveKeepsSerial ==
  ASSUME OneAtATime, SerialInv, NEW r \in Requests, Arrive(r)
  PROVE  SerialState'
<1> USE ArrivalFields
<1>1. ASSUME NEW q, Receive(r, q), Current(q)
      PROVE  SerialState'
  BY <1>1, ReadKeepsSerial DEF Receive, SerialInv, SerialState, IInv
<1>2. PICK u \in Users :
        \/ \E target \in Users, reviewer \in People :
             AssignRead(r, u, target, reviewer)
        \/ StartRead(r, u)
        \/ SaveContentRead(r, u)
        \/ CaptureLocationRead(r, u)
        \/ UploadPhotoRead(r, u)
        \/ RemovePhotoRead(r, u)
        \/ SyncPushRead(r, u)
        \/ AdminSaveRead(r, u)
        \/ SubmitRead(r, u)
        \/ BeginReviewRead(r, u)
        \/ ApproveRead(r, u)
        \/ RejectRead(r, u)
        \/ RequestCorrectionRead(r, u)
        \/ GenerateRead(r, u)
        \/ \E op \in ReviewEdits :
             \/ ReviewEditRead(r, u, op)
             \/ ClaimedEditRead(r, u, op)
             \/ MapEditRead(r, u, op)
  BY DEF Arrive
<1>3. CASE \E target \in Users, reviewer \in People :
             AssignRead(r, u, target, reviewer)
  <2>1. PICK target \in Users, reviewer \in People :
          AssignRead(r, u, target, reviewer)
    BY <1>3
  <2> DEFINE n == NewRequest("assign", u, Seen, 0, "ready")
             q == [n EXCEPT !.target = target, !.reviewer = reviewer]
  <2>2. PICK reason \in BOOLEAN :
          Permits(Context(AssignAction(insp, target), u, insp, NoUser, reason,
                          "NONE"))
    BY <2>1 DEF AssignRead
  <2>3. /\ insp.status \in Reassignable
        /\ "inspections.assign" \in PermissionsOf[u]
    BY <2>2, PermittedAssignment
  <2>4. n \in Request
    BY SeenIsTyped, NewRequestIsTyped
    DEF SerialInv, IInv, AllOperations, Steps
  <2>5. /\ q.op = "assign" /\ q.step = "ready" /\ q.user = u
        /\ q.seen = Seen /\ q.target = target
    BY <2>4 DEF Request
  <2>6. target \in Inspectors /\ Receive(r, q)
    BY <2>1 DEF AssignRead
  <2> HIDE DEF q
  <2>7. Current(q)
    BY <2>3, <2>5, <2>6
    DEF Current, CurrentRow, CurrentWork, CurrentReview, SomebodyMay,
        ContentOperations, Decisions, ReviewEdits, UnclaimedReviewEdits,
        ClaimedReviewEdits
  <2>8. QED
    BY <1>1, <2>6, <2>7
<1>4. CASE StartRead(r, u)
  <2> DEFINE q == NewRequest("start", u, Seen, 0, "read")
  <2>1. q.op = "start" /\ q.step = "read" /\ q.user = u /\ q.seen = Seen
    OBVIOUS
  <2>2. Receive(r, q)
    BY <1>4 DEF StartRead
  <2> HIDE DEF q
  <2>3. Current(q)
    BY <2>1
    DEF Current, CurrentRow, CurrentWork, CurrentReview, ContentOperations,
        Decisions, ReviewEdits, UnclaimedReviewEdits, ClaimedReviewEdits
  <2>4. QED
    BY <1>1, <2>2, <2>3
<1>5. ASSUME NEW op \in ContentOperations, NEW base, Editable(u),
             Receive(r, NewRequest(op, u, NothingSeen, base, "ready"))
      PROVE  SerialState'
  <2> DEFINE q == NewRequest(op, u, NothingSeen, base, "ready")
  <2>1. q.op = op /\ q.user = u
    OBVIOUS
  <2> HIDE DEF q
  <2>2. Current(q)
    BY <1>5, <2>1
    DEF Current, CurrentRow, CurrentWork, CurrentReview, ContentOperations,
        Decisions, ReviewEdits, UnclaimedReviewEdits, ClaimedReviewEdits,
        JudgedOps, Editable
  <2>3. QED
    BY <1>1, <1>5, <2>2 DEF q
<1>6. CASE SaveContentRead(r, u) \/ CaptureLocationRead(r, u)
           \/ SyncPushRead(r, u) \/ UploadPhotoRead(r, u)
           \/ RemovePhotoRead(r, u)
  BY <1>5, <1>6
  DEF SaveContentRead, CaptureLocationRead, SyncPushRead, UploadPhotoRead,
      RemovePhotoRead, ContentOperations
<1>7. CASE AdminSaveRead(r, u)
  <2>1. PICK base \in FreshBases :
          Receive(r, NewRequest("adminSave", u, NothingSeen, base, "ready"))
    BY <1>7 DEF AdminSaveRead
  <2> DEFINE q == NewRequest("adminSave", u, NothingSeen, base, "ready")
  <2>2. q.op = "adminSave" /\ q.user = u
    OBVIOUS
  <2> HIDE DEF q
  <2>3. Current(q)
    BY <1>7, <2>2
    DEF Current, CurrentRow, CurrentWork, CurrentReview, ContentOperations,
        Decisions, ReviewEdits, UnclaimedReviewEdits, ClaimedReviewEdits,
        JudgedOps, AdminSaveRead
  <2>4. QED
    BY <1>1, <2>1, <2>3 DEF q
<1>8. CASE SubmitRead(r, u)
  <2> DEFINE q == NewRequest("submit", u, Seen, 0, "read")
  <2>1. q.op = "submit" /\ q.step = "read" /\ q.user = u /\ q.seen = Seen
    OBVIOUS
  <2>2. Permits(Context(SubmitAction(insp), u, insp, NoUser, FALSE, "NONE"))
        /\ Receive(r, q)
    BY <1>8 DEF SubmitRead
  <2>3. /\ insp.status \in EDITABLE_STATUSES
        /\ insp.inspector = u
        /\ "inspections.write" \in PermissionsOf[u]
    BY <2>2, PermittedSubmission
  <2> HIDE DEF q
  <2>4. Current(q)
    BY <2>1, <2>3
    DEF Current, CurrentRow, CurrentWork, CurrentReview, ContentOperations,
        Decisions, ReviewEdits, UnclaimedReviewEdits, ClaimedReviewEdits
  <2>5. QED
    BY <1>1, <2>2, <2>4
<1>9. ASSUME NEW op \in Decisions, NEW base, DecideRead(r, u, op, base)
      PROVE  SerialState'
  <2> DEFINE step == IF op = "approve" THEN "read" ELSE "ready"
             q == NewRequest(op, u, Seen, base, step)
  <2>1. /\ q.op = op /\ q.user = u /\ q.seen = Seen /\ q.step = step
        /\ op = "approve" => q.step = "read"
    OBVIOUS
  <2>2. PICK reason \in BOOLEAN : Permits(DecisionContext(op, u, reason))
    BY <1>9 DEF DecideRead
  <2>3. /\ insp.status \in TRANSITIONS[DecisionAction[op]].from
        /\ insp.inspector # u
        /\ "reviews.decide" \in PermissionsOf[u]
    BY <2>2, PermittedDecision
  <2>4. Receive(r, q)
    BY <1>9 DEF DecideRead
  <2> HIDE DEF q, step
  <2>5. Current(q)
    BY <2>1, <2>3
    DEF Current, CurrentRow, CurrentWork, CurrentReview, ContentOperations,
        Decisions, ReviewEdits, UnclaimedReviewEdits, ClaimedReviewEdits
  <2>6. QED
    BY <1>1, <2>4, <2>5
<1>10. CASE BeginReviewRead(r, u) \/ ApproveRead(r, u) \/ RejectRead(r, u)
            \/ RequestCorrectionRead(r, u)
  BY <1>9, <1>10
  DEF BeginReviewRead, ApproveRead, RejectRead, RequestCorrectionRead,
      Decisions
<1>11. CASE GenerateRead(r, u)
  <2> DEFINE q == NewRequest("generateReport", u, Seen, 0, "ready")
  <2>1. q.op = "generateReport" /\ q.user = u /\ q.seen = Seen
    OBVIOUS
  <2>2. MayGenerate(u) /\ Receive(r, q)
    BY <1>11 DEF GenerateRead
  <2>3. /\ insp.status \in {"APPROVED", "REPORT_GENERATED"}
        /\ "reports.generate" \in PermissionsOf[u]
    BY <2>2, PermittedReport
  <2> HIDE DEF q
  <2>4. Current(q)
    BY <2>1, <2>3
    DEF Current, CurrentRow, CurrentWork, CurrentReview, ContentOperations,
        Decisions, ReviewEdits, UnclaimedReviewEdits, ClaimedReviewEdits,
        SomebodyMay
  <2>5. QED
    BY <1>1, <2>2, <2>4
<1>12. CASE \E op \in ReviewEdits :
              \/ ReviewEditRead(r, u, op)
              \/ ClaimedEditRead(r, u, op)
              \/ MapEditRead(r, u, op)
  <2>1. PICK op \in ReviewEdits :
          \/ ReviewEditRead(r, u, op)
          \/ ClaimedEditRead(r, u, op)
          \/ MapEditRead(r, u, op)
    BY <1>12
  <2>2. PICK base \in Nat, step \in Steps :
          Receive(r, NewRequest(op, u, NothingSeen, base, step))
    BY <2>1, BasesAreTyped
    DEF ReviewEditRead, ClaimedEditRead, MapEditRead, Steps, SerialInv, IInv
  <2> DEFINE q == NewRequest(op, u, NothingSeen, base, step)
  <2>3. q.op = op /\ q.user = u
    OBVIOUS
  <2>4. insp.status \in REVIEW_QUEUE_STATUSES
    BY <2>1 DEF ReviewEditRead, ClaimedEditRead, MapEditRead, ReviewEditable
  <2> HIDE DEF q
  <2>5. Current(q)
    BY <2>3, <2>4
    DEF Current, CurrentRow, CurrentWork, CurrentReview, ContentOperations,
        Decisions, ReviewEdits, UnclaimedReviewEdits, ClaimedReviewEdits,
        JudgedOps
  <2>6. QED
    BY <1>1, <2>2, <2>5 DEF q
<1>13. QED
  BY <1>2, <1>3, <1>4, <1>6, <1>7, <1>8, <1>10, <1>11, <1>12

\* The later reads of a handler.
LEMMA ReadAgainKeepsSerial ==
  ASSUME OneAtATime, SerialInv, NEW r \in Requests, ReadAgain(r)
  PROVE  SerialState'
<1> DEFINE old == requests[r]
<1>1. TypeOK /\ old \in Request /\ Current(old)
  BY DEF SerialInv, SerialState, IInv, TypeOK
<1>2. ASSUME NEW q, requests' = [requests EXCEPT ![r] = q],
             UNCHANGED <<data, fees>>, Current(q)
      PROVE  SerialState'
  BY <1>1, <1>2, ReadKeepsSerial DEF SerialInv, SerialState
<1>3. ASSUME NEW step, Proceed(r, step), Current([old EXCEPT !.step = step])
      PROVE  SerialState'
  BY <1>2, <1>3 DEF Proceed
<1> USE DEF Current, CurrentRow, CurrentWork, CurrentReview, ContentOperations,
            Decisions, ReviewEdits, UnclaimedReviewEdits, ClaimedReviewEdits,
            JudgedOps, At
<1>4. CASE StartReadFee(r)
  <2>1. /\ old.op = "start" /\ old.step = "read" /\ old.seen = Seen
        /\ Permits(Context("START", old.user, old.seen, NoUser, FALSE,
                           feeStatus))
    BY <1>1, <1>4 DEF StartReadFee
  <2>2. /\ insp.status = "ASSIGNED" /\ insp.inspector = old.user
        /\ "inspections.write" \in PermissionsOf[old.user]
    <3>1. /\ old.seen.status = "ASSIGNED" /\ old.seen.inspector = old.user
          /\ "inspections.write" \in PermissionsOf[old.user]
      BY <2>1, PermittedStart
    <3>2. QED
      BY <2>1, <3>1 DEF Seen
  <2> DEFINE q == [old EXCEPT !.step = "ready"]
  <2>3. /\ q.op = "start" /\ q.step = "ready" /\ q.user = old.user
        /\ q.seen = Seen
    BY <1>1, <2>1 DEF Request
  <2> HIDE DEF q
  <2>4. Current(q)
    BY <1>1, <2>1, <2>2, <2>3
  <2>5. QED
    BY <1>3, <1>4, <2>4 DEF StartReadFee, q
<1>5. CASE SubmitReadContent(r)
  <2> DEFINE q == [old EXCEPT !.step = "ready", !.content = content]
  <2>1. old.op = "submit" /\ old.step = "read"
    BY <1>5 DEF SubmitReadContent
  <2>2. /\ q.op = "submit" /\ q.step = "ready" /\ q.user = old.user
        /\ q.seen = old.seen /\ q.content = content
    BY <1>1, <2>1 DEF Request
  <2>3. requests' = [requests EXCEPT ![r] = q] /\ UNCHANGED <<data, fees>>
    BY <1>5 DEF SubmitReadContent
  <2> HIDE DEF q
  <2>4. Current(q)
    BY <1>1, <2>1, <2>2
  <2>5. QED
    BY <1>2, <2>3, <2>4
<1>6. CASE ApproveReadReview(r) \/ ApproveReadRequirements(r)
  <2>1. PICK step \in {"checked", "ready"} :
          /\ Proceed(r, step)
          /\ {"risk", "conclusion"} \subseteq workspace
          /\ step = "ready" =>
               RequiredParts \subseteq workspace /\ old.seen.reviewer = old.user
          /\ old.op = "approve" /\ old.step # "approved"
    BY <1>1, <1>6 DEF ApproveReadReview, ApproveReadRequirements
  <2> DEFINE q == [old EXCEPT !.step = step]
  <2>2. /\ q.op = "approve" /\ q.step = step /\ q.user = old.user
        /\ q.seen = old.seen
    BY <1>1, <2>1 DEF Request
  <2>3. Seen.reviewer = insp.reviewer
    BY DEF Seen
  <2> HIDE DEF q
  <2>4. Current(q)
    BY <1>1, <2>1, <2>2, <2>3
  <2>5. QED
    BY <1>3, <2>1, <2>4 DEF q
<1>7. CASE ApproveThenGenerate(r)
  <2> DEFINE q == [old EXCEPT !.op = "generateReport", !.step = "ready",
                              !.seen = Seen]
  <2>1. old.op = "approve" /\ MayGenerate(old.user)
    BY <1>7 DEF ApproveThenGenerate
  <2>2. /\ insp.status \in {"APPROVED", "REPORT_GENERATED"}
        /\ "reports.generate" \in PermissionsOf[old.user]
    BY <2>1, PermittedReport
  <2>3. /\ q.op = "generateReport" /\ q.step = "ready" /\ q.user = old.user
        /\ q.seen = Seen
    BY <1>1 DEF Request
  <2>4. requests' = [requests EXCEPT ![r] = q] /\ UNCHANGED <<data, fees>>
    BY <1>7 DEF ApproveThenGenerate
  <2> HIDE DEF q
  <2>5. Current(q)
    BY <1>1, <2>1, <2>2, <2>3 DEF SomebodyMay
  <2>6. QED
    BY <1>2, <2>4, <2>5
<1>8. CASE RemoveMapReadImage(r)
  <2> DEFINE q == [old EXCEPT !.step = "ready"]
  <2>1. q.op = "removeMap" /\ q.user = old.user /\ old.op = "removeMap"
    BY <1>1, <1>8 DEF Request, RemoveMapReadImage
  <2> HIDE DEF q
  <2>2. Current(q)
    BY <1>1, <2>1
  <2>3. QED
    BY <1>3, <1>8, <2>2 DEF RemoveMapReadImage, q
<1>9. QED
  BY <1>4, <1>5, <1>6, <1>7, <1>8 DEF ReadAgain

-----------------------------------------------------------------------------
(* Commits *)

\* The commit of the one request leaves nothing in its slot, or an approval
\* that has yet to judge whether a report may be made.
LEMMA EndedRequestIsCurrent ==
  ASSUME OneAtATime, TypeOK, NEW r \in Requests, NEW q,
         requests' = [requests EXCEPT ![r] = q],
         \/ q = Idle
         \/ q.op = "approve" /\ q.step = "approved" /\ q.user \in Users
  PROVE  \A x \in Requests : Current(requests[x])'
<1> SUFFICES ASSUME NEW x \in Requests
             PROVE  Current(requests[x])'
  OBVIOUS
<1>1. requests'[x] = q
  BY DEF OneAtATime, TypeOK
<1>2. \/ q.op = "none"
      \/ q.op = "approve" /\ q.step = "approved" /\ q.user \in Users
  BY DEF Idle
<1>3. QED
  BY <1>1, <1>2
  DEF Current, CurrentRow, CurrentWork, CurrentReview, ContentOperations,
      Decisions, ReviewEdits, UnclaimedReviewEdits, ClaimedReviewEdits,
      JudgedOps

\* What each update by id leaves in the columns.
LEMMA UpdatedColumns ==
  ASSUME insp \in Row, NEW row \in Row, Update(row)
  PROVE  /\ insp'.status = row.status
         /\ insp'.inspector = row.inspector
         /\ insp'.reviewer = row.reviewer
         /\ insp'.submissionCount = row.submissionCount
         /\ insp'.started = row.started
BY DEF Update, Row

\* The columns that an assignment leaves.
LEMMA AssignColumns ==
  ASSUME TypeOK, NEW r \in Requests, AssignCommit(r)
  PROVE  /\ insp'.status = "ASSIGNED"
         /\ insp'.inspector = requests[r].target
         /\ insp'.reviewer \in People
         /\ insp'.submissionCount = insp.submissionCount
<1> DEFINE q == requests[r]
           kept == IF q.reviewer # NoUser THEN q.reviewer ELSE q.seen.reviewer
           row == [insp EXCEPT !.status = "ASSIGNED", !.inspector = q.target,
                               !.reviewer = kept]
<1>1. q \in Request /\ insp \in Row
  BY DEF TypeOK
<1>2. /\ row \in Row /\ row.status = "ASSIGNED" /\ row.inspector = q.target
      /\ row.reviewer \in People
      /\ row.submissionCount = insp.submissionCount
  BY <1>1 DEF Row, Request, SeenRow, Statuses
<1>3. Update(row)
  BY DEF AssignCommit
<1> HIDE DEF row
<1>4. QED
  BY <1>1, <1>2, <1>3, UpdatedColumns

\* The columns that a start leaves.
LEMMA StartColumns ==
  ASSUME TypeOK, NEW r \in Requests, StartCommit(r)
  PROVE  /\ insp'.status = "IN_PROGRESS"
         /\ insp'.inspector = insp.inspector
         /\ insp'.reviewer = insp.reviewer
         /\ insp'.submissionCount = insp.submissionCount
<1> DEFINE row == [insp EXCEPT !.status = TRANSITIONS.START.to,
                               !.started = TRUE]
<1>1. insp \in Row
  BY DEF TypeOK
<1>2. /\ row \in Row /\ row.status = "IN_PROGRESS"
      /\ row.inspector = insp.inspector /\ row.reviewer = insp.reviewer
      /\ row.submissionCount = insp.submissionCount
  BY <1>1, TransitionsLandOnStatuses DEF Row, Statuses
<1>3. Update(row)
  BY DEF StartCommit
<1> HIDE DEF row
<1>4. QED
  BY <1>1, <1>2, <1>3, UpdatedColumns

\* The columns that a submission leaves.
LEMMA SubmitColumns ==
  ASSUME TypeOK, NEW r \in Requests, SubmitCommit(r)
  PROVE  LET q == requests[r]
         IN  /\ insp'.status = TRANSITIONS[SubmitAction(q.seen)].to
             /\ insp'.inspector = insp.inspector
             /\ insp'.reviewer = insp.reviewer
             /\ insp'.submissionCount = q.seen.submissionCount + 1
<1> DEFINE q == requests[r]
           next == TRANSITIONS[SubmitAction(q.seen)].to
           round == q.seen.submissionCount + 1
           row == [insp EXCEPT !.status = next, !.submissionCount = round]
<1>1. q \in Request /\ insp \in Row
  BY DEF TypeOK
<1>2. next \in Statuses
  BY SubmissionsLand DEF Statuses
<1>3. round \in Nat
  BY <1>1 DEF Request, SeenRow
<1>4. Update(row)
  BY DEF SubmitCommit
<1> HIDE DEF next, round
<1>5. /\ row \in Row /\ row.status = next
      /\ row.inspector = insp.inspector /\ row.reviewer = insp.reviewer
      /\ row.submissionCount = round
  BY <1>1, <1>2, <1>3 DEF Row
<1> HIDE DEF row
<1>6. QED
  BY <1>1, <1>4, <1>5, UpdatedColumns DEF next, round

\* The columns that a decision leaves.
LEMMA DecideColumns ==
  ASSUME TypeOK, NEW r \in Requests, DecideCommit(r)
  PROVE  LET q == requests[r]
         IN  /\ insp'.status = TRANSITIONS[DecisionAction[q.op]].to
             /\ insp'.inspector = insp.inspector
             /\ insp'.reviewer = q.user
             /\ insp'.submissionCount = insp.submissionCount
<1> DEFINE q == requests[r]
           next == TRANSITIONS[DecisionAction[q.op]].to
           row == [insp EXCEPT !.status = next, !.reviewer = q.user,
                               !.approved = IF q.op = "approve" THEN TRUE
                                            ELSE insp.approved]
<1>1. q \in Request /\ insp \in Row
  BY DEF TypeOK
<1>2. next \in Statuses
  BY DecisionsLand DEF Statuses, DecideCommit
<1>3. q.user \in People
  BY <1>1 DEF Request
<1>4. Update(row)
  BY DEF DecideCommit
<1> HIDE DEF next
<1>5. /\ row \in Row /\ row.status = next
      /\ row.inspector = insp.inspector /\ row.reviewer = q.user
      /\ row.submissionCount = insp.submissionCount
  BY <1>1, <1>2, <1>3 DEF Row
<1> HIDE DEF row
<1>6. QED
  BY <1>1, <1>4, <1>5, UpdatedColumns DEF next

\* The columns that a report leaves.
LEMMA ReportColumns ==
  ASSUME TypeOK, NEW r \in Requests, GenerateCommit(r)
  PROVE  /\ insp'.status = "REPORT_GENERATED"
         /\ insp'.inspector = insp.inspector
         /\ insp'.reviewer = insp.reviewer
         /\ insp'.submissionCount = insp.submissionCount
<1> DEFINE row == [insp EXCEPT !.status = "REPORT_GENERATED"]
<1>1. insp \in Row
  BY DEF TypeOK
<1>2. /\ row \in Row /\ row.status = "REPORT_GENERATED"
      /\ row.inspector = insp.inspector /\ row.reviewer = insp.reviewer
      /\ row.submissionCount = insp.submissionCount
  BY <1>1 DEF Row, Statuses
<1>3. \/ Update(row)
      \/ UNCHANGED insp /\ insp.status = "REPORT_GENERATED"
  BY DEF GenerateCommit
<1> HIDE DEF row
<1>4. QED
  BY <1>1, <1>2, <1>3, UpdatedColumns

\* An edit of the content or of the review leaves the columns alone.
LEMMA EditColumns ==
  ASSUME TypeOK, NEW r \in Requests, ContentCommit(r) \/ ReviewEditCommit(r)
  PROVE  /\ insp'.status = insp.status
         /\ insp'.inspector = insp.inspector
         /\ insp'.reviewer = insp.reviewer
         /\ insp'.submissionCount = insp.submissionCount
<1>1. insp \in Row /\ Update(insp)
  BY DEF TypeOK, ContentCommit, ReviewEditCommit
<1>2. QED
  BY <1>1, UpdatedColumns

\* What the one request in flight has judged.
LEMMA TheRequestIsCurrent ==
  ASSUME SerialInv, NEW r \in Requests
  PROVE  /\ TypeOK /\ Standing /\ Attested
         /\ requests[r] \in Request /\ Current(requests[r])
         /\ InFlight(requests[r], insp.submissionCount, everSettled)
         /\ insp \in Row
BY DEF SerialInv, SerialState, IInv, RequestsInFlight, TypeOK

\* A request that commits and is gone.
LEMMA FinishIsCurrent ==
  ASSUME OneAtATime, TypeOK, NEW r \in Requests, Finish(r)
  PROVE  \A x \in Requests : Current(requests[x])'
BY EndedRequestIsCurrent DEF Finish

\* Work that is handed out or begun has nothing presented for review.
LEMMA BeginningsKeepSerial ==
  ASSUME OneAtATime, SerialInv, NEW r \in Requests,
         AssignCommit(r) \/ StartCommit(r)
  PROVE  SerialState'
<1>1. insp'.status \in {"ASSIGNED", "IN_PROGRESS"}
  BY AssignColumns, StartColumns, TheRequestIsCurrent
<1>2. \A x \in Requests : Current(requests[x])'
  BY FinishIsCurrent, TheRequestIsCurrent DEF AssignCommit, StartCommit
<1>3. QED
  BY <1>1, <1>2
  DEF SerialState, Standing, Attested, Presented, REVIEW_QUEUE_STATUSES,
      CorrectionsMatchStatus, ApprovalIsJustified, NobodyReviewsTheirOwnWork,
      ReviewedContentIsAttested

\* Content is recorded only while the work is with its inspector; an
\* administrator's correction spares what was approved.
LEMMA ContentKeepsSerial ==
  ASSUME OneAtATime, SerialInv, NEW r \in Requests, ContentCommit(r)
  PROVE  SerialState'
<1> DEFINE q == requests[r]
<1>1. /\ Standing /\ Attested /\ Current(q) /\ TypeOK
      /\ insp'.status = insp.status /\ insp'.inspector = insp.inspector
      /\ insp'.reviewer = insp.reviewer
      /\ insp'.submissionCount = insp.submissionCount
      /\ UNCHANGED <<workspace, snapshots, openCorrections, attestedBy>>
  BY EditColumns, TheRequestIsCurrent DEF ContentCommit
<1>2. \/ insp.status \in EDITABLE_STATUSES
      \/ Admins # {} /\ insp.status \notin {"APPROVED", "REPORT_GENERATED"}
  BY <1>1 DEF ContentCommit, Current, CurrentWork
<1>3. Standing'
  BY <1>1, <1>2
  DEF Standing, CorrectionsMatchStatus, ApprovalIsJustified,
      NobodyReviewsTheirOwnWork, EDITABLE_STATUSES
<1>4. Attested'
  BY <1>1, <1>2
  DEF Attested, ReviewedContentIsAttested, EDITABLE_STATUSES,
      REVIEW_QUEUE_STATUSES
<1>5. QED
  BY <1>1, <1>3, <1>4, FinishIsCurrent DEF ContentCommit, SerialState

\* A submission takes up the content as it is and resolves every correction.
LEMMA SubmissionKeepsSerial ==
  ASSUME OneAtATime, SerialInv, NEW r \in Requests, SubmitCommit(r)
  PROVE  SerialState'
<1> DEFINE q == requests[r]
           round == q.seen.submissionCount + 1
<1>1. /\ Standing /\ Current(q) /\ TypeOK
      /\ insp'.status \in {"SUBMITTED", "RESUBMITTED"}
      /\ insp'.inspector = insp.inspector
      /\ insp'.submissionCount = round
  BY SubmitColumns, SubmissionsLand, TheRequestIsCurrent
<1>2. /\ snapshots' = snapshots \cup {[round |-> round, payload |-> q.content]}
      /\ openCorrections' = {} /\ attestedBy' = q.user
      /\ content' = content /\ Finish(r)
  BY DEF SubmitCommit, ResolveCorrections
<1>3. q.content = content /\ insp.inspector = q.user
  BY <1>1 DEF SubmitCommit, At, Current, CurrentWork
<1>4. Standing'
  BY <1>1, <1>2, <1>3
  DEF Standing, CorrectionsMatchStatus, ApprovalIsJustified,
      NobodyReviewsTheirOwnWork
<1>5. Attested'
  BY <1>1, <1>2, <1>3 DEF Attested, ReviewedContentIsAttested
<1>6. QED
  BY <1>1, <1>2, <1>4, <1>5, FinishIsCurrent DEF SerialState

\* A decision is taken by someone else, on work without open corrections.
LEMMA DecisionKeepsSerial ==
  ASSUME OneAtATime, SerialInv, NEW r \in Requests, DecideCommit(r)
  PROVE  SerialState'
<1> DEFINE q == requests[r]
<1>1. /\ Standing /\ Attested /\ Current(q) /\ TypeOK /\ q \in Request
      /\ q.op \in Decisions /\ q.step = "ready"
      /\ insp'.inspector = insp.inspector
      /\ insp'.reviewer = q.user
      /\ insp'.submissionCount = insp.submissionCount
  BY DecideColumns, TheRequestIsCurrent DEF DecideCommit
<1>2. insp'.status = TRANSITIONS[DecisionAction[q.op]].to
  BY <1>1, DecideColumns
<1>3. UNCHANGED <<content, workspace, snapshots, attestedBy>>
  BY DEF DecideCommit
<1>4. /\ insp.status \in REVIEW_QUEUE_STATUSES /\ insp.inspector # q.user
      /\ q.user \in Users
  BY <1>1, TransitionsStartFrom
  DEF Current, CurrentRow, CurrentReview, Decisions, DecisionAction,
      REVIEW_QUEUE_STATUSES
<1>5. /\ openCorrections = {} /\ attestedBy = insp.inspector
  BY <1>1, <1>4 DEF Standing, Presented, REVIEW_QUEUE_STATUSES
<1>6. CASE q.op = "approve"
  <2>1. insp'.status = "APPROVED" /\ openCorrections' = {}
    BY <1>2, <1>5, <1>6, TransitionsLandOnStatuses
    DEF DecideCommit, DecisionAction
  <2>2. {"risk", "conclusion"} \subseteq workspace
        /\ RequiredParts \subseteq workspace
    BY <1>1, <1>6 DEF Current, CurrentReview
  <2>3. ApprovalIsJustified'
    BY <1>3, <2>1, <2>2
    DEF ApprovalIsJustified, RequiredParts, ReviewParts
  <2>4. Standing'
    BY <1>1, <1>3, <1>4, <1>5, <2>1, <2>3
    DEF Standing, CorrectionsMatchStatus, NobodyReviewsTheirOwnWork,
        REVIEW_QUEUE_STATUSES
  <2>5. PICK e \in Request :
          /\ requests' = [requests EXCEPT ![r] = e]
          /\ e.op = "approve" /\ e.step = "approved" /\ e.user = q.user
    <3> DEFINE e == [Idle EXCEPT !.op = "approve", !.step = "approved",
                                 !.user = q.user]
    <3>1. /\ e \in Request
          /\ e.op = "approve" /\ e.step = "approved" /\ e.user = q.user
      BY <1>1, IdleIsRequest
      DEF Request, AllOperations, Decisions, Steps
    <3>2. requests' = [requests EXCEPT ![r] = e]
      BY <1>6 DEF DecideCommit
    <3> HIDE DEF e
    <3>3. QED
      BY <3>1, <3>2
  <2>6. \A x \in Requests : Current(requests[x])'
    BY <1>1, <1>4, <2>5, EndedRequestIsCurrent
  <2>7. Attested'
    BY <1>1, <1>3, <1>4 DEF Attested, ReviewedContentIsAttested
  <2>8. QED
    BY <2>4, <2>6, <2>7 DEF SerialState
<1>7. CASE q.op # "approve"
  <2>1. /\ insp'.status \in {"UNDER_REVIEW", "REJECTED", "CORRECTION_REQUESTED"}
        /\ insp'.status = "CORRECTION_REQUESTED" <=>
             q.op = "requestCorrection"
    BY <1>1, <1>2, <1>7, TransitionsLandOnStatuses DEF Decisions, DecisionAction
  <2>2. /\ Finish(r)
        /\ q.op = "requestCorrection" => openCorrections' # {}
        /\ q.op # "requestCorrection" => openCorrections' = {}
    BY <1>5, <1>7 DEF DecideCommit
  <2>3. Standing'
    BY <1>1, <1>3, <1>4, <1>5, <2>1, <2>2
    DEF Standing, CorrectionsMatchStatus, ApprovalIsJustified, Presented,
        NobodyReviewsTheirOwnWork, REVIEW_QUEUE_STATUSES
  <2>4. Attested'
    BY <1>1, <1>3, <1>4 DEF Attested, ReviewedContentIsAttested
  <2>5. QED
    BY <1>1, <2>2, <2>3, <2>4, FinishIsCurrent DEF SerialState
<1>8. QED
  BY <1>6, <1>7

\* A report is made of what was approved.
LEMMA ReportKeepsSerial ==
  ASSUME OneAtATime, SerialInv, NEW r \in Requests, GenerateCommit(r)
  PROVE  SerialState'
<1>1. /\ Standing /\ Attested /\ Current(requests[r]) /\ TypeOK
      /\ insp'.status = "REPORT_GENERATED"
      /\ insp'.inspector = insp.inspector
      /\ insp'.submissionCount = insp.submissionCount
      /\ UNCHANGED <<content, workspace, snapshots, openCorrections,
                     attestedBy>>
      /\ Finish(r)
  BY ReportColumns, TheRequestIsCurrent DEF GenerateCommit
<1>2. insp.status \in {"APPROVED", "REPORT_GENERATED"}
  BY <1>1 DEF GenerateCommit, At, Current, CurrentReview
<1>3. Standing'
  BY <1>1, <1>2
  DEF Standing, CorrectionsMatchStatus, ApprovalIsJustified, Presented,
      NobodyReviewsTheirOwnWork, REVIEW_QUEUE_STATUSES
<1>4. Attested'
  BY <1>1, <1>2 DEF Attested, ReviewedContentIsAttested
<1>5. QED
  BY <1>1, <1>3, <1>4, FinishIsCurrent DEF SerialState

\* The review is edited only while no approval rests on it.
LEMMA ReviewEditKeepsSerial ==
  ASSUME OneAtATime, SerialInv, NEW r \in Requests, ReviewEditCommit(r)
  PROVE  SerialState'
<1>1. /\ Standing /\ Attested /\ Current(requests[r]) /\ TypeOK
      /\ insp'.status = insp.status /\ insp'.inspector = insp.inspector
      /\ insp'.reviewer = insp.reviewer
      /\ insp'.submissionCount = insp.submissionCount
      /\ UNCHANGED <<content, snapshots, openCorrections, attestedBy>>
      /\ Finish(r)
  BY EditColumns, TheRequestIsCurrent DEF ReviewEditCommit
<1>2. insp.status \in REVIEW_QUEUE_STATUSES
  BY <1>1 DEF ReviewEditCommit, Current, CurrentReview
<1>3. Standing'
  BY <1>1, <1>2
  DEF Standing, CorrectionsMatchStatus, ApprovalIsJustified,
      NobodyReviewsTheirOwnWork, REVIEW_QUEUE_STATUSES
<1>4. Attested'
  BY <1>1 DEF Attested, ReviewedContentIsAttested
<1>5. QED
  BY <1>1, <1>3, <1>4, FinishIsCurrent DEF SerialState

-----------------------------------------------------------------------------
(* The invariant *)

\* SerialInv holds of an inspection as create leaves it.
LEMMA InitSerial == Init => SerialInv
<1> SUFFICES ASSUME Init
             PROVE  SerialState
  BY InitIInv DEF SerialInv
<1>1. insp.status = "ASSIGNED"
  BY DEF Init
<1>2. Standing /\ Attested
  BY <1>1
  DEF Standing, Attested, Presented, REVIEW_QUEUE_STATUSES,
      CorrectionsMatchStatus, ApprovalIsJustified, NobodyReviewsTheirOwnWork,
      ReviewedContentIsAttested
<1>3. ASSUME NEW r \in Requests
      PROVE  Current(requests[r])
  <2>1. requests[r].op = "none"
    BY DEF Init, Idle
  <2>2. QED
    BY <2>1
    DEF Current, CurrentRow, CurrentWork, CurrentReview, ContentOperations,
        Decisions, ReviewEdits, UnclaimedReviewEdits, ClaimedReviewEdits,
        JudgedOps
<1>4. QED
  BY <1>2, <1>3 DEF SerialState

\* Nothing of the inspection changes, and no request moves.
LEMMA StutterKeepsSerial ==
  ASSUME SerialInv, UNCHANGED <<data, requests>>
  PROVE  SerialState'
<1> USE DEF data
<1>1. Standing' /\ Attested'
  BY DEF SerialInv, SerialState, Standing, CorrectionsMatchStatus,
         ApprovalIsJustified, NobodyReviewsTheirOwnWork, Attested,
         ReviewedContentIsAttested
<1>2. \A r \in Requests : Current(requests[r])'
  BY DEF SerialInv, SerialState, Current, CurrentRow, CurrentWork,
         CurrentReview, Seen, RequiredParts
<1>3. QED
  BY <1>1, <1>2 DEF SerialState

\* SerialInv is inductive when requests do not overlap.
LEMMA StepKeepsSerial ==
  ASSUME OneAtATime
  PROVE  SerialInv /\ [Next]_vars => SerialInv'
<1> SUFFICES ASSUME SerialInv, [Next]_vars
             PROVE  SerialState'
  BY StepKeepsIInv DEF SerialInv
<1>1. ASSUME NEW r \in Requests, RequestStep(r)
      PROVE  SerialState'
  <2>1. CASE Arrive(r) \/ ReadAgain(r)
    BY <2>1, ArriveKeepsSerial, ReadAgainKeepsSerial
  <2>2. CASE Commit(r)
    BY <2>2, BeginningsKeepSerial, ContentKeepsSerial, SubmissionKeepsSerial,
       DecisionKeepsSerial, ReportKeepsSerial, ReviewEditKeepsSerial
    DEF Commit
  <2>3. CASE Abandon(r)
    <3>1. Current(Idle)
      BY DEF Idle, Current, CurrentRow, CurrentWork, CurrentReview,
             ContentOperations, Decisions, ReviewEdits, UnclaimedReviewEdits,
             ClaimedReviewEdits, JudgedOps
    <3>2. QED
      BY <2>3, <3>1, ReadKeepsSerial, TheRequestIsCurrent DEF Abandon, Finish
  <2>4. QED
    BY <1>1, <2>1, <2>2, <2>3 DEF RequestStep
<1>2. CASE PaymentsServiceWrites \/ UNCHANGED vars
  BY <1>2, StutterKeepsSerial DEF PaymentsServiceWrites, vars, data
<1>3. QED
  BY <1>1, <1>2 DEF Next

(***************************************************************************)
(* One request at a time, what every handler has judged is still so when   *)
(* it commits, and the database keeps what Standing says.                  *)
(***************************************************************************)
THEOREM SerialInvariant ==
  ASSUME OneAtATime
  PROVE  Spec => []SerialInv
BY InitSerial, StepKeepsSerial, PTL DEF Spec

(***************************************************************************)
(* What an approval rests on is there when it takes effect and stays: no   *)
(* edit of the review, and no administrator's edit, reaches approved work. *)
(***************************************************************************)
THEOREM ApprovalsAreJustified ==
  ASSUME OneAtATime
  PROVE  Spec => []ApprovalIsJustified
<1>1. SerialInv => ApprovalIsJustified
  BY DEF SerialInv, SerialState, Standing
<1>2. QED
  BY <1>1, SerialInvariant, PTL

(***************************************************************************)
(* Work with the reviewer has no outstanding correction, and work sent     *)
(* back has one: submit resolves all, requestCorrection adds one.          *)
(***************************************************************************)
THEOREM CorrectionsFollowTheStatus ==
  ASSUME OneAtATime
  PROVE  Spec => []CorrectionsMatchStatus
<1>1. SerialInv => CorrectionsMatchStatus
  BY DEF SerialInv, SerialState, Standing
<1>2. QED
  BY <1>1, SerialInvariant, PTL

(***************************************************************************)
(* Without administrators, what is reviewed, approved and reported is what *)
(* the inspector attested to when submitting it the last time.             *)
(***************************************************************************)
THEOREM AttestedContentIsReviewed ==
  ASSUME OneAtATime, Admins = {}
  PROVE  Spec => []ReviewedContentIsAttested
<1>1. SerialInv => ReviewedContentIsAttested
  BY DEF SerialInv, SerialState, Attested
<1>2. QED
  BY <1>1, SerialInvariant, PTL

(***************************************************************************)
(* Separation of duties: whoever took the newest decision did not submit   *)
(* the work, although decide judges by inspectorId and not by the actor of *)
(* the submission.                                                         *)
(***************************************************************************)
THEOREM DutiesAreSeparate ==
  ASSUME OneAtATime
  PROVE  Spec => []NobodyReviewsTheirOwnWork
<1>1. SerialInv => NobodyReviewsTheirOwnWork
  BY DEF SerialInv, SerialState, Standing
<1>2. QED
  BY <1>1, SerialInvariant, PTL

-----------------------------------------------------------------------------
(* The chain of status events *)

\* Only a commit of a handler that judged a status moves it.
LEMMA StatusMovesByCommit ==
  ASSUME TypeOK, [Next]_vars, insp'.status # insp.status
  PROVE  \E r \in Requests :
           \/ AssignCommit(r) \/ StartCommit(r) \/ SubmitCommit(r)
           \/ DecideCommit(r) \/ GenerateCommit(r)
<1>1. PICK r \in Requests : RequestStep(r)
  BY DEF Next, PaymentsServiceWrites, vars, data
<1>2. ~ (Arrive(r) \/ ReadAgain(r) \/ Abandon(r))
  BY DEF Arrive, AssignRead, StartRead, SaveContentRead, CaptureLocationRead,
         UploadPhotoRead, RemovePhotoRead, SyncPushRead, AdminSaveRead,
         SubmitRead, BeginReviewRead, ApproveRead, RejectRead,
         RequestCorrectionRead, DecideRead, GenerateRead, ReviewEditRead,
         ClaimedEditRead, MapEditRead, Receive, ReadAgain, StartReadFee,
         SubmitReadContent, ApproveReadReview, ApproveReadRequirements,
         ApproveThenGenerate, RemoveMapReadImage, Proceed, Abandon, data
<1>3. ~ (ContentCommit(r) \/ ReviewEditCommit(r))
  BY EditColumns
<1>4. QED
  BY <1>1, <1>2, <1>3 DEF RequestStep, Commit

(***************************************************************************)
(* One request at a time, the newest status event says where the status    *)
(* really came from and where it went.                                     *)
(***************************************************************************)
THEOREM StatusEventsChain ==
  ASSUME OneAtATime
  PROVE  Spec => StatusEventsFormAChain
<1>1. ASSUME SerialInv, [Next]_vars, insp'.status # insp.status
      PROVE  lastEvent' = [from |-> insp.status, to |-> insp'.status]
  <2>1. PICK r \in Requests :
          \/ AssignCommit(r) \/ StartCommit(r) \/ SubmitCommit(r)
          \/ DecideCommit(r) \/ GenerateCommit(r)
    BY <1>1, StatusMovesByCommit DEF SerialInv, IInv
  <2>2. TypeOK /\ Current(requests[r])
    BY <1>1, TheRequestIsCurrent
  <2>3. requests[r].seen.status = insp.status
    BY <2>1, <2>2
    DEF Current, CurrentRow, JudgedOps, Decisions, Seen, At, AssignCommit,
        StartCommit, SubmitCommit, DecideCommit, GenerateCommit
  <2>4. CASE AssignCommit(r)
    BY <2>2, <2>3, <2>4, AssignColumns DEF AssignCommit, LogEvent
  <2>5. CASE StartCommit(r)
    BY <2>2, <2>3, <2>5, StartColumns, TransitionsLandOnStatuses
    DEF StartCommit, LogEvent
  <2>6. CASE SubmitCommit(r)
    BY <2>2, <2>3, <2>6, SubmitColumns DEF SubmitCommit, LogEvent
  <2>7. CASE DecideCommit(r)
    BY <2>2, <2>3, <2>7, DecideColumns DEF DecideCommit, LogEvent
  <2>8. CASE GenerateCommit(r)
    BY <1>1, <2>2, <2>3, <2>8, ReportColumns DEF GenerateCommit, LogEvent
  <2>9. QED
    BY <2>1, <2>4, <2>5, <2>6, <2>7, <2>8
<1>2. SerialInv /\ [Next]_vars
      => [insp'.status # insp.status =>
            lastEvent' = [from |-> insp.status, to |-> insp'.status]]_vars
  BY <1>1
<1>3. QED
  BY <1>2, SerialInvariant, PTL DEF Spec, StatusEventsFormAChain

-----------------------------------------------------------------------------
(* The refinement *)

\* The parts of the table's rules that the refinement uses.
LEMMA RulesOfTheTable ==
  /\ TRANSITIONS.ASSIGN.permission = "inspections.assign"
  /\ TRANSITIONS.ASSIGN.to = "ASSIGNED"
  /\ TRANSITIONS.REASSIGN.permission = "inspections.assign"
  /\ TRANSITIONS.REASSIGN.from = Reassignable
  /\ TRANSITIONS.REASSIGN.to = "ASSIGNED"
  /\ TRANSITIONS.START.from = {"ASSIGNED"}
  /\ TRANSITIONS.START.permission = "inspections.write"
  /\ TRANSITIONS.SUBMIT.permission = "inspections.write"
  /\ TRANSITIONS.RESUBMIT.permission = "inspections.write"
  /\ TRANSITIONS.GENERATE_REPORT.permission = "reports.generate"
  /\ TRANSITIONS.GENERATE_REPORT.to = "REPORT_GENERATED"
BY DEF TRANSITIONS, PlainRule, Reassignable

\* The lifecycle moves by the same table.
LEMMA SameTable == Lifecycle!TRANSITIONS = TRANSITIONS
BY DEF Lifecycle!TRANSITIONS, TRANSITIONS, Lifecycle!PlainRule, PlainRule,
       Lifecycle!REVIEW_QUEUE_STATUSES, REVIEW_QUEUE_STATUSES

\* Every decision asks for the same permission.
LEMMA DecisionsNeedThePermission ==
  /\ TRANSITIONS.BEGIN_REVIEW.permission = "reviews.decide"
  /\ TRANSITIONS.APPROVE.permission = "reviews.decide"
  /\ TRANSITIONS.REJECT.permission = "reviews.decide"
  /\ TRANSITIONS.REQUEST_CORRECTION.permission = "reviews.decide"
BY DEF TRANSITIONS, PlainRule

\* A step that leaves what the lifecycle tells of is a stutter of it.
LEMMA LifecycleStutter ==
  ASSUME insp'.status = insp.status, insp'.inspector = insp.inspector,
         insp'.reviewer = insp.reviewer,
         insp'.submissionCount = insp.submissionCount,
         UNCHANGED <<attestedBy, everSettled>>
  PROVE  UNCHANGED Lifecycle!vars
BY DEF Lifecycle!vars

\* An assignment is judged by ASSIGN or REASSIGN; either is a REASSIGN here.
LEMMA AssigningIsAssign ==
  ASSUME SerialInv, NEW r \in Requests, AssignCommit(r)
  PROVE  Lifecycle!Assign
<1> DEFINE q == requests[r]
<1>1. /\ q.op = "assign" /\ Current(q) /\ insp'.status = "ASSIGNED"
      /\ insp'.inspector = q.target /\ insp'.reviewer \in People
      /\ insp'.submissionCount = insp.submissionCount
  BY AssignColumns, TheRequestIsCurrent DEF AssignCommit, At
<1>2. /\ insp.status \in Reassignable /\ q.target \in Inspectors
      /\ SomebodyMay("inspections.assign")
  BY <1>1 DEF Current, CurrentWork
<1>3. \E u \in Users : Lifecycle!Move("REASSIGN", u)
  BY <1>1, <1>2, SameTable, RulesOfTheTable
  DEF SomebodyMay, Lifecycle!Move, Lifecycle!Holds
<1>4. insp'.inspector \in {u \in Users : Lifecycle!Holds(u, "SUBMIT")}
  BY <1>1, <1>2, SameTable, RulesOfTheTable DEF Inspectors, Lifecycle!Holds
<1>5. QED
  BY <1>1, <1>3, <1>4 DEF Lifecycle!Assign, AssignCommit, People, fees

\* A start that was permitted was paid for.
LEMMA StartingIsStart ==
  ASSUME SerialInv, NEW r \in Requests, StartCommit(r)
  PROVE  Lifecycle!Start
<1> DEFINE q == requests[r]
<1>1. /\ q.op = "start" /\ q.step = "ready" /\ Current(q)
      /\ everSettled /\ insp'.status = "IN_PROGRESS"
      /\ insp'.inspector = insp.inspector /\ insp'.reviewer = insp.reviewer
      /\ insp'.submissionCount = insp.submissionCount
  BY StartColumns, TheRequestIsCurrent DEF StartCommit, At, InFlight
<1>2. /\ insp.status = "ASSIGNED" /\ insp.inspector = q.user
      /\ "inspections.write" \in PermissionsOf[q.user] /\ q.user \in Users
  BY <1>1 DEF Current, CurrentRow, CurrentWork
<1>3. Lifecycle!Move("START", insp.inspector)
  BY <1>1, <1>2, SameTable, RulesOfTheTable, TransitionsLandOnStatuses
  DEF Lifecycle!Move, Lifecycle!Holds
<1>4. insp.inspector # NoUser
  BY <1>2, WorkflowAssumption
<1>5. QED
  BY <1>1, <1>3, <1>4 DEF Lifecycle!Start, StartCommit, fees

\* A submission is a SUBMIT or a RESUBMIT, as the status has it.
LEMMA SubmittingIsSubmit ==
  ASSUME SerialInv, NEW r \in Requests, SubmitCommit(r)
  PROVE  Lifecycle!Submit
<1> DEFINE q == requests[r]
           action == SubmitAction(q.seen)
<1>1. /\ q.op = "submit" /\ q.step = "ready" /\ Current(q)
      /\ insp'.status = TRANSITIONS[action].to
      /\ insp'.inspector = insp.inspector /\ insp'.reviewer = insp.reviewer
      /\ insp'.submissionCount = q.seen.submissionCount + 1
  BY SubmitColumns, TheRequestIsCurrent DEF SubmitCommit, At
<1>2. /\ insp.status \in EDITABLE_STATUSES /\ insp.inspector = q.user
      /\ "inspections.write" \in PermissionsOf[q.user] /\ q.user \in Users
      /\ q.seen = Seen
  BY <1>1 DEF Current, CurrentRow, CurrentWork, JudgedOps
<1>3. /\ q.seen.status = insp.status
      /\ q.seen.submissionCount = insp.submissionCount
  BY <1>2 DEF Seen
<1>4. CASE insp.status = "IN_PROGRESS"
  <2>1. action = "SUBMIT"
    BY <1>3, <1>4 DEF SubmitAction
  <2>2. Lifecycle!Move("SUBMIT", insp.inspector)
    BY <1>1, <1>2, <1>4, <2>1, SameTable, RulesOfTheTable, TransitionsStartFrom
    DEF Lifecycle!Move, Lifecycle!Holds
  <2>3. QED
    BY <1>1, <1>2, <1>3, <2>2, WorkflowAssumption
    DEF Lifecycle!Submit, SubmitCommit, fees
<1>5. CASE insp.status = "CORRECTION_REQUESTED"
  <2>1. action = "RESUBMIT"
    BY <1>3, <1>5 DEF SubmitAction
  <2>2. Lifecycle!Move("RESUBMIT", insp.inspector)
    BY <1>1, <1>2, <1>5, <2>1, SameTable, RulesOfTheTable, TransitionsStartFrom
    DEF Lifecycle!Move, Lifecycle!Holds
  <2>3. QED
    BY <1>1, <1>2, <1>3, <2>2, WorkflowAssumption
    DEF Lifecycle!Submit, SubmitCommit, fees
<1>6. QED
  BY <1>2, <1>4, <1>5 DEF EDITABLE_STATUSES

\* A decision is the rule's move, by someone who did not do the work.
LEMMA DecidingIsDecide ==
  ASSUME SerialInv, NEW r \in Requests, DecideCommit(r)
  PROVE  Lifecycle!Decide
<1> DEFINE q == requests[r]
           action == DecisionAction[q.op]
<1>1. /\ q.op \in Decisions /\ q.step = "ready" /\ Current(q) /\ Standing
      /\ insp'.status = TRANSITIONS[action].to
      /\ insp'.inspector = insp.inspector /\ insp'.reviewer = q.user
      /\ insp'.submissionCount = insp.submissionCount
  BY DecideColumns, TheRequestIsCurrent DEF DecideCommit
<1>2. /\ insp.status \in TRANSITIONS[action].from
      /\ insp.inspector # q.user /\ q.user \in Users
      /\ "reviews.decide" \in PermissionsOf[q.user]
      /\ q.op = "approve" => insp.reviewer = q.user
  <2>1. q.op # "none"
    BY <1>1 DEF Decisions
  <2>2. QED
    BY <1>1, <2>1 DEF Current, CurrentRow, CurrentReview
<1>3. /\ action \in {"BEGIN_REVIEW", "APPROVE", "REJECT",
                     "REQUEST_CORRECTION"}
      /\ action = "APPROVE" => q.op = "approve"
      /\ TRANSITIONS[action].permission = "reviews.decide"
      /\ TRANSITIONS[action].from \subseteq REVIEW_QUEUE_STATUSES
  BY <1>1, TransitionsStartFrom, DecisionsNeedThePermission
  DEF Decisions, DecisionAction, REVIEW_QUEUE_STATUSES
<1>4. attestedBy = insp.inspector
  BY <1>1, <1>2, <1>3 DEF Standing, REVIEW_QUEUE_STATUSES
<1>5. Lifecycle!Move(action, q.user)
  BY <1>1, <1>2, <1>3, SameTable DEF Lifecycle!Move, Lifecycle!Holds
<1> HIDE DEF action
<1>6. q.user \in Users \ {insp.inspector, attestedBy}
  BY <1>2, <1>4
<1>7. QED
  BY <1>1, <1>2, <1>3, <1>5, <1>6 DEF Lifecycle!Decide, DecideCommit, fees

\* A report moves the status the first time and repeats it afterwards.
LEMMA ReportingIsReport ==
  ASSUME SerialInv, NEW r \in Requests, GenerateCommit(r)
  PROVE  Lifecycle!Report
<1>1. /\ insp'.status = "REPORT_GENERATED"
      /\ insp'.inspector = insp.inspector /\ insp'.reviewer = insp.reviewer
      /\ insp'.submissionCount = insp.submissionCount
      /\ UNCHANGED <<attestedBy, everSettled>>
      /\ Current(requests[r]) /\ requests[r].op = "generateReport"
  BY ReportColumns, TheRequestIsCurrent DEF GenerateCommit, At, fees
<1>2. /\ insp.status \in {"APPROVED", "REPORT_GENERATED"}
      /\ SomebodyMay("reports.generate")
  BY <1>1 DEF Current, CurrentReview
<1>3. QED
  BY <1>1, <1>2, SameTable, RulesOfTheTable, TransitionsStartFrom
  DEF Lifecycle!Report, Lifecycle!Move, Lifecycle!Holds, SomebodyMay

(***************************************************************************)
(* When its requests do not overlap, an inspection lives the life that the *)
(* table of transitions promises: every step is one whole rule, taken by   *)
(* someone entitled to it, or leaves the lifecycle alone.                  *)
(***************************************************************************)
THEOREM WorkflowImplementsLifecycle ==
  ASSUME OneAtATime
  PROVE  Spec => LifecycleSpec
<1>1. Init => Lifecycle!Init
  <2> SUFFICES ASSUME Init
               PROVE  Lifecycle!Init
    OBVIOUS
  <2>1. TypeOK
    BY InitTypes
  <2>2. QED
    BY <2>1 DEF Init, Lifecycle!Init, TypeOK, Row, People
<1>2. SerialInv /\ [Next]_vars => [Lifecycle!Next]_(Lifecycle!vars)
  <2> SUFFICES ASSUME SerialInv, [Next]_vars
               PROVE  [Lifecycle!Next]_(Lifecycle!vars)
    OBVIOUS
  <2>1. ASSUME NEW r \in Requests, Arrive(r) \/ ReadAgain(r) \/ Abandon(r)
        PROVE  UNCHANGED Lifecycle!vars
    <3>1. UNCHANGED <<data, fees>>
      BY <2>1
      DEF Arrive, AssignRead, StartRead, SaveContentRead, CaptureLocationRead,
          UploadPhotoRead, RemovePhotoRead, SyncPushRead, AdminSaveRead,
          SubmitRead, BeginReviewRead, ApproveRead, RejectRead,
          RequestCorrectionRead, DecideRead, GenerateRead, ReviewEditRead,
          ClaimedEditRead, MapEditRead, Receive, ReadAgain, StartReadFee,
          SubmitReadContent, ApproveReadReview, ApproveReadRequirements,
          ApproveThenGenerate, RemoveMapReadImage, Proceed, Abandon
    <3>2. QED
      BY <3>1, LifecycleStutter DEF data, fees
  <2>2. ASSUME NEW r \in Requests, ContentCommit(r) \/ ReviewEditCommit(r)
        PROVE  UNCHANGED Lifecycle!vars
    BY <2>2, EditColumns, LifecycleStutter, TheRequestIsCurrent
    DEF ContentCommit, ReviewEditCommit, fees
  <2>3. CASE PaymentsServiceWrites
    <3>1. UNCHANGED <<insp, attestedBy>>
      BY <2>3 DEF PaymentsServiceWrites, data
    <3>2. everSettled' = everSettled \/ everSettled' = TRUE
      BY <2>3 DEF PaymentsServiceWrites, SerialInv, IInv, TypeOK
    <3>3. CASE everSettled' = everSettled
      BY <3>1, <3>3, LifecycleStutter
    <3>4. CASE everSettled' = TRUE
      BY <3>1, <3>4 DEF Lifecycle!Next, Lifecycle!Pay
    <3>5. QED
      BY <3>2, <3>3, <3>4
  <2>4. CASE UNCHANGED vars
    BY <2>4, LifecycleStutter DEF vars
  <2>5. QED
    BY <2>1, <2>2, <2>3, <2>4, AssigningIsAssign, StartingIsStart,
       SubmittingIsSubmit, DecidingIsDecide, ReportingIsReport
    DEF Next, RequestStep, Commit, Lifecycle!Next
<1>3. QED
  BY <1>1, <1>2, SerialInvariant, PTL DEF Spec, LifecycleSpec, Lifecycle!Spec

=============================================================================
