------------------------- MODULE InspectionWorkflow -------------------------
(***************************************************************************)
(* The life of one inspection under concurrent HTTP requests.              *)
(*                                                                         *)
(* Every handler of the inspections, reviews, photos, sync and reports     *)
(* services reads the inspection outside its transaction, judges what it   *)
(* read, and then commits a transaction that updates the row by id without *)
(* looking at it again (READ COMMITTED; only the version is incremented in *)
(* place).  A request is therefore modelled in steps: one for each read,   *)
(* with the guard that the code evaluates on what it read, and one for the *)
(* commit, which is atomic.  Requests interleave between those steps.      *)
(*                                                                         *)
(* A refused request, a rolled back transaction and a server that dies     *)
(* between two steps all leave the database alone: Abandon stands for the  *)
(* three.  Branch scoping is not modelled: Users are the people with       *)
(* access to the inspection's branch.  Audit rows and notifications are    *)
(* written in the commits and never read by a handler: they are left out.  *)
(***************************************************************************)
EXTENDS Integers, InspectionStateMachine

CONSTANTS
  Users,           \* the staff who can reach the inspection
  PermissionsOf,   \* the permissions each of them holds
  Admins,          \* those whose role is called "admin"
  Requests,        \* slots for requests the server handles at one time
  Operations,      \* the operations a run offers, out of AllOperations
  Contents,        \* abstract values of what the inspector recorded
  EmptyContent,    \* nothing recorded yet
  Complete,        \* the contents that pass the completeness check
  Improved,        \* those that say the property has a main building
  BaseVersionSent, \* whether clients send a baseVersion: subset of BOOLEAN
  FeeStatuses,     \* the fee statuses the payments service may write
  MaxVersion       \* bound: no request arrives once the version reaches it

ContentOperations ==
  {"saveContent", "captureLocation", "uploadPhoto", "removePhoto", "syncPush"}
DecisionAction ==
  [beginReview |-> "BEGIN_REVIEW", approve |-> "APPROVE",
   reject |-> "REJECT", requestCorrection |-> "REQUEST_CORRECTION"]
Decisions == {"beginReview", "approve", "reject", "requestCorrection"}
UnclaimedReviewEdits == {"addAdjustment", "setRisk", "setConclusion"}
ClaimedReviewEdits ==
  {"saveReviewerValuation", "saveStatusInformation", "uploadMap", "removeMap"}
ReviewEdits == UnclaimedReviewEdits \cup ClaimedReviewEdits
AllOperations ==
  {"assign", "start", "submit", "adminSave", "generateReport"}
    \cup ContentOperations \cup Decisions \cup ReviewEdits

ASSUME WorkflowAssumption ==
  /\ NoUser \notin Users
  /\ PermissionsOf \in [Users -> SUBSET Permissions]
  /\ Admins \subseteq Users
  /\ Operations \subseteq AllOperations
  /\ EmptyContent \in Contents
  /\ Complete \subseteq Contents
  /\ Improved \subseteq Contents
  /\ BaseVersionSent \subseteq BOOLEAN
  /\ MaxVersion \in Nat

\* Who may be given the work (assertInspector).
Inspectors == {u \in Users : "inspections.write" \in PermissionsOf[u]}

VARIABLES
  insp,            \* the inspection row
  content,         \* values, assessments, owner, valuation, photos, locations
  workspace,       \* which parts of the professional review are filled in
  snapshots,       \* the inspection_snapshots rows
  openCorrections, \* rounds of the correction requests not resolved yet
  lastEvent,       \* the newest inspection_status_events row
  feeStatus,       \* the fee row's status, as the fee gate reads it
  requests,        \* what each request slot is doing
  attestedBy,      \* actor of the newest submission event
  everSettled      \* history: whether the fee has ever been SUCCESSFUL

data == <<insp, content, workspace, snapshots, openCorrections, lastEvent,
          attestedBy>>
fees == <<feeStatus, everSettled>>
vars == <<insp, content, workspace, snapshots, openCorrections, lastEvent,
          attestedBy, feeStatus, everSettled, requests>>

People == Users \cup {NoUser}

Row == [status : Statuses, inspector : People, reviewer : People,
        version : Nat, submissionCount : Nat, started : BOOLEAN,
        approved : BOOLEAN]

\* What loadForTransition selects and a later step uses.
SeenRow == [status : Statuses, inspector : People, reviewer : People,
            submissionCount : Nat]

ReviewParts == {"risk", "conclusion", "landAndTotal", "mainBuilding",
                "mapImage", "statusInformation"}

Steps == {"idle", "read", "checked", "ready", "approved"}

Request == [op : AllOperations \cup {"none"}, step : Steps, user : People,
            seen : SeenRow, base : Nat, target : People, reviewer : People,
            content : Contents]

NothingSeen == [status |-> "ASSIGNED", inspector |-> NoUser,
                reviewer |-> NoUser, submissionCount |-> 0]

Idle == [op |-> "none", step |-> "idle", user |-> NoUser,
         seen |-> NothingSeen, base |-> 0, target |-> NoUser,
         reviewer |-> NoUser, content |-> EmptyContent]

TypeOK ==
  /\ insp \in Row
  /\ content \in Contents
  /\ workspace \in SUBSET ReviewParts
  /\ snapshots \in SUBSET [round : Nat, payload : Contents]
  /\ openCorrections \in SUBSET Nat
  /\ lastEvent \in [from : Statuses \cup {"NONE"}, to : Statuses]
  /\ attestedBy \in People
  /\ feeStatus \in FeeStatuses \cup {"NONE"}
  /\ everSettled \in BOOLEAN
  /\ requests \in [Requests -> Request]

-----------------------------------------------------------------------------
(* Helpers *)

Rounds == {s.round : s \in snapshots}

\* Mutant: loadForTransition without the submissionCount column.
SeenWithoutCount == [status |-> insp.status, inspector |-> insp.inspector,
                     reviewer |-> insp.reviewer]

Seen == [status |-> insp.status, inspector |-> insp.inspector,
         reviewer |-> insp.reviewer, submissionCount |-> insp.submissionCount]

\* The context a handler builds from the row it read.
Context(action, u, row, submittedById, reason, fee) ==
  [action |-> action, currentStatus |-> row.status, userId |-> u,
   permissions |-> PermissionsOf[u], inspectorId |-> row.inspector,
   submittedById |-> submittedById, reason |-> reason, feeStatus |-> fee]

NewRequest(op, u, seen, base, step) ==
  [Idle EXCEPT !.op = op, !.step = step, !.user = u, !.seen = seen,
               !.base = base]

\* A request arrives and has read the inspection.
Receive(r, q) ==
  /\ q.op \in Operations
  /\ requests[r].step = "idle"
  /\ insp.version < MaxVersion
  /\ requests' = [requests EXCEPT ![r] = q]
  /\ UNCHANGED <<data, fees>>

At(r, op, step) == requests[r].op = op /\ requests[r].step = step

\* A later read of the same request: nothing is written.
Proceed(r, step) ==
  /\ requests' = [requests EXCEPT ![r].step = step]
  /\ UNCHANGED <<data, fees>>

Finish(r) == requests' = [requests EXCEPT ![r] = Idle]

\* The update by id: the given columns, and version + 1 computed in place.
Update(row) == insp' = [row EXCEPT !.version = insp.version + 1]

\* Mutant: the two statuses of the event swapped.
LogEventBackwards(from, to) == lastEvent' = [from |-> to, to |-> from]

LogEvent(from, to) == lastEvent' = [from |-> from, to |-> to]

\* The base versions that pass the check against the version just read: none
\* sent, or the current one.  (An older one is refused; none is newer.)
FreshBases == {IF sent THEN insp.version ELSE 0 : sent \in BaseVersionSent}

-----------------------------------------------------------------------------
(* Assignment *)

AssignAction(row, target) ==
  IF row.inspector # NoUser /\ row.inspector # target
  THEN "REASSIGN" ELSE "ASSIGN"

AssignRead(r, u, target, reviewer) ==
  /\ target \in Inspectors
  /\ \E reason \in BOOLEAN :
       Permits(Context(AssignAction(insp, target), u, insp, NoUser, reason,
                       "NONE"))
  /\ Receive(r, [NewRequest("assign", u, Seen, 0, "ready")
                   EXCEPT !.target = target, !.reviewer = reviewer])

AssignCommit(r) ==
  LET q == requests[r]
      kept == IF q.reviewer # NoUser THEN q.reviewer ELSE q.seen.reviewer
  IN  /\ At(r, "assign", "ready")
      /\ Update([insp EXCEPT !.status = "ASSIGNED", !.inspector = q.target,
                             !.reviewer = kept])
      /\ LogEvent(q.seen.status, "ASSIGNED")
      /\ Finish(r)
      /\ UNCHANGED <<content, workspace, snapshots, openCorrections,
                     attestedBy, fees>>

-----------------------------------------------------------------------------
(* Starting the fieldwork: the inspection is read, then the fee. *)

StartRead(r, u) == Receive(r, NewRequest("start", u, Seen, 0, "read"))

StartReadFee(r) ==
  LET q == requests[r]
  IN  /\ At(r, "start", "read")
      /\ Permits(Context("START", q.user, q.seen, NoUser, FALSE, feeStatus))
      /\ Proceed(r, "ready")

StartCommit(r) ==
  LET q == requests[r]
  IN  /\ At(r, "start", "ready")
      /\ Update([insp EXCEPT !.status = TRANSITIONS.START.to,
                             !.started = TRUE])
      /\ LogEvent(q.seen.status, TRANSITIONS.START.to)
      /\ Finish(r)
      /\ UNCHANGED <<content, workspace, snapshots, openCorrections,
                     attestedBy, fees>>

-----------------------------------------------------------------------------
(* Recording content: form saves, a location fix, photographs, offline sync *)

\* Mutant: only the assignee is checked.
EditableByAssignee(u) ==
  insp.inspector = u /\ "inspections.write" \in PermissionsOf[u]

\* What assertEditable, and the same checks in photos and sync, require.
Editable(u) ==
  /\ insp.inspector = u
  /\ insp.status \in EDITABLE_STATUSES
  /\ "inspections.write" \in PermissionsOf[u]

SaveContentRead(r, u) ==
  /\ Editable(u)
  /\ \E base \in FreshBases :
       Receive(r, NewRequest("saveContent", u, NothingSeen, base, "ready"))

CaptureLocationRead(r, u) ==
  /\ Editable(u)
  /\ \E base \in FreshBases :
       Receive(r, NewRequest("captureLocation", u, NothingSeen, base, "ready"))

\* Photographs carry no baseVersion.
UploadPhotoRead(r, u) ==
  /\ Editable(u)
  /\ Receive(r, NewRequest("uploadPhoto", u, NothingSeen, 0, "ready"))

RemovePhotoRead(r, u) ==
  /\ Editable(u)
  /\ Receive(r, NewRequest("removePhoto", u, NothingSeen, 0, "ready"))

\* One operation of an offline batch.  It reads inside its transaction, which
\* under READ COMMITTED takes no lock: other requests still come in between.
SyncPushRead(r, u) ==
  /\ Editable(u)
  /\ \E base \in FreshBases :
       Receive(r, NewRequest("syncPush", u, NothingSeen, base, "ready"))

\* An administrator's correction of values or owner, at any status but a
\* final one.
AdminSaveRead(r, u) ==
  /\ u \in Admins
  /\ "inspections.write" \in PermissionsOf[u]
  /\ insp.status \notin {"APPROVED", "REPORT_GENERATED", "ARCHIVED"}
  /\ \E base \in FreshBases :
       Receive(r, NewRequest("adminSave", u, NothingSeen, base, "ready"))

ContentCommit(r) ==
  /\ requests[r].step = "ready"
  /\ requests[r].op \in ContentOperations \cup {"adminSave"}
  /\ content' \in Contents
  /\ Update(insp)
  /\ Finish(r)
  /\ UNCHANGED <<workspace, snapshots, openCorrections, lastEvent, attestedBy,
                 fees>>

-----------------------------------------------------------------------------
(* Submission: the row is read, then the whole content, then the commit. *)

SubmitAction(row) ==
  IF row.status = "CORRECTION_REQUESTED" THEN "RESUBMIT" ELSE "SUBMIT"

SubmitRead(r, u) ==
  /\ Permits(Context(SubmitAction(insp), u, insp, NoUser, FALSE, "NONE"))
  /\ Receive(r, NewRequest("submit", u, Seen, 0, "read"))

SubmitReadContent(r) ==
  /\ At(r, "submit", "read")
  /\ content \in Complete
  /\ requests' = [requests EXCEPT ![r].step = "ready", ![r].content = content]
  /\ UNCHANGED <<data, fees>>

\* Mutant: no unique index on (inspectionId, submissionRound).
AnyRound(round) == round \in Nat

\* The snapshot row is unique per round: a second submission of the same
\* round fails on it and the whole transaction is rolled back (Abandon).
RoundIsFree(round) == round \notin Rounds

\* Mutant: a submission that leaves the correction requests open.
KeepCorrections == UNCHANGED openCorrections

ResolveCorrections == openCorrections' = {}

SubmitCommit(r) ==
  LET q == requests[r]
      round == q.seen.submissionCount + 1
      next == TRANSITIONS[SubmitAction(q.seen)].to
  IN  /\ At(r, "submit", "ready")
      /\ RoundIsFree(round)
      /\ Update([insp EXCEPT !.status = next, !.submissionCount = round])
      /\ snapshots' = snapshots \cup {[round |-> round, payload |-> q.content]}
      /\ ResolveCorrections
      /\ LogEvent(q.seen.status, next)
      /\ attestedBy' = q.user
      /\ Finish(r)
      /\ UNCHANGED <<content, workspace, fees>>

-----------------------------------------------------------------------------
(* Decisions.  An approval reads the review twice more before it commits. *)

\* Mutant: submittedById null, as the other callers pass it.
NoSubmitterContext(op, u, reason) ==
  Context(DecisionAction[op], u, insp, NoUser, reason, "NONE")

DecisionContext(op, u, reason) ==
  Context(DecisionAction[op], u, insp, insp.inspector, reason, "NONE")

DecideRead(r, u, op, base) ==
  /\ \E reason \in BOOLEAN : Permits(DecisionContext(op, u, reason))
  /\ Receive(r, NewRequest(op, u, Seen, base,
                           IF op = "approve" THEN "read" ELSE "ready"))

\* begin-review takes no baseVersion; the three decisions may carry one.
BeginReviewRead(r, u) == DecideRead(r, u, "beginReview", 0)
ApproveRead(r, u) == \E base \in FreshBases : DecideRead(r, u, "approve", base)
RejectRead(r, u) == \E base \in FreshBases : DecideRead(r, u, "reject", base)
RequestCorrectionRead(r, u) ==
  \E base \in FreshBases : DecideRead(r, u, "requestCorrection", base)

ApproveReadReview(r) ==
  /\ At(r, "approve", "read")
  /\ {"risk", "conclusion"} \subseteq workspace
  /\ Proceed(r, "checked")

\* Mutant: the main building is not asked for.
RequiredPartsOfLand == {"landAndTotal", "mapImage", "statusInformation"}

\* The parts the second query of an approval looks for.
RequiredParts ==
  {"landAndTotal", "mapImage", "statusInformation"}
    \cup (IF content \in Improved THEN {"mainBuilding"} ELSE {})

ApproveReadRequirements(r) ==
  /\ At(r, "approve", "checked")
  /\ RequiredParts \subseteq workspace
  /\ requests[r].seen.reviewer = requests[r].user
  /\ Proceed(r, "ready")

DecideCommit(r) ==
  LET q == requests[r]
      next == TRANSITIONS[DecisionAction[q.op]].to
  IN  /\ q.op \in Decisions
      /\ q.step = "ready"
      /\ Update([insp EXCEPT !.status = next, !.reviewer = q.user,
                             !.approved = IF q.op = "approve" THEN TRUE
                                          ELSE insp.approved])
      /\ openCorrections' =
           IF q.op = "requestCorrection"
           THEN openCorrections \cup {q.seen.submissionCount}
           ELSE openCorrections
      /\ LogEvent(q.seen.status, next)
      /\ IF q.op = "approve"
         THEN requests' = [requests EXCEPT ![r] =
                [Idle EXCEPT !.op = "approve", !.step = "approved",
                             !.user = q.user]]
         ELSE Finish(r)
      /\ UNCHANGED <<content, workspace, snapshots, attestedBy, fees>>

-----------------------------------------------------------------------------
(* The official report: on request, and as the last thing an approval does. *)

\* Mutant: only the permission is checked.
HoldsGenerate(u) == "reports.generate" \in PermissionsOf[u]

MayGenerate(u) ==
  Permits(Context("GENERATE_REPORT", u, insp, NoUser, FALSE, "NONE"))

GenerateRead(r, u) ==
  /\ MayGenerate(u)
  /\ Receive(r, NewRequest("generateReport", u, Seen, 0, "ready"))

ApproveThenGenerate(r) ==
  /\ At(r, "approve", "approved")
  /\ MayGenerate(requests[r].user)
  /\ requests' = [requests EXCEPT ![r].op = "generateReport",
                                  ![r].step = "ready", ![r].seen = Seen]
  /\ UNCHANGED <<data, fees>>

\* updateMany with status # REPORT_GENERATED, evaluated on the current row.
GenerateCommit(r) ==
  LET q == requests[r]
  IN  /\ At(r, "generateReport", "ready")
      /\ IF insp.status # "REPORT_GENERATED"
         THEN /\ Update([insp EXCEPT !.status = "REPORT_GENERATED"])
              /\ LogEvent(q.seen.status, "REPORT_GENERATED")
         ELSE UNCHANGED <<insp, lastEvent>>
      /\ Finish(r)
      /\ UNCHANGED <<content, workspace, snapshots, openCorrections,
                     attestedBy, fees>>

-----------------------------------------------------------------------------
(* The professional review: risk, conclusion, adjustments, valuation, status *)
(* information and the map image.                                            *)

ReviewEditable(u) ==
  /\ "reviews.decide" \in PermissionsOf[u]
  /\ insp.status \in REVIEW_QUEUE_STATUSES

\* An adjustment, the risk or the conclusion: unclaimed, or claimed by u.
ReviewEditRead(r, u, op) ==
  /\ op \in UnclaimedReviewEdits
  /\ ReviewEditable(u)
  /\ insp.reviewer \in {NoUser, u}
  /\ \E base \in FreshBases :
       Receive(r, NewRequest(op, u, NothingSeen, base, "ready"))

\* The professional valuation and the parcel status: claimed by u only.
ClaimedEditRead(r, u, op) ==
  /\ op \in {"saveReviewerValuation", "saveStatusInformation"}
  /\ ReviewEditable(u)
  /\ insp.reviewer = u
  /\ \E base \in FreshBases :
       Receive(r, NewRequest(op, u, NothingSeen, base, "ready"))

\* The map image carries no baseVersion; a second read finds it to remove it.
MapEditRead(r, u, op) ==
  /\ op \in {"uploadMap", "removeMap"}
  /\ ReviewEditable(u)
  /\ insp.reviewer = u
  /\ Receive(r, NewRequest(op, u, NothingSeen, 0,
                           IF op = "removeMap" THEN "read" ELSE "ready"))

RemoveMapReadImage(r) ==
  /\ At(r, "removeMap", "read")
  /\ "mapImage" \in workspace
  /\ Proceed(r, "ready")

\* What each edit may leave in the workspace.  A conclusion may be blank, a
\* valuation and the status information may be saved with nulls.
Edited(op) ==
  CASE op = "addAdjustment" -> {workspace}
    [] op = "setRisk" -> {workspace \cup {"risk"}}
    [] op = "setConclusion" ->
         {workspace \cup {"conclusion"}, workspace \ {"conclusion"}}
    [] op = "saveReviewerValuation" ->
         {(workspace \ {"landAndTotal", "mainBuilding"}) \cup saved :
            saved \in SUBSET {"landAndTotal", "mainBuilding"}}
    [] op = "saveStatusInformation" ->
         {workspace \cup {"statusInformation"},
          workspace \ {"statusInformation"}}
    [] op = "uploadMap" -> {workspace \cup {"mapImage"}}
    [] op = "removeMap" -> {workspace \ {"mapImage"}}

\* Mutant: the version is left alone.
ReviewEditCommitSilently(r) ==
  /\ requests[r].op \in ReviewEdits
  /\ requests[r].step = "ready"
  /\ workspace' \in Edited(requests[r].op)
  /\ Finish(r)
  /\ UNCHANGED <<insp, content, snapshots, openCorrections, lastEvent,
                 attestedBy, fees>>

ReviewEditCommit(r) ==
  /\ requests[r].op \in ReviewEdits
  /\ requests[r].step = "ready"
  /\ workspace' \in Edited(requests[r].op)
  /\ Update(insp)
  /\ Finish(r)
  /\ UNCHANGED <<content, snapshots, openCorrections, lastEvent, attestedBy,
                 fees>>

-----------------------------------------------------------------------------

\* The request ends without a commit: refused, rolled back, or cut off.
Abandon(r) ==
  /\ requests[r].step # "idle"
  /\ Finish(r)
  /\ UNCHANGED <<data, fees>>

\* The payments service moves the fee (module InspectionFee).
PaymentsServiceWrites ==
  /\ feeStatus' \in FeeStatuses
  /\ everSettled' = (everSettled \/ feeStatus' = "SUCCESSFUL")
  /\ UNCHANGED <<data, requests>>

\* An inspection as create leaves it.  Nobody checks the reviewer it names.
Init ==
  /\ insp \in [status : {"ASSIGNED"}, inspector : Inspectors \cup {NoUser},
               reviewer : People, version : {1}, submissionCount : {0},
               started : {FALSE}, approved : {FALSE}]
  /\ content = EmptyContent
  /\ workspace = {}
  /\ snapshots = {}
  /\ openCorrections = {}
  /\ lastEvent = [from |-> "NONE", to |-> "ASSIGNED"]
  /\ attestedBy = NoUser
  /\ feeStatus = "NONE"
  /\ everSettled = FALSE
  /\ requests = [r \in Requests |-> Idle]

Arrive(r) ==
  \E u \in Users :
    \/ \E target \in Users, reviewer \in People :
         AssignRead(r, u, target, reviewer)
    \/ StartRead(r, u)
    \/ SaveContentRead(r, u)
    \/ CaptureLocationRead(r, u)
    \/ UploadPhotoRead(r, u)
    \/ RemovePhotoRead(r, u)
    \/ SyncPushRead(r, u)
    \/ AdminSaveRead(r, u)
    \/ SubmitRead(r, u)
    \/ BeginReviewRead(r, u)
    \/ ApproveRead(r, u)
    \/ RejectRead(r, u)
    \/ RequestCorrectionRead(r, u)
    \/ GenerateRead(r, u)
    \/ \E op \in ReviewEdits :
         \/ ReviewEditRead(r, u, op)
         \/ ClaimedEditRead(r, u, op)
         \/ MapEditRead(r, u, op)

ReadAgain(r) ==
  \/ StartReadFee(r)
  \/ SubmitReadContent(r)
  \/ ApproveReadReview(r)
  \/ ApproveReadRequirements(r)
  \/ ApproveThenGenerate(r)
  \/ RemoveMapReadImage(r)

Commit(r) ==
  \/ AssignCommit(r)
  \/ StartCommit(r)
  \/ ContentCommit(r)
  \/ SubmitCommit(r)
  \/ DecideCommit(r)
  \/ GenerateCommit(r)
  \/ ReviewEditCommit(r)

RequestStep(r) == Arrive(r) \/ ReadAgain(r) \/ Commit(r) \/ Abandon(r)

Next == (\E r \in Requests : RequestStep(r)) \/ PaymentsServiceWrites

Spec == Init /\ [][Next]_vars

-----------------------------------------------------------------------------
(* Properties that hold however requests interleave *)

(***************************************************************************)
(* Every submission round has exactly one snapshot, of content that passed *)
(* the completeness check, and the row counts the rounds.  Two submissions *)
(* of one inspection that overlap read the same count; the unique index on *)
(* (inspectionId, submissionRound) lets only one of them commit.           *)
(***************************************************************************)
SubmissionsAreSnapshotted ==
  /\ Rounds = 1..insp.submissionCount
  /\ \A s, t \in snapshots : s.round = t.round => s = t
  /\ \A s \in snapshots : s.payload \in Complete

(***************************************************************************)
(* The fee gate cannot be passed by any interleaving: an inspection that   *)
(* was started, or stands at any status past ASSIGNED, had its fee         *)
(* SUCCESSFUL at some time.                                                *)
(***************************************************************************)
FieldworkIsPaidFor ==
  insp.started \/ insp.status # "ASSIGNED" => everSettled

(***************************************************************************)
(* Nothing is under review, decided or reported that was never submitted,  *)
(* and a correction request always names a round that was submitted, even  *)
(* when the decision was taken on an inspection that has moved on.         *)
(***************************************************************************)
ReviewedWorkWasSubmitted ==
  /\ insp.status \notin {"ASSIGNED", "IN_PROGRESS"} => 1 \in Rounds
  /\ openCorrections \subseteq Rounds

(***************************************************************************)
(* inspection-state-machine.ts: "Only an approved inspection yields an     *)
(* official report; generating one from unapproved data would create a     *)
(* document nobody sanctioned".  Whatever is reported was approved at some *)
(* time, though it may have moved on between the report's read and its     *)
(* commit; and what was approved had been paid for and submitted.          *)
(***************************************************************************)
OnlyApprovedWorkIsReported ==
  /\ insp.status = "REPORT_GENERATED" => insp.approved
  /\ insp.approved => everSettled /\ 1 \in Rounds

(***************************************************************************)
(* The version names one state of the inspection: every commit that        *)
(* changes its row, content, review, snapshots or correction requests      *)
(* raises the version by exactly one, so that two clients that hold the    *)
(* same version hold the same inspection.  (The property's type is not     *)
(* part of content: PATCH /properties/:id changes it, and no version.)     *)
(***************************************************************************)
EveryChangeBumpsVersion ==
  [][<<insp, content, workspace, snapshots, openCorrections>>' #
       <<insp, content, workspace, snapshots, openCorrections>>
     => insp'.version = insp.version + 1]_vars

-----------------------------------------------------------------------------
(* Properties of an inspection whose requests do not overlap *)

\* The workflow keeps the lifecycle's promise (see InspectionLifecycle).
Lifecycle == INSTANCE InspectionLifecycle WITH
  status <- insp.status, inspector <- insp.inspector,
  reviewer <- insp.reviewer, rounds <- insp.submissionCount,
  attestedBy <- attestedBy, paid <- everSettled

LifecycleSpec == Lifecycle!Spec

(***************************************************************************)
(* What an approval rests on is there when it takes effect and stays: the  *)
(* risk, the conclusion, the estimation the property's kind calls for, the *)
(* map and the status information; and no correction is outstanding.       *)
(***************************************************************************)
ApprovalIsJustified ==
  insp.status \in {"APPROVED", "REPORT_GENERATED"} =>
    /\ ReviewParts \ {"mainBuilding"} \subseteq workspace
    /\ content \in Improved => "mainBuilding" \in workspace
    /\ openCorrections = {}

(***************************************************************************)
(* While the work is with the reviewer it has no outstanding correction,   *)
(* and while it is back with the inspector for correction it has one.      *)
(***************************************************************************)
CorrectionsMatchStatus ==
  /\ insp.status \in REVIEW_QUEUE_STATUSES => openCorrections = {}
  /\ insp.status = "CORRECTION_REQUESTED" => openCorrections # {}

(***************************************************************************)
(* What is reviewed, approved and reported is what the inspector attested  *)
(* to: the content equals the newest snapshot (no administrator edits).    *)
(* The property's type, which a snapshot copies, is not part of content.   *)
(***************************************************************************)
ReviewedContentIsAttested ==
  insp.status \in REVIEW_QUEUE_STATUSES
                   \cup {"APPROVED", "REJECTED", "REPORT_GENERATED"}
    => [round |-> insp.submissionCount, payload |-> content] \in snapshots

(***************************************************************************)
(* The status events form a chain: each new event starts from the status   *)
(* the inspection really had.                                              *)
(***************************************************************************)
StatusEventsFormAChain ==
  [][insp'.status # insp.status =>
       lastEvent' = [from |-> insp.status, to |-> insp'.status]]_vars

(***************************************************************************)
(* Separation of duties.  inspection-state-machine.ts: "The person who     *)
(* carried out and attested to the work must not be the one who signs it   *)
(* off": whoever took the newest decision did not submit the work.         *)
(***************************************************************************)
NobodyReviewsTheirOwnWork ==
  insp.status \in {"UNDER_REVIEW", "CORRECTION_REQUESTED", "APPROVED",
                   "REJECTED"}
    => insp.reviewer # attestedBy

=============================================================================
