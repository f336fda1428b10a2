# Verification of sci-server

TLA+ models, TLC model-checking runs and TLAPS proofs for **sci-server**, the
NestJS/Prisma backend of a bank's property inspections. A branch raises an
inspection of a property, an inspector pays for it, visits it, records what is
there and submits it; a reviewer values it and approves it, rejects it or sends
it back; an approved inspection gets an official report.

Paths below are relative to the repository's `src/` unless they start with
`prisma/`.

## 1. Inventory

### The parts and their state

| Part | State it keeps | Operations | Correct when |
|---|---|---|---|
| Inspection state machine (`inspections/domain/inspection-state-machine.ts`) | none: a table | `evaluateTransition` | every endpoint judges by one table |
| Inspections (`inspections/inspections.service.ts`) | `inspections` (status, inspectorId, reviewerId, version, submissionCount), values, assessments, owner, valuation, locations, `inspection_snapshots`, `inspection_status_events` | create, assign, start, saveValues / Assessment / Owner / Valuation, captureLocation, submit | submitted work is complete, snapshotted once per round, paid for, and not changed behind the reviewer |
| Completeness (`inspections/domain/completeness.ts`) | none | `evaluateCompleteness` | nothing incomplete is submitted |
| Reviews (`reviews/`) | `correction_requests`, `reviewer_adjustments`, `reviewer_valuations`, `reviewer_map_images`, review columns of the inspection, comments | begin review, approve, reject, request correction, five edits of the review, map image, comments | duties are separated, approvals rest on a complete review of what was attested to |
| Administrator edits (`reviews/admin-inspection-edit.service.ts`) | values and owner | saveValues, saveOwner | only before a final status |
| Inspection fee (`payments/`) | `inspection_fees`: one row per inspection | request, retry, poll with reconciliation, webhook | nobody works unpaid, nobody pays twice, nobody waits for ever |
| Paypack client (`payments/paypack.service.ts`) | a cached access token | cashin, find, verifySignature | answers are not mistaken for confirmations |
| Photographs (`photos/`) | `inspection_photos`, stored files | upload, remove | added only while editable, an upload repeated is recorded once |
| Offline sync (`sync/`) | none of its own | push a batch, pull changes | a repeated operation is applied once, a stale one refused |
| Reports (`reports/`) | `reports`, stored PDFs | generateDraft, generate, list, download | one current official report per inspection, its row describing its file |
| Storage providers (`providers/storage/`, `files/`) | files under keys | put, delete, signed URLs | rows and files agree |
| Sessions (`auth/`, `common/guards/jwt-auth.guard.ts`) | `sessions`, `refresh_tokens`, reset tokens, failed attempts | login, refresh, logout, change / forgot / reset password | a revoked session is dead, a token is spent once, guesses are limited |
| Users, branches, properties (`users/`, `branches/`, `properties/`) | their rows | create, update, suspend, remove | unique references, no branch removed with open work |
| Audit, notifications | append-only rows | record, create | written in the transaction of the change |
| Analytics, locations, templates, health | none written | reads | - |

`PROJECT.json` lists every part under `components` with what is modelled of it,
and under `hazards` each place where the code is hard to test.

### How they interact

All handlers run in one or more stateless Node processes over one PostgreSQL
database. There is no lock, queue or in-process coordination between requests:
**the database row is the only thing they share**. The pattern, in every
service that changes an inspection, is

    read the inspection  ->  judge what was read  ->  (read more)  ->
    transaction: UPDATE ... WHERE id = ?,  version = version + 1, ...

with `READ COMMITTED` transactions (`database/prisma.service.ts`). The update
names the row only by its id. So what was judged may be stale when the
transaction runs; the transactions themselves are serialised by the row lock
that each takes when it updates the inspection row. The fee service uses no
transactions at all and calls an external provider between its reads and
writes; the provider calls back through an unauthenticated, signed webhook.
An approval calls the reports service after it has committed.

### What is hard

- the status, the fee, the review and the content are read at one moment and
  acted on at another;
- two requests that overlap have no order, and clients retry;
- `baseVersion` protects only what happens before the first read;
- webhooks are lost, repeated, early or late, and the answer of a charge may be
  lost although the owner is charged;
- the server may stop between any two steps;
- files are stored before, and removed after, the transaction that owns them.

## 2. Plan

Done, in this order: the core first, because everything else writes to it.

1. `InspectionStateMachine`, the table; `InspectionLifecycle`, what it promises.
2. `InspectionWorkflow`, all concurrent writers of an inspection.
3. `InspectionFee`, payment with its provider.
4. `Sessions`: sign-in and lockout, refresh rotation, the guard, revocation by
   sign-out, password change, reset and deactivation.
5. `StoredFiles`: report rows, the map image and the stored files they name.
6. `Delivery`, what synchronisation promises a device; `FieldSync`, the device,
   the network and the services that are to keep it.
7. `Numbering` and `Completeness`: inspection numbers and property references;
   the form, the template's rules and the valuation trigger.
8. Proofs about each module with a state of its own: what holds under any
   overlap, then what holds for one request at a time, the refinement of
   `InspectionLifecycle` included.
9. The fee gate from the side of the fee: in `InspectionFee` a start reads the
   fee and commits in steps of its own (`StartReads`, `StartEnds`,
   `Reassigned`), as `StartReadFee` and `StartCommit` do in
   `InspectionWorkflow`, which in turn knows of the payments service only that
   it writes the fee (`PaymentsServiceWrites`).
10. What overlapping requests leave standing of the lifecycle, beyond the fee
    gate and the submissions: `OnlyApprovedWorkIsReported`.

## 3. Modules and code

### InspectionStateMachine

`TRANSITIONS` is the table of the same name, a record of rules indexed by
action. `Permits(ctx)` is `evaluateTransition`: all its early returns as
conjuncts. Refusal codes are left out, and `reason` is whether a non-blank one
was given. `ARCHIVE` is in the table; no endpoint takes it.

### InspectionLifecycle (abstract)

The table as a state machine: each action judges the inspection as it is and
moves it in one step. It also says what the table cannot: only the inspector
starts and submits, the one who submitted never decides, the fee was paid,
approval is for the reviewer who claimed the inspection.

### InspectionWorkflow

One inspection and a set `Requests` of slots, each holding one request in
flight. The state is the database: `insp` (the row), `content` (everything the
inspector records, one abstract value), `workspace` (which parts of the review
are filled in), `snapshots`, `openCorrections`, `lastEvent`, `attestedBy` (the
actor of the newest submission event), `feeStatus`. A request is a record of
what it has read and how far it is.

| Action | Code |
|---|---|
| `AssignRead`, `AssignCommit` | `assign`, up to and inside its transaction |
| `StartRead`, `StartReadFee`, `StartCommit` | `start`: two reads, then the transaction |
| `SaveContentRead`, `CaptureLocationRead`, `UploadPhotoRead`, `RemovePhotoRead`, `SyncPushRead`, `AdminSaveRead`, `ContentCommit` | the five services that write content, each with its own guard, and their transaction |
| `SubmitRead`, `SubmitReadContent`, `SubmitCommit` | `submit`: the row, the content, the transaction |
| `BeginReviewRead`, `ApproveRead`, `RejectRead`, `RequestCorrectionRead`, `DecideCommit` | `decide` |
| `ApproveReadReview`, `ApproveReadRequirements` | the two further queries of an approval |
| `ApproveThenGenerate`, `GenerateRead`, `GenerateCommit` | the report after an approval, or on request |
| `ReviewEditRead`, `ClaimedEditRead`, `MapEditRead`, `RemoveMapReadImage`, `ReviewEditCommit` | the professional review |
| `Abandon` | a refusal after the first read, a rolled back transaction, a server that stops |
| `PaymentsServiceWrites` | the fee row, as seen from here |

A refusal at the first read changes nothing and is left out. Each read is one
step and each transaction one step: every transaction of these handlers updates
the inspection row, so two of them cannot interleave on what the model keeps,
except for statements before that update, which only insert or read rows the
model does not tell apart. Reading the content for a submission is several
queries in the code and one in the model: a form save between two of them is
seen here either wholly before or wholly after.

Abstractions, and why they are safe for the properties: branch scoping (`Users`
are those it lets through); audit rows, notifications and comments (no handler
reads them; a comment does not touch the inspection row); report rows and the
draft report a submission makes (they do not touch it either); the database
triggers of the migrations that recompute valuation totals and copy the owner
(they write content within the transaction that fires them); the record of the
property, whose type `PATCH /properties/:id` may change at any time without
raising the version of an inspection, although the completeness check reads it
and a snapshot copies it (`Completeness` has it, as `Retype`); permissions are
constant during a run. An admin is a person whose role is *named* `admin`: no
role of the seed is (its code is `ADMINISTRATOR`), so `Admins` is empty in
the runs about review, and one person in `Overlapping`. `Init` is what
`create` leaves: status ASSIGNED, the inspector possibly null, and any reviewer
the request names, whom nobody checks.

### InspectionFee

The fee row, handlers of four kinds (request, retry, poll, webhook) as a set
`Handlers` of slots, and, outside the code, the provider: `transactions` and
`webhooks` still to be delivered. Each database read, provider call and
database write is a step.

| Action | Code |
|---|---|
| `RequestRead`, `RequestReadFee`, `RequestUpsert` | `request` and `retry` up to the call |
| `CashinAccepted`, `CashinAnswerLost`, `CashinFails` | what `PaypackService.cashin` may do |
| `RecordRef`, `RecordFailure` | the `try` and the `catch` after it |
| `PollRead`, `PollFind`, `Settle` | `findByInspection` with `reconcileIfStale` |
| `WebhookRead`, `WebhookUnknown`, `WebhookLost`, `Settle` | `PaypackWebhookController.handle` with `applyWebhook` |
| `TransactionEnds` | external: the owner approves, refuses or lets it run out |
| `TimePasses` | the age of `requestedAt` |
| `StartReads`, `StartEnds`, `Reassigned` | `InspectionsService.start`, which judges the fee it read and commits later, and `assign` |

`overlapped` is a history variable: a handler has begun while another was
running. Two properties hold until then. `Ages` are the three intervals that 20 seconds and the processing timeout cut
out of time. That the caller is the assigned inspector is left out of
`RequestRead`: it only removes callers. An answer of `cashin` that was parsed is
taken to carry a reference (without one the code records an empty string, which
no poll looks for), and a webhook to agree with its transaction.

### Sessions

One account: its row (status, password, failed attempts, lock), its sessions,
refresh tokens and reset links, and `Requests`, slots as in the workflow.

| Action | Code |
|---|---|
| `LoginRead`, `LoginCommit`, `RegisterFailedAttempt` | `AuthService.login`: the user is read and the password verified; then the transaction, or the count |
| `RefreshRead`, `RefreshReadSession`, `RefreshCommit`, `RefreshWithRotated` | `refresh`: the token with its user, the session, the transaction; the refusal of a token that was exchanged |
| `GuardRead`, `GuardReadSession` | `JwtAuthGuard.buildTenantContext`, before sign-out and password change |
| `LogoutCommit`; `ChangeReadPassword`, `ChangeCommit` | `logout`; `changePassword` |
| `RequestPasswordReset`; `ResetRead`, `ResetCommit` | the reset of a forgotten password |
| `AdminRead` with `SetStatusCommit`, `SetPasswordCommit`, `UnlockCommit` | `UsersService.update`, `resetPassword`, `unlock` |
| `TimePasses`, `Abandon` | an expiry; a refusal, a rollback, a server that stops |

A session that has expired and one that was revoked are told apart, since only
the second is promised to have no token. An access token is good for its
session and nothing else, so the model has none. The history variables
`openedWith`, `failures`, `deactivated` and `replayed` exist for the properties
alone. The commits are atomic: all but two of them update the user's row first.
A refresh locks the token and then the session, a sign-out the session and then
its tokens; PostgreSQL ends such a deadlock by rolling one back, which is
`Abandon`. Left out: devices, profiles, roles, the password policy, a suspended
organisation and the removal of users (each only refuses more).

### StoredFiles

The official report and the draft of the current round (`reports`, a version and
a checksum each), the map image (`mapImage`), the Blob store (`files`,
`images`), and `Handlers` as before. Every look-up, write and deletion in the
store and every transaction is a step of its own. A rendered PDF is the number
of its rendering: two renderings always differ, since each prints the time.

| Action | Code |
|---|---|
| `DraftRead`, `DraftCommit` | `generateDraft`, up to its PDF and its transaction |
| `GenerateRead`, `GenerateReadDraft`, `GenerateCommit` | `generate`: the official report, then the draft, then one transaction for both rows |
| `DownloadRead`, `DownloadCommit`, `Serve` | `getDownloadUrl` of the official report, which renders it anew |
| `PutLook`, `PutWrite`, `UploadLook`, `UploadWrite` | `put` of the Blob provider: a key that exists is left alone |
| `UploadRead`, `UploadReadPrevious`, `UploadCommit` | `ReviewerMapService.upload` |
| `RemoveRead`, `RemoveReadRow`, `RemoveCommit` | `remove` |
| `DeleteFile` | the deletion after either transaction |
| `Abandon` | a refusal, a failed call, a rollback, a server that stops, at any step |

`overlapped` and `interrupted` (a handler ended between storing a PDF and its
transaction) are history variables. `Approve` stands for the workflow.

### Delivery (abstract) and FieldSync

`Delivery`: an item that a device recorded is confirmed only once the server has
it, what the server has it keeps, and no item stays in the queue for ever.

`FieldSync` is one inspection, a device (external) with its queue, and the calls
under way; calls may outlive the device's patience and run beside their own
repetition.

| Action | Code |
|---|---|
| `Record`, `Pull`, `SendPush`, `SendPhoto`, `GiveUp`, `HearAnswer` | the device, as the comments of `sync.service.ts` describe it; `Pull` shows what `pull` returns |
| `OperationRead`, `OperationCommit`, `OperationRejected` | `applyOperation`: the checks on what it reads, its writes; the `catch` in `push` |
| `PhotoRead`, `PhotoLook`, `PhotoPut`, `PhotoCommit` | `PhotosService.upload`: the inspection, the earlier row, the file, the insert under the unique key |
| `SomeoneElse` | any other change of the inspection: a submission, a reviewer, a reassignment |
| `Abandon` | a lost request, a lost answer, a server that stops |

Versions are only ever compared, so `stale` is the set of operations whose
`baseVersion` is behind. CONFLICT and REJECTED are both `refused`. What an
operation writes is one abstract change; counters stop at 2, which is "more than
once". `Delivery` is implemented with `recorded` mapped to the items that were
applied or have a row.

### Numbering

Creations of inspections and of properties as steps: the newest number is read,
the row inserted (which waits for another transaction's insert of the same
number), the transaction committed; the references are looked up one suffix at a
time, looked up again by `create`, and inserted. `Aligned` and `SortsAfter` are
the order of the padded text, on numbers: with `Limit` 999999 a number of seven
digits stands among those that begin like it. One organization, one owner and
one day: nobody else shares a number with them.

### Completeness

The form of one inspection on the standard template that the migrations install
(`Template`), what clients save in it (`Sent`, a constant: any answers in any
field, since `saveValues` and `applyValues` look at neither type, options nor
rules), and the judgement: `Applicable` are the sections that
`computeCompleteness` leaves in, `Visible` the rules of the template,
`Missing`, `Invalid` and `OthersMet` what `evaluateCompleteness` finds.
`Calculated` is the trigger on `inspection_values` with its NULLs. A text or a
number that is absent is told apart from an empty one, since `rawValue` does. A
text is one of `Words` and how it is spelled, because three readers differ: the
trigger compares it as it stands (`IsExactly`), the template's rules in any case
(`SameValue`), `computeCompleteness` trimmed as well (`IsTrimmed`). Dates,
booleans and lists count as given, like texts, and are left out where a word or
a number is read. One or two fields stand for the many of each section, one
annex for four, one photo rule for three.

### MC modules

`MCInspectionWorkflow` names people, contents and groups of operations;
`MCInspectionSerial` limits the serial run (`InScope`). `MCIntake` explores
`Numbering` and `Completeness`, which share no state, in three scenarios, each
with the rest standing still: creations; the form from empty, without annexes;
the form with its evidence in place, with one annex.

## 4. Runs

Bounds, named in the modules: `MaxVersion` (no request arrives once the version
has reached it; those in flight still finish), `Refs` (the number of charges),
`MaxTries`, `MaxRenderings`, `Workloads` (what the device may record), `Limit`
and `MaxSuffix` (constants of the code, made small), `MinCount`, `SmallAnswers`
(what clients save in each field; the code has no bound on it).

| Run | Shows | Bounds and why they are enough |
|---|---|---|
| `Serial` | `OnlyApprovedWorkIsReported`, `ApprovalIsJustified`, `ReviewedContentIsAttested`, `CorrectionsMatchStatus`, `NobodyReviewsTheirOwnWork`, `LifecycleSpec`, `StatusEventsFormAChain`, one request at a time | an approval with a claim and the five edits arrives at version 10; 12 hold a submission, a correction and a second round with a handover between them. An incomplete, a plain and a built content; an inspector, a reviewer, and one who is both. `InScope` leaves out handovers and second rounds of a review that has been filled in: the two halves are each explored in full, their combinations are not |
| `Overlapping` | `TypeOK`, `SubmissionsAreSnapshotted`, `FieldworkIsPaidFor`, `ReviewedWorkWasSubmitted`, `EveryChangeBumpsVersion` with every operation and two requests in flight | two suffice for every read-commit race; 7 versions reach a claimed review and a second round. The theorems below have no bound |
| `Fee` | `FeeTypeOK`, `PaidMeansCharged`, `ProcessingCanBeReconciled`, `ProcessingEnds`; and `SuccessIsFinal`, `SuccessIsOfTheReference` until handlers overlap | two handlers and two charges, so one can be lost and replaced; no symmetry (liveness) |
| `SessionsSerial` | `SessionsTypeOK`, `DeactivationTakesEffect`, `OnlyTheCurrentPassword`, `OneUsableToken`, `EveryFailureCounts`, one request at a time | two sessions, one to be changed from and one to be ended; three tokens, for both and one rotation; two passwords; a lock after two failures where the code has five, and a third attempt after it |
| `StoredFiles` | `ReportRowsNameStoredFiles` always; `MapImageIsStored` until handlers overlap; `ReportDescribesItsFile`, `DownloadsAreLive` until they overlap or one is interrupted | two handlers, two images (one replaces the other), five renderings: two generations, each with its draft, and a download |
| `FieldSync` | `PhotosAreStoredOnce`, `BasedOperationsApplyOnce`, and `DeliverySpec` under `FairSpec` | two calls, so that a repetition overlaps the call it repeats; a batch of two, or an operation and a photograph |
| `Intake` | `NumbersAreConsecutive`, `NumbersRunOutPastTheLimit`, `ReferencesAreConsecutive`; `HiddenAnswersDoNotCount`, `ImprovementsAreDescribed`, `PercentageAgrees` | two creations at a time, two years, a width of one digit and three suffixes, so that both run out; the answers of `SmallAnswers`, saved over one another in every order: numbers in and out of range, both options of the status in all three spellings, `LAND`, a word that is no option and an emptied status, totals that a client saves itself, a number of annexes as number, text and both |

The runs below are expected to be violated: each shows where the code does not
do what a comment in it says, quoted under `findings`.

| Run | Comment in the code | What happens |
|---|---|---|
| `OwnWork` | "must not be the one who signs it off" | a submission overlaps a handover; the submitter, no longer the inspector, may decide |
| `FeeTwoTaps` | "tapping twice must not charge the owner twice" | a fee in PENDING is charged again |
| `TokenReuse` | "so the whole family is revoked" | a token that was exchanged is refused for being revoked, before the check that would end its session |
| `SyncReplay` | "replaying a batch after a timeout returns DUPLICATE rather than applying twice" | the id of an operation is not stored: without a `baseVersion` it is applied again |
| `ValuationTotal` | "Calculated as land + main building + annex values." | `LIKE 'ANNEX_%_VALUE'` also matches the annexes' total, so they count twice |

### What else the models show

*Overlapping requests.* The properties of the serial runs are about requests
that do not overlap; the models let them, and then:

- two decisions judge the same status, and the second moves an inspection that
  is already decided, though "no way for one endpoint to permit a move that
  another forbids" is what `inspection-state-machine.ts` is for;
- an edit commits between the version check and the approval, which
  `baseVersion` is to prevent ("blocks stale approvals");
- a sign-in that has read the account before a deactivation writes the old
  status back and opens a session ("Deactivation takes effect immediately");
- a payment request that read the fee unpaid starts it over after it settled;
- two refreshes with one token leave two usable ones, and two failed attempts
  count once;
- a map image is lost: a removal deletes its file last, when an upload of the
  same content has found it stored and named it again;
- two first generations of a report name the same key; the unique key rolls one
  of them back, and the row may describe the other's file;
- two creations read the same newest number and one fails. No number is lost.

*Payment.* The fee is persisted before the provider is called "so a webhook
arriving immediately has a row to attach to", but the webhook looks it up by
`providerRef`, which is only recorded after the answer: an earlier delivery is
ignored (`WebhookUnknown`) and answered 200, and a poll has to make up for it.
The processing timeout fails a fee without asking the provider once more, so a
payment that succeeded is recorded as failed until its webhook comes. And when
the server stops, or the call's answer is lost, after the provider has taken the
charge, the reference is gone, the fee stays PENDING or FAILED, and no poll
looks for it; only another request moves it on.

*Reports.* After an attempt that was interrupted between its put and its commit,
the next computes the same key, `put` finds it taken and stores nothing, and the
row records the checksum of a PDF that was never stored.

*Synchronisation.* With a `baseVersion` a replay is answered CONFLICT though the
operation was applied, and of two operations in a batch that carry the same one
the second always conflicts with the first. An upload judges the status before
it looks for its earlier row, so a repetition that comes after the submission is
refused though the photograph was recorded. A batch is rejected operation by
operation: what was applied before stays.

*The form.* A number of annexes saved with a text, an empty one included, hides
the annexes, since a text comes before the number. A property registered as land
whose status is IMPROVED can be complete without a description of either. A vacant
residential plot skips its land section. Once the status has been exactly one of
the template's two options the trigger has written a valuation row, and "no
value" never blocks again. Any other status gets no valuation from the trigger:
a word that is no option, the word `LAND` that `computeCompleteness` takes for a
vacant plot, an option in another case. Since neither the options nor the rules
are checked when an answer is saved, a client may then save `LAND_ESTIMATED_VALUE`
or `IMPROVED_TOTAL_VALUE` itself, in a field that does not show, and
`evaluateCompleteness`, which looks for a total in all sections left in, takes
it for the valuation: the form is complete, and incomplete once that hidden
answer is emptied. `HiddenAnswersDoNotCount` names this case as its exception;
without it TLC finds the property violated. An option with spaces around it
(" IMPROVED") hides every field that depends on it, so that none is asked for.
The form may stand at 100% and still be refused for an answer out of range. A later
migration ("Client-side calculation is now authoritative…") drops one of the
two valuation triggers and leaves this one.

*Numbers.* Past 999999 the newest number by text is 999999 for good: the first
inspection after it gets 1000000 and every later creation of the year fails.

Deadlock is checked in every run but `StoredFiles`, where nothing happens once
the renderings are used up. At the bound of the others it does not arise because
the provider, the calendar or another user can always move; it says little here.

### Fairness

`Fee` assumes it of the server and its clients alone: a handler that was begun
ends (weakly fair `Continue`), time passes, the app polls every few seconds
while a fee is in PROCESSING (strongly fair `PollRead`, since a slot may be
busy), and not every settlement is cut off before its write (strongly fair
`Settle`, since `Abandon` competes with it). Paypack may never answer and never
deliver; all that is assumed of it is that an answer to `cashin` which can be
read carries a reference (`CashinAccepted`).

`FieldSync` assumes that the device sends again what it holds no answer for and
does not wait for a call that is dead, that the server goes on with what it has
begun and is heard, and that at some time, unknown to all, calls stop being lost
(`<>[][~ Fault]_vars`): with a network that fails every call nothing can be
delivered. Nothing is assumed of the other users.

## 5. Proofs

`InspectionWorkflowProofs`, for any staff, permissions, contents, number of
overlapping requests and `MaxVersion` (`WorkflowAssumption`):

- `TypeCorrect`: `TypeOK`, one step per action.
- `InductiveInvariant`: `IInv == TypeOK /\ Ledger /\ RequestsInFlight`.
  The three invariants say nothing of requests in flight, and a request commits
  what it judged long ago, so they are not inductive. What saves them is that
  each rests on something that never goes back: rounds are only added, a fee
  that was once settled was settled. `InFlight(q, count, settled)` says what a
  request may still rely on; `InFlightIsStable` that it survives the other
  requests' commits.
- `EverySubmissionIsSnapshotted`, `TheFeeGateHolds`,
  `OnlySubmittedWorkIsReviewed` follow from it.
- `ReportsAreSanctioned`: `OnlyApprovedWorkIsReported`, from `ReportInv`: the
  mark of an approval (`approvedAt`) is never taken back, so a report that is
  under way is of work that was approved, whatever status the inspection has
  when the report commits. The run `Serial` checks it for one request at a time,
  because a review that ends in an approval is too long for `Overlapping`; the
  theorem has neither bound.
- `VersionsNameStates`: the action property `EveryChangeBumpsVersion`, from
  types and the form of each commit (`version = insp.version + 1`, computed on
  the current row).

`InspectionSerialProofs`, for any staff, permissions, contents and `MaxVersion`,
under `OneAtATime` (there is at most one slot; with two, TLC finds each of these
six properties violated, see `OwnWork` and section 4):

- `SerialInvariant`: `SerialInv == IInv /\ SerialState`. The properties of the
  row alone are not inductive, since a commit does not look at the row again.
  `Current(q)` says, one conjunct for each thing a handler looks at, that what
  the request has judged is still so; `Standing` adds to the invariants that
  the newest submission is the assigned inspector's, which is what makes
  judging by `inspectorId` enough, and that no correction is outstanding on
  work that was presented.
- `ApprovalsAreJustified`, `CorrectionsFollowTheStatus`, `DutiesAreSeparate`,
  and while nobody's role is named `admin` (`Admins = {}`, as in the seed)
  `AttestedContentIsReviewed`, follow from it.
- `StatusEventsChain`: the action property `StatusEventsFormAChain`.
- `WorkflowImplementsLifecycle`: every step is a step of `InspectionLifecycle`
  or a stutter, one lemma for each commit that moves the status. The run
  `Serial` confines itself to the histories that `InScope` admits; the theorems
  do not.

`InspectionFeeProofs`, for any handlers, references and operations offered
(`FeeAssumption`):

- `FeeInvariant`: types, the two invariants, and `Carried`: a handler that is to
  settle a fee as SUCCESSFUL has seen a transaction succeed, and one that holds
  a reference holds one the provider knows. `TransactionsOnlyAdvance` makes
  this stable.
- `FeeTypeCorrect`, `NoUnpaidUnlock` and `LostWebhooksAreRecoverable` follow.
  `NoUnpaidUnlock` covers the start that commits on a fee it read long ago: the
  fee may have been started over since (handlers overlap), but who was charged
  stays charged (`ChargedStays`, `GateHolds`).
- `SettledOnce` and `SettledByItsReference`, until handlers overlap:
  `SerialInv` adds that what the one handler read is still in the row.

`StoredFilesProofs`, for any handlers, images and number of renderings:

- `FilesInvariant`: types, and `Carried`: a handler past its put finds the file
  it stored, and a row names a version that is stored. `FilesTypeCorrect` and
  `RowsNameStoredFiles` follow, however handlers overlap and break off.
- `MapImageStaysStored`: `MapInv` adds what the one running handler knows of the
  row (`OneBusy` until overlap), so that a deletion spares the image named.
- `RowsDescribeTheirFiles`, `DownloadsServeTheirRendering`: `ReportInv` says
  that no file is stored past the versions in the rows except the running
  handler's own (`NoStrays`), which is why its put never finds a key taken.

`FieldSyncProofs`, for any operations, photographs, calls and workloads
(`SyncAssumption`; that the least operation of a batch is in the batch is proved
from the well-foundedness of the subsets of a finite set):

- `SyncInvariant`: types, one row per photograph with its file, and `Carries`:
  what a call brings was recorded, and what it has been told is so on the
  server. `SyncTypeCorrect` and `OneRowPerPhotograph` follow.
- `ReplaysOfBasedOperationsAreRefused`: until calls overlap, an operation that
  was applied is stale, and one that was accepted is not.
- `EveryStepKeepsThePromise`: every step is a step of `Delivery` or a stutter,
  the safety half of `DeliverySpec`.

`SessionsProofs`, for any sessions, tokens, links, passwords and limits
(`SessionsAssumption`):

- `SessionsTypeCorrect`, for any number of overlapping requests, from `Named` (a
  token that was issued has a session) and `Carried` (a request that refreshes
  holds such a token).
- Under `OneAtATime` (there is at most one slot): `DeactivationHolds`,
  `PasswordsEndSessions`, `RotationIsSingle`, `FailuresAreCounted`. `Current`
  says that what the request read is still so, or was only closed or spent by
  time; `OneTokenEach` is `OneUsableToken` in a form that steps preserve.
  Without the hypothesis they are false (section 4).

`NumberingProofs`, for any creators, years, width and last suffix
(`NumberingAssumption`):

- `NumberingTypeCorrect`, `NumbersConsecutive`, `ReferencesConsecutive`: a number
  that was proposed lies at most one past the numbers taken, and one inserted
  keeps others from inserting it.
- `NumbersRunOut`: the newest of `1..n` in the order of the text, for any width.

`CompletenessProofs`, for any number of photographs asked for (`MinCount`), any
`Words` and any answers that clients save in any field (`Sent`, of which
`SentAssumption` says only that they are answers), in any order: what the run
`Intake` explores in two scenarios is proved of every form that `FormSpec` can
reach.

- `FormInvariant`: `FormInv` is types and `OptionIsValued`, the one fact about
  the order of steps: whenever the status is exactly one of the two options, the
  trigger has run with it and written a valuation, which nothing takes back.
  `FormTypeCorrect` follows.
- `OnlyWhatShowsCounts`: emptying the fields that do not show hides nothing more
  (`HidingHidesNoMore`, from the template: a rule is about a field of a section
  that is left in), so the same fields are judged, and what is judged of them is
  the same. What is left is the valuation, for which a total may stand although
  its field is hidden. With a valuation that total makes no difference;
  `OptionIsValued` gives the valuation for the two options, and other statuses
  without one are the exception that the property states.
- `ImprovementsDescribed` and `PercentageIsHonest` are facts of the definitions
  in every state: a required field that shows has an answer in a complete
  form; and at most twelve fields and four other requirements are counted, so
  the percentage of an incomplete form is never rounded up to 100
  (`RoundedToAHundred`).

Model-checked only: the liveness properties `ProcessingEnds` and
`Delivery!Drains`, which are beyond the prover.

## 6. Not modelled

`components` in `PROJECT.json` has all of it. Left out for good:

- the report renderer (layout), analytics, locations and health (nothing is
  written), audit and notifications (no handler reads what they write), the
  tenant context (pure predicates on the caller), cryptography and wiring;
- branches: their removal counts open inspections first, but an inspection may
  just as well be created in a branch that is already removed, so there is no
  relation between the two that the code keeps;
- comments on a review, lists and profiles,
  which touch nothing that a modelled handler judges;
- the local storage provider, which always overwrites, and the signature check
  of the file endpoint;
- `prisma/seed.ts`, `preflight.mjs`, `install-storage.mjs`, `fix-storage-git.mjs`
  and the other operator scripts, which run once and alone, and the copies of
  the storage providers in the repository's top-level `files/`;
- the unused `payments/paypack.client.ts`.
