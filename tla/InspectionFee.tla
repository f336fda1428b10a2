---------------------------- MODULE InspectionFee ----------------------------
(***************************************************************************)
(* The fee of one inspection: the payments service and, outside it, the    *)
(* Paypack payment provider (external: modelled from how paypack.service   *)
(* uses it).                                                               *)
(*                                                                         *)
(* The handlers are the payment request and its retry, the poll that       *)
(* reconciles a quiet record, and the provider's webhook.  None of them    *)
(* uses a transaction: each reads the fee row, may call the provider, and  *)
(* then updates the row by id, whatever has become of it meanwhile.  A     *)
(* handler is modelled in steps, one for each read, call and write.        *)
(*                                                                         *)
(* A handler that returns without writing, a write that fails and a server *)
(* that dies between two steps are all Abandon.  The amount, the phone     *)
(* number and the count of attempts are left out: no handler reads them.   *)
(***************************************************************************)
EXTENDS Integers, FiniteSets

CONSTANTS
  Handlers,  \* slots for handlers the server runs at one time
  Refs,      \* the provider's references: bounds the number of charges
  NoRef,     \* the null of the providerRef column
  Offered    \* which of "request" and "retry" a run offers

ASSUME FeeAssumption ==
  /\ NoRef \notin Refs
  /\ Offered \subseteq {"request", "retry"}

VARIABLES
  fee,          \* the fee row; status NONE until there is one
  stage,        \* how far the inspection is with its start
  handlers,     \* what each handler slot is doing
  transactions, \* the provider's transactions
  webhooks,     \* references of outcomes the provider is still to deliver
  overlapped    \* history: a handler has begun while another was running

vars == <<fee, stage, handlers, transactions, webhooks, overlapped>>

FeeStatus == {"NONE", "PENDING", "PROCESSING", "SUCCESSFUL", "FAILED"}

\* The age of requestedAt: below RECONCILE_AFTER_MS, below
\* PROCESSING_TIMEOUT_MS, and above it.
Ages == {"fresh", "stale", "expired"}

Fee == [status : FeeStatus, ref : Refs \cup {NoRef}, age : Ages]

\* Of the inspection: ASSIGNED; ASSIGNED, with a start under way that has found
\* the fee settled; and IN_PROGRESS or later.
Stages == {"assigned", "starting", "started"}

TransactionStates == {"none", "pending", "successful", "failed"}

HandlerSteps == {"idle", "loaded", "ready", "calling", "charged", "failing",
                 "looking", "settling"}

Outcomes == {"SUCCESSFUL", "FAILED"}

Handler == [op : {"none", "request", "retry", "poll", "webhook"},
            step : HandlerSteps, ref : Refs \cup {NoRef},
            outcome : Outcomes \cup {"NONE"}]

Idle == [op |-> "none", step |-> "idle", ref |-> NoRef, outcome |-> "NONE"]

FeeTypeOK ==
  /\ fee \in Fee
  /\ stage \in Stages
  /\ handlers \in [Handlers -> Handler]
  /\ transactions \in [Refs -> TransactionStates]
  /\ webhooks \in SUBSET Refs
  /\ overlapped \in BOOLEAN

IsIdle(h) == handlers[h].step = "idle"
At(h, step) == handlers[h].step = step
Set(h, handler) == handlers' = [handlers EXCEPT ![h] = handler]

\* A handler begins; the others may be at any step.
Begin(h, handler) ==
  /\ IsIdle(h)
  /\ Set(h, handler)
  /\ overlapped' = (overlapped \/ \E g \in Handlers : ~ IsIdle(g))

\* The handler reaches a step with a reference and an outcome.
Reach(h, step, ref, outcome) ==
  Set(h, [op |-> handlers[h].op, step |-> step, ref |-> ref,
          outcome |-> outcome])

\* Mutant: the provider's own word for it.
RawOutcome(ref) == transactions[ref]

\* mapStatus: what a finished transaction means for the fee.
OutcomeOf(ref) ==
  IF transactions[ref] = "successful" THEN "SUCCESSFUL" ELSE "FAILED"

-----------------------------------------------------------------------------
(* Requesting the fee, for the first time or again *)

\* loadInspection and what is asked of its row.  The caller, who is the
\* assigned inspector, does not change; the stage of the inspection does.
InspectionLoaded == stage # "started"

\* The fee is asked for before the work starts.
RequestRead(h, op) ==
  /\ op \in Offered
  /\ InspectionLoaded
  /\ Begin(h, [Idle EXCEPT !.op = op, !.step = "loaded"])
  /\ UNCHANGED <<fee, stage, transactions, webhooks>>

\* Mutant: a settled fee is not looked at.
ChargeableUnlessProcessing(op) == fee.status = "PROCESSING" => op = "retry"

\* A settled fee is returned as it is, and so is one being processed, unless
\* this is a retry.
Chargeable(op) ==
  /\ fee.status # "SUCCESSFUL"
  /\ fee.status = "PROCESSING" => op = "retry"

RequestReadFee(h) ==
  /\ At(h, "loaded")
  /\ Chargeable(handlers[h].op)
  /\ Reach(h, "ready", NoRef, "NONE")
  /\ UNCHANGED <<fee, stage, transactions, webhooks, overlapped>>

\* The upsert: the row is created, or starts over.
RequestUpsert(h) ==
  /\ At(h, "ready")
  /\ fee' = [status |-> "PENDING", ref |-> NoRef, age |-> "fresh"]
  /\ Reach(h, "calling", NoRef, "NONE")
  /\ UNCHANGED <<stage, transactions, webhooks, overlapped>>

\* The provider takes the call.  Its key is new for every call, so it never
\* recognises a repetition: there is a new transaction each time.  Assumed: the
\* answer names it.  (Without a name the code records '', and no poll looks.)
CashinAccepted(h, ref) ==
  /\ At(h, "calling")
  /\ transactions[ref] = "none"
  /\ transactions' = [transactions EXCEPT ![ref] = "pending"]
  /\ Reach(h, "charged", ref, "NONE")
  /\ UNCHANGED <<fee, stage, webhooks, overlapped>>

\* The provider takes the call, and its answer is lost or unreadable.
CashinAnswerLost(h, ref) ==
  /\ At(h, "calling")
  /\ transactions[ref] = "none"
  /\ transactions' = [transactions EXCEPT ![ref] = "pending"]
  /\ Reach(h, "failing", NoRef, "NONE")
  /\ UNCHANGED <<fee, stage, webhooks, overlapped>>

\* The call fails, or the update that would record its reference does.
CashinFails(h) ==
  /\ At(h, "calling") \/ At(h, "charged")
  /\ Reach(h, "failing", NoRef, "NONE")
  /\ UNCHANGED <<fee, stage, transactions, webhooks, overlapped>>

\* Mutants: the pending answer taken for a confirmation; the reference lost.
RecordedAsPaid(ref) == [fee EXCEPT !.status = "SUCCESSFUL", !.ref = ref]
RecordedWithoutRef(ref) == [fee EXCEPT !.status = "PROCESSING"]

Recorded(ref) == [fee EXCEPT !.status = "PROCESSING", !.ref = ref]

RecordRef(h) ==
  /\ At(h, "charged")
  /\ fee' = Recorded(handlers[h].ref)
  /\ Set(h, Idle)
  /\ UNCHANGED <<stage, transactions, webhooks, overlapped>>

RecordFailure(h) ==
  /\ At(h, "failing")
  /\ fee' = [fee EXCEPT !.status = "FAILED"]
  /\ Set(h, Idle)
  /\ UNCHANGED <<stage, transactions, webhooks, overlapped>>

-----------------------------------------------------------------------------
(* Polling, which reconciles a record that has gone quiet *)

\* Mutant: there is no processing timeout.
NeverTimedOut == FALSE

TimedOut == fee.age = "expired"

PollRead(h) ==
  /\ fee.status = "PROCESSING"
  /\ fee.ref # NoRef
  /\ fee.age # "fresh"
  /\ IF TimedOut
     THEN Begin(h, [op |-> "poll", step |-> "settling", ref |-> fee.ref,
                    outcome |-> "FAILED"])
     ELSE Begin(h, [op |-> "poll", step |-> "looking", ref |-> fee.ref,
                    outcome |-> "NONE"])
  /\ UNCHANGED <<fee, stage, transactions, webhooks>>

\* The provider is asked, and knows how the transaction ended.
FoundFinished(ref) == transactions[ref] \in {"successful", "failed"}

\* A pending transaction, or a failed lookup, leaves the row to the next poll
\* (Abandon).
PollFind(h) ==
  /\ At(h, "looking")
  /\ FoundFinished(handlers[h].ref)
  /\ Reach(h, "settling", handlers[h].ref, OutcomeOf(handlers[h].ref))
  /\ UNCHANGED <<fee, stage, transactions, webhooks, overlapped>>

-----------------------------------------------------------------------------
(* The webhook *)

\* Mutant: any fee will do.
NamedByAnyWebhook(ref) == TRUE

NamedBy(ref) == fee.ref = ref

\* Whatever becomes of a signed event, the answer is 200, and the provider has
\* no reason to repeat it.
Answered(ref) == webhooks' = webhooks \ {ref}

\* A delivery that finds its fee not settled yet; the provider may repeat it.
WebhookRead(h, ref) ==
  /\ ref \in webhooks
  /\ NamedBy(ref)
  /\ fee.status # "SUCCESSFUL"
  /\ Begin(h, [op |-> "webhook", step |-> "settling", ref |-> ref,
               outcome |-> OutcomeOf(ref)])
  /\ Answered(ref) \/ UNCHANGED webhooks
  /\ UNCHANGED <<fee, stage, transactions>>

\* A delivery that finds no fee.
WebhookUnknown(ref) ==
  /\ ref \in webhooks
  /\ ~ NamedBy(ref)
  /\ Answered(ref)
  /\ UNCHANGED <<fee, stage, handlers, transactions, overlapped>>

\* A replay for a settled fee, or a delivery that never arrives.
WebhookLost(ref) ==
  /\ ref \in webhooks
  /\ webhooks' = webhooks \ {ref}
  /\ UNCHANGED <<fee, stage, handlers, transactions, overlapped>>

\* The update of a poll or of a webhook: by id, on whatever row is there.
Settle(h) ==
  /\ At(h, "settling")
  /\ fee' = [fee EXCEPT !.status = handlers[h].outcome]
  /\ Set(h, Idle)
  /\ UNCHANGED <<stage, transactions, webhooks, overlapped>>

Abandon(h) ==
  /\ ~ IsIdle(h)
  /\ Set(h, Idle)
  /\ UNCHANGED <<fee, stage, transactions, webhooks, overlapped>>

-----------------------------------------------------------------------------
(* What goes on around the payments service *)

\* The owner approves or refuses the prompt, or it runs out.
TransactionEnds(ref) ==
  /\ transactions[ref] = "pending"
  /\ \E end \in {"successful", "failed"} :
       transactions' = [transactions EXCEPT ![ref] = end]
  /\ webhooks' = webhooks \cup {ref}
  /\ UNCHANGED <<fee, stage, handlers, overlapped>>

TimePasses ==
  /\ fee.status # "NONE"
  /\ fee.age # "expired"
  /\ fee' = [fee EXCEPT !.age = IF fee.age = "fresh" THEN "stale"
                                ELSE "expired"]
  /\ UNCHANGED <<stage, handlers, transactions, webhooks, overlapped>>

\* A start reads the inspection and then the fee, behind the fee gate.
StartReads ==
  /\ stage = "assigned"
  /\ fee.status = "SUCCESSFUL"
  /\ stage' = "starting"
  /\ UNCHANGED <<fee, handlers, transactions, webhooks, overlapped>>

\* It commits what it judged, whatever the fee has become meanwhile, or fails.
StartEnds ==
  /\ stage = "starting"
  /\ stage' \in {"started", "assigned"}
  /\ UNCHANGED <<fee, handlers, transactions, webhooks, overlapped>>

\* A reassignment takes it back to ASSIGNED.  A second start that had judged as
\* the first did may still be under way.
Reassigned ==
  /\ stage = "started"
  /\ stage' \in {"assigned", "starting"}
  /\ UNCHANGED <<fee, handlers, transactions, webhooks, overlapped>>

Init ==
  /\ fee = [status |-> "NONE", ref |-> NoRef, age |-> "fresh"]
  /\ stage = "assigned"
  /\ handlers = [h \in Handlers |-> Idle]
  /\ transactions = [ref \in Refs |-> "none"]
  /\ webhooks = {}
  /\ overlapped = FALSE

Arrive(h) ==
  \/ \E op \in {"request", "retry"} : RequestRead(h, op)
  \/ PollRead(h)
  \/ \E ref \in Refs : WebhookRead(h, ref)

Continue(h) ==
  \/ RequestReadFee(h)
  \/ RequestUpsert(h)
  \/ \E ref \in Refs : CashinAccepted(h, ref) \/ CashinAnswerLost(h, ref)
  \/ CashinFails(h)
  \/ RecordRef(h)
  \/ RecordFailure(h)
  \/ PollFind(h)
  \/ Settle(h)
  \/ Abandon(h)

Surroundings ==
  \/ \E ref \in Refs :
       TransactionEnds(ref) \/ WebhookUnknown(ref) \/ WebhookLost(ref)
  \/ TimePasses
  \/ StartReads
  \/ StartEnds
  \/ Reassigned

Next == (\E h \in Handlers : Arrive(h) \/ Continue(h)) \/ Surroundings

Spec == Init /\ [][Next]_vars

(***************************************************************************)
(* A handler that was begun ends; the app polls every three seconds while  *)
(* it waits; the server does not die at every single write; time passes.   *)
(* Of the provider only this is assumed, in CashinAccepted: an answer that *)
(* can be read names its transaction. It may never answer or deliver.      *)
(***************************************************************************)
Fairness ==
  /\ WF_vars(TimePasses)
  /\ \A h \in Handlers :
       /\ WF_vars(Continue(h))
       /\ SF_vars(PollRead(h))
       /\ SF_vars(Settle(h))

FairSpec == Spec /\ Fairness

-----------------------------------------------------------------------------
(* Properties that hold however handlers interleave *)

(***************************************************************************)
(* paypack.service.ts: no inspection is unlocked unpaid.  When the fee is  *)
(* SUCCESSFUL, and when the inspection was started, or is about to be, on  *)
(* a fee that was and may have been started over since, the owner was      *)
(* charged: some transaction succeeded.                                    *)
(***************************************************************************)
PaidMeansCharged ==
  fee.status = "SUCCESSFUL" \/ stage # "assigned" =>
    \E ref \in Refs : transactions[ref] = "successful"

(***************************************************************************)
(* A fee that is being processed names a transaction the provider knows,   *)
(* so that a poll can recover what a lost webhook would have said.         *)
(***************************************************************************)
ProcessingCanBeReconciled ==
  fee.status = "PROCESSING" =>
    fee.ref \in Refs /\ transactions[fee.ref] # "none"

(***************************************************************************)
(* No inspector waits for ever: a fee being processed is settled or asked  *)
(* for again, though webhooks are lost and the provider never answers.     *)
(***************************************************************************)
ProcessingEnds == fee.status = "PROCESSING" ~> fee.status # "PROCESSING"

-----------------------------------------------------------------------------
(* Properties of a fee whose handlers have not overlapped *)

(***************************************************************************)
(* payments.service.ts: "an already-settled fee returns unchanged"; a      *)
(* replayed or late webhook, a poll or another request does not undo it.   *)
(* Until handlers have overlapped: one that read the fee unpaid starts it  *)
(* over although another has settled it meanwhile.                         *)
(***************************************************************************)
SuccessIsFinal ==
  [][fee.status = "SUCCESSFUL" /\ ~ overlapped
       => fee'.status = "SUCCESSFUL"]_vars

(***************************************************************************)
(* The reference the row holds is that of the transaction that paid it,    *)
(* until handlers have overlapped: a late outcome may then settle a charge *)
(* that was started over meanwhile.                                        *)
(***************************************************************************)
SuccessIsOfTheReference ==
  fee.status = "SUCCESSFUL" /\ ~ overlapped =>
    fee.ref \in Refs /\ transactions[fee.ref] = "successful"

-----------------------------------------------------------------------------
(* What the code's comments say and the code does not keep *)

(***************************************************************************)
(* payments.service.ts: "an inspector tapping twice must not charge the    *)
(* owner twice".                                                           *)
(***************************************************************************)
NeverChargedTwice ==
  Cardinality({ref \in Refs : transactions[ref] = "successful"}) <= 1

=============================================================================
