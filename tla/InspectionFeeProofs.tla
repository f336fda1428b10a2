------------------------- MODULE InspectionFeeProofs -------------------------
(***************************************************************************)
(* Theorems about InspectionFee: for any number of handlers and charges,   *)
(* that a paid fee was charged and that a fee being processed can be       *)
(* reconciled; and until handlers overlap, that a settled fee stays        *)
(* settled by the transaction its reference names.                         *)
(***************************************************************************)
EXTENDS InspectionFee, TLAPS

Charged == \E ref \in Refs : transactions[ref] = "successful"

\* What a handler carries from one of its steps to the next.
Carried(handler) ==
  /\ handler.step \in {"charged", "looking"} => handler.ref \in Refs
  /\ handler.step = "charged" => transactions[handler.ref] # "none"
  /\ handler.step = "settling" =>
       /\ handler.outcome \in Outcomes
       /\ handler.outcome = "SUCCESSFUL" => Charged

FeeInv ==
  /\ FeeTypeOK
  /\ PaidMeansCharged
  /\ ProcessingCanBeReconciled
  /\ \A h \in Handlers : Carried(handlers[h])

-----------------------------------------------------------------------------

\* An idle slot is a handler.
LEMMA IdleHandler == Idle \in Handler /\ Idle.step = "idle"
BY DEF Idle, Handler, HandlerSteps

\* A transaction once made stays made, and one that succeeded stays so.
LEMMA TransactionsOnlyAdvance ==
  ASSUME FeeTypeOK, [Next]_vars, NEW ref \in Refs
  PROVE  /\ transactions[ref] # "none" => transactions'[ref] # "none"
         /\ transactions[ref] = "successful" =>
              transactions'[ref] = "successful"
<1>1. CASE \E h \in Handlers : Arrive(h) \/ Continue(h)
  BY <1>1
  DEF FeeTypeOK, Arrive, Continue, Begin, RequestRead, PollRead, WebhookRead,
      RequestReadFee, RequestUpsert, CashinAccepted, CashinAnswerLost,
      CashinFails, RecordRef, RecordFailure, PollFind, Settle, Abandon
<1>2. CASE Surroundings
  BY <1>2
  DEF FeeTypeOK, Surroundings, TransactionEnds, WebhookUnknown, WebhookLost,
      TimePasses, StartReads, StartEnds, Reassigned
<1>3. CASE UNCHANGED vars
  BY <1>3 DEF vars
<1>4. QED
  BY <1>1, <1>2, <1>3 DEF Next

\* Who was charged once was charged.
LEMMA ChargedStays ==
  ASSUME FeeTypeOK, [Next]_vars, Charged
  PROVE  Charged'
BY TransactionsOnlyAdvance DEF Charged

\* A step that neither settles the fee nor starts the inspection on one that
\* is not settled keeps the promise of the gate.
LEMMA GateHolds ==
  ASSUME FeeInv, [Next]_vars,
         fee'.status = "SUCCESSFUL" \/ stage' # "assigned" =>
           \/ fee.status = "SUCCESSFUL"
           \/ stage # "assigned"
           \/ Charged
  PROVE  PaidMeansCharged'
<1>1. FeeTypeOK /\ PaidMeansCharged
  BY DEF FeeInv
<1>2. fee'.status = "SUCCESSFUL" \/ stage' # "assigned" => Charged
  BY <1>1 DEF PaidMeansCharged, Charged
<1>3. fee'.status = "SUCCESSFUL" \/ stage' # "assigned" => Charged'
  BY <1>1, <1>2, ChargedStays
<1>4. QED
  BY <1>3 DEF PaidMeansCharged, Charged

\* What a handler carries stays true as the transactions advance.
LEMMA CarriedIsStable ==
  ASSUME FeeInv, [Next]_vars, NEW h \in Handlers, handlers'[h] = handlers[h]
  PROVE  Carried(handlers[h])'
<1>1. FeeTypeOK /\ Carried(handlers[h])
  BY DEF FeeInv
<1>2. Charged => Charged'
  BY <1>1, ChargedStays
<1>3. handlers[h].ref \in Refs /\ transactions[handlers[h].ref] # "none"
      => transactions'[handlers[h].ref] # "none"
  BY <1>1, TransactionsOnlyAdvance
<1>4. QED
  BY <1>1, <1>2, <1>3 DEF Carried

\* A step of one handler keeps what the others carry.
LEMMA SetKeepsCarried ==
  ASSUME FeeInv, [Next]_vars, NEW h \in Handlers, NEW handler \in Handler,
         Set(h, handler), Carried(handler)'
  PROVE  /\ handlers' \in [Handlers -> Handler]
         /\ \A g \in Handlers : Carried(handlers[g])'
<1>1. handlers \in [Handlers -> Handler]
  BY DEF FeeInv, FeeTypeOK
<1>2. handlers'[h] = handler
      /\ \A g \in Handlers \ {h} : handlers'[g] = handlers[g]
  BY <1>1 DEF Set
<1>3. ASSUME NEW g \in Handlers \ {h}
      PROVE  Carried(handlers[g])'
  BY <1>2, <1>3, CarriedIsStable
<1>4. Carried(handlers[h])'
  BY <1>2 DEF Carried
<1>5. QED
  BY <1>1, <1>3, <1>4 DEF Set

\* The row is as it was, and a start only begins on a settled fee: what they
\* say is still true.
LEMMA SameRowKeepsFacts ==
  ASSUME FeeInv, [Next]_vars, fee'.status = fee.status, fee'.ref = fee.ref,
         stage' # "assigned" => stage # "assigned" \/ fee.status = "SUCCESSFUL"
  PROVE  PaidMeansCharged' /\ ProcessingCanBeReconciled'
<1>1. FeeTypeOK /\ ProcessingCanBeReconciled
  BY DEF FeeInv
<1>2. PaidMeansCharged'
  BY GateHolds
<1>3. ProcessingCanBeReconciled'
  BY <1>1, TransactionsOnlyAdvance DEF ProcessingCanBeReconciled
<1>4. QED
  BY <1>2, <1>3

\* A step of a handler that leaves the fee alone.
LEMMA SilentStepKeepsFeeInv ==
  ASSUME FeeInv, [Next]_vars, NEW h \in Handlers, NEW handler \in Handler,
         Set(h, handler), Carried(handler)', UNCHANGED <<fee, stage>>,
         transactions' \in [Refs -> TransactionStates],
         webhooks' \in SUBSET Refs, overlapped' \in BOOLEAN
  PROVE  FeeInv'
BY SetKeepsCarried, SameRowKeepsFacts DEF FeeInv, FeeTypeOK

\* The first read of a handler.
LEMMA ArriveKeepsFeeInv ==
  ASSUME FeeInv, NEW h \in Handlers, Arrive(h)
  PROVE  FeeInv'
<1>1. FeeTypeOK /\ [Next]_vars
  BY DEF FeeInv, Next
<1>0. overlapped' \in BOOLEAN
  BY <1>1 DEF Arrive, Begin, RequestRead, PollRead, WebhookRead, FeeTypeOK
<1>2. CASE \E op \in {"request", "retry"} : RequestRead(h, op)
  <2>1. PICK op \in {"request", "retry"} : RequestRead(h, op)
    BY <1>2
  <2> DEFINE handler == [Idle EXCEPT !.op = op, !.step = "loaded"]
  <2>2. handler \in Handler /\ handler.step = "loaded"
    BY IdleHandler DEF Handler, HandlerSteps
  <2>3. Carried(handler)'
    BY <2>2 DEF Carried
  <2> HIDE DEF handler
  <2>4. QED
    BY <1>0, <1>1, <2>1, <2>2, <2>3, SilentStepKeepsFeeInv
    DEF RequestRead, Begin, FeeTypeOK, handler
<1>3. CASE PollRead(h)
  <2>1. fee.ref \in Refs
    BY <1>1, <1>3 DEF PollRead, FeeTypeOK, Fee
  <2>2. PICK step \in {"settling", "looking"}, outcome \in {"FAILED", "NONE"} :
          /\ step = "settling" => outcome = "FAILED"
          /\ Set(h, [op |-> "poll", step |-> step, ref |-> fee.ref,
                     outcome |-> outcome])
    <3>1. CASE TimedOut
      BY <1>3, <3>1 DEF PollRead, Begin
    <3>2. CASE ~ TimedOut
      BY <1>3, <3>2 DEF PollRead, Begin
    <3>3. QED
      BY <3>1, <3>2
  <2> DEFINE handler == [op |-> "poll", step |-> step, ref |-> fee.ref,
                         outcome |-> outcome]
  <2>3. PICK next \in Handler : next = handler
    BY <2>1 DEF Handler, HandlerSteps, Outcomes
  <2>4. Carried(next)'
    BY <2>1, <2>2, <2>3 DEF Carried, Outcomes
  <2>5. Set(h, next)
    BY <2>2, <2>3
  <2>6. QED
    BY <1>0, <1>1, <1>3, <2>4, <2>5, SilentStepKeepsFeeInv
    DEF PollRead, FeeTypeOK
<1>4. CASE \E ref \in Refs : WebhookRead(h, ref)
  <2>1. PICK ref \in Refs : WebhookRead(h, ref)
    BY <1>4
  <2> DEFINE handler == [op |-> "webhook", step |-> "settling", ref |-> ref,
                         outcome |-> OutcomeOf(ref)]
  <2>2. PICK next \in Handler : next = handler
    <3>1. OutcomeOf(ref) \in Outcomes
      BY DEF OutcomeOf, Outcomes
    <3>2. handler \in Handler
      BY <3>1 DEF Handler, HandlerSteps
    <3>3. QED
      BY <3>2
  <2>3. Carried(next)'
    BY <2>1, <2>2 DEF WebhookRead, Carried, Charged, OutcomeOf, Outcomes
  <2>4. Set(h, next)
    BY <2>1, <2>2 DEF WebhookRead, Begin
  <2>5. webhooks' \in SUBSET Refs
    BY <1>1, <2>1 DEF WebhookRead, Answered, FeeTypeOK
  <2>6. QED
    BY <1>0, <1>1, <2>1, <2>3, <2>4, <2>5, SilentStepKeepsFeeInv
    DEF WebhookRead, FeeTypeOK
<1>5. QED
  BY <1>2, <1>3, <1>4 DEF Arrive

\* The later reads, calls and writes of a handler.
LEMMA ContinueKeepsFeeInv ==
  ASSUME FeeInv, NEW h \in Handlers, Continue(h)
  PROVE  FeeInv'
<1> DEFINE q == handlers[h]
<1>1. /\ FeeTypeOK /\ [Next]_vars /\ PaidMeansCharged
      /\ ProcessingCanBeReconciled /\ Carried(q)
      /\ q \in Handler /\ fee \in Fee
  BY DEF FeeInv, FeeTypeOK, Next
<1>2. Idle \in Handler /\ Carried(Idle)'
  BY IdleHandler DEF Carried
<1>3. ASSUME NEW step \in {"ready", "calling", "failing"},
             Reach(h, step, NoRef, "NONE"),
             UNCHANGED <<fee, stage, webhooks, overlapped>>,
             transactions' \in [Refs -> TransactionStates]
      PROVE  FeeInv'
  <2>1. PICK next \in Handler :
          next = [op |-> q.op, step |-> step, ref |-> NoRef, outcome |-> "NONE"]
    BY <1>1 DEF Handler, HandlerSteps
  <2>2. Set(h, next)
    BY <1>3, <2>1 DEF Reach
  <2>3. Carried(next)'
    BY <2>1 DEF Carried
  <2>4. QED
    BY <1>1, <1>3, <2>2, <2>3, SilentStepKeepsFeeInv DEF FeeTypeOK
\* The handler ends by writing the row.
<1>4. ASSUME Set(h, Idle), fee' \in Fee,
             UNCHANGED <<stage, transactions, webhooks, overlapped>>,
             PaidMeansCharged', ProcessingCanBeReconciled'
      PROVE  FeeInv'
  BY <1>1, <1>2, <1>4, SetKeepsCarried DEF FeeInv, FeeTypeOK
<1>5. CASE RequestReadFee(h)
  BY <1>1, <1>3, <1>5 DEF RequestReadFee, FeeTypeOK
<1>6. CASE RequestUpsert(h)
  <2>1. PICK next \in Handler :
          next = [op |-> q.op, step |-> "calling", ref |-> NoRef,
                  outcome |-> "NONE"]
    BY <1>1 DEF Handler, HandlerSteps
  <2>2. Set(h, next)
    BY <1>6, <2>1 DEF RequestUpsert, Reach
  <2>3. Carried(next)'
    BY <2>1 DEF Carried
  <2>4. fee' \in Fee /\ fee'.status = "PENDING"
    BY <1>6 DEF RequestUpsert, Fee, FeeStatus, Ages
  <2>5. PaidMeansCharged' /\ ProcessingCanBeReconciled'
    BY <1>1, <1>6, <2>4, GateHolds DEF RequestUpsert, ProcessingCanBeReconciled
  <2>6. QED
    BY <1>1, <1>6, <2>2, <2>3, <2>4, <2>5, SetKeepsCarried
    DEF RequestUpsert, FeeInv, FeeTypeOK
<1>7. CASE \E ref \in Refs : CashinAccepted(h, ref)
  <2>1. PICK ref \in Refs : CashinAccepted(h, ref)
    BY <1>7
  <2>2. PICK next \in Handler :
          next = [op |-> q.op, step |-> "charged", ref |-> ref,
                  outcome |-> "NONE"]
    BY <1>1 DEF Handler, HandlerSteps
  <2>3. Set(h, next)
    BY <2>1, <2>2 DEF CashinAccepted, Reach
  <2>4. /\ transactions' \in [Refs -> TransactionStates]
        /\ transactions'[ref] = "pending"
    BY <1>1, <2>1 DEF CashinAccepted, FeeTypeOK, TransactionStates
  <2>5. Carried(next)'
    BY <2>2, <2>4 DEF Carried
  <2>6. QED
    BY <1>1, <2>1, <2>3, <2>4, <2>5, SilentStepKeepsFeeInv
    DEF CashinAccepted, FeeTypeOK
<1>8. CASE \E ref \in Refs : CashinAnswerLost(h, ref)
  <2>1. transactions' \in [Refs -> TransactionStates]
    BY <1>1, <1>8 DEF CashinAnswerLost, FeeTypeOK, TransactionStates
  <2>2. QED
    BY <1>3, <1>8, <2>1 DEF CashinAnswerLost
<1>9. CASE CashinFails(h)
  BY <1>1, <1>3, <1>9 DEF CashinFails, FeeTypeOK
<1>10. CASE RecordRef(h)
  <2>1. q.ref \in Refs /\ transactions[q.ref] # "none"
    BY <1>1, <1>10 DEF RecordRef, At, Carried
  <2>2. fee' \in Fee /\ fee'.status = "PROCESSING" /\ fee'.ref = q.ref
    BY <1>1, <1>10, <2>1 DEF RecordRef, Recorded, Fee, FeeStatus
  <2>3. PaidMeansCharged' /\ ProcessingCanBeReconciled'
    BY <1>1, <1>10, <2>1, <2>2, GateHolds
    DEF RecordRef, ProcessingCanBeReconciled
  <2>4. QED
    BY <1>4, <1>10, <2>2, <2>3 DEF RecordRef
<1>11. CASE RecordFailure(h)
  <2>1. fee' \in Fee /\ fee'.status = "FAILED"
    BY <1>1, <1>11 DEF RecordFailure, Fee, FeeStatus
  <2>2. PaidMeansCharged' /\ ProcessingCanBeReconciled'
    BY <1>1, <1>11, <2>1, GateHolds
    DEF RecordFailure, ProcessingCanBeReconciled
  <2>3. QED
    BY <1>4, <1>11, <2>1, <2>2 DEF RecordFailure
<1>12. CASE PollFind(h)
  <2>1. q.ref \in Refs
    BY <1>1, <1>12 DEF PollFind, At, Carried
  <2>2. PICK next \in Handler :
          next = [op |-> q.op, step |-> "settling", ref |-> q.ref,
                  outcome |-> OutcomeOf(q.ref)]
    BY <1>1 DEF Handler, HandlerSteps, OutcomeOf, Outcomes
  <2>3. Set(h, next)
    BY <1>12, <2>2 DEF PollFind, Reach
  <2>4. Carried(next)'
    BY <1>12, <2>1, <2>2 DEF PollFind, Carried, Charged, OutcomeOf, Outcomes
  <2>5. QED
    BY <1>1, <1>12, <2>3, <2>4, SilentStepKeepsFeeInv DEF PollFind, FeeTypeOK
<1>13. CASE Settle(h)
  <2>1. q.outcome \in Outcomes /\ (q.outcome = "SUCCESSFUL" => Charged)
    BY <1>1, <1>13 DEF Settle, At, Carried
  <2>2. fee' \in Fee /\ fee'.status = q.outcome
    BY <1>1, <1>13, <2>1 DEF Settle, Fee, FeeStatus, Outcomes
  <2>3. PaidMeansCharged' /\ ProcessingCanBeReconciled'
    BY <1>1, <1>13, <2>1, <2>2, GateHolds
    DEF Settle, ProcessingCanBeReconciled, Outcomes
  <2>4. QED
    BY <1>4, <1>13, <2>2, <2>3 DEF Settle
<1>14. CASE Abandon(h)
  BY <1>1, <1>2, <1>14, SilentStepKeepsFeeInv DEF Abandon, FeeTypeOK
<1>15. QED
  BY <1>5, <1>6, <1>7, <1>8, <1>9, <1>10, <1>11, <1>12, <1>13, <1>14
  DEF Continue

\* The provider, the clock and the inspection.
LEMMA SurroundingsKeepFeeInv ==
  ASSUME FeeInv, Surroundings
  PROVE  FeeInv'
<1>1. FeeTypeOK /\ [Next]_vars /\ handlers' = handlers
  BY DEF FeeInv, Next, Surroundings, TransactionEnds, WebhookUnknown,
         WebhookLost, TimePasses, StartReads, StartEnds, Reassigned
<1>2. \A h \in Handlers : Carried(handlers[h])'
  BY <1>1, CarriedIsStable
<1>3. FeeTypeOK' /\ fee'.status = fee.status /\ fee'.ref = fee.ref
  BY <1>1
  DEF FeeTypeOK, Surroundings, TransactionEnds, WebhookUnknown, WebhookLost,
      Answered, TimePasses, StartReads, StartEnds, Reassigned, Fee, Ages,
      TransactionStates, Stages
<1>4. stage' # "assigned" => stage # "assigned" \/ fee.status = "SUCCESSFUL"
  BY DEF Surroundings, TransactionEnds, WebhookUnknown, WebhookLost,
         TimePasses, StartReads, StartEnds, Reassigned
<1>5. QED
  BY <1>1, <1>2, <1>3, <1>4, SameRowKeepsFacts DEF FeeInv

\* FeeInv is inductive.
LEMMA StepKeepsFeeInv == FeeInv /\ [Next]_vars => FeeInv'
<1> SUFFICES ASSUME FeeInv, [Next]_vars
             PROVE  FeeInv'
  OBVIOUS
<1>1. CASE UNCHANGED vars
  BY <1>1
  DEF vars, FeeInv, FeeTypeOK, PaidMeansCharged, ProcessingCanBeReconciled,
      Carried, Charged
<1>2. QED
  BY <1>1, ArriveKeepsFeeInv, ContinueKeepsFeeInv, SurroundingsKeepFeeInv
  DEF Next

\* FeeInv holds before there is a fee.
LEMMA InitFeeInv == Init => FeeInv
<1> SUFFICES ASSUME Init
             PROVE  FeeInv
  OBVIOUS
<1>1. overlapped \in BOOLEAN /\ stage = "assigned" /\ stage \in Stages
  BY DEF Init, Stages
<1>2. QED
  BY <1>1, IdleHandler
  DEF Init, FeeInv, FeeTypeOK, Fee, FeeStatus, Ages, TransactionStates,
      PaidMeansCharged, ProcessingCanBeReconciled, Carried

(***************************************************************************)
(* The inductive invariant: types, the two facts about the row, and what   *)
(* every handler carries between its read and its write.                   *)
(***************************************************************************)
THEOREM FeeInvariant == Spec => []FeeInv
BY InitFeeInv, StepKeepsFeeInv, PTL DEF Spec

(***************************************************************************)
(* Type correctness of the fee, its handlers and the provider.             *)
(***************************************************************************)
THEOREM FeeTypeCorrect == Spec => []FeeTypeOK
<1>1. FeeInv => FeeTypeOK
  BY DEF FeeInv
<1>2. QED
  BY <1>1, FeeInvariant, PTL

(***************************************************************************)
(* However requests, polls, webhooks and starts interleave, a fee is       *)
(* SUCCESSFUL, and an inspection started, only if the owner was charged:   *)
(* the pending answer of cashin never counts, a late outcome is that of a  *)
(* real transaction, and a start on a fee that has been started over since *)
(* was paid for nevertheless.                                              *)
(***************************************************************************)
THEOREM NoUnpaidUnlock == Spec => []PaidMeansCharged
<1>1. FeeInv => PaidMeansCharged
  BY DEF FeeInv
<1>2. QED
  BY <1>1, FeeInvariant, PTL

(***************************************************************************)
(* A fee being processed always names a transaction the provider knows:    *)
(* the poll (reconcileIfStale) can recover whatever webhook is lost.       *)
(***************************************************************************)
THEOREM LostWebhooksAreRecoverable == Spec => []ProcessingCanBeReconciled
<1>1. FeeInv => ProcessingCanBeReconciled
  BY DEF FeeInv
<1>2. QED
  BY <1>1, FeeInvariant, PTL

-----------------------------------------------------------------------------
(* Until handlers overlap *)

Busy == {h \in Handlers : handlers[h].step # "idle"}

\* A settled fee names the transaction that paid it.
NamesItsPayment ==
  fee.status = "SUCCESSFUL" =>
    fee.ref \in Refs /\ transactions[fee.ref] = "successful"

(***************************************************************************)
(* Until handlers overlap only one runs, and the row it read is the row it *)
(* writes: past its read of the fee it knows that the fee is not settled,  *)
(* and the transaction it asks about is the one the row names.             *)
(***************************************************************************)
Knows(handler) ==
  /\ fee.status = "SUCCESSFUL" => handler.step \in {"idle", "loaded"}
  /\ handler.step \in {"looking", "settling"} =>
       handler.ref = fee.ref /\ fee.ref \in Refs
  /\ handler.step = "settling" /\ handler.outcome = "SUCCESSFUL" =>
       transactions[fee.ref] = "successful"

SerialInv ==
  ~ overlapped =>
    /\ NamesItsPayment
    /\ \A g, h \in Busy : g = h
    /\ \A h \in Handlers : Knows(handlers[h])

\* The only handler begins.
LEMMA SerialArrive ==
  ASSUME FeeTypeOK, SerialInv, ~ overlapped', NEW h \in Handlers, Arrive(h)
  PROVE  SerialInv' /\ fee' = fee
<1>1. /\ UNCHANGED <<fee, transactions>>
      /\ overlapped' = (overlapped \/ \E g \in Handlers : ~ IsIdle(g))
      /\ \A g \in Handlers : g # h => handlers'[g] = handlers[g]
  BY DEF Arrive, RequestRead, PollRead, WebhookRead, Begin, Set, FeeTypeOK
<1>2. ~ overlapped /\ \A g \in Handlers : handlers[g].step = "idle"
  BY <1>1 DEF IsIdle
<1>3. NamesItsPayment'
  BY <1>1, <1>2 DEF SerialInv, NamesItsPayment
<1>4. Knows(handlers[h])'
  <2> USE DEF FeeTypeOK, Fee, Begin, Set, Knows
  <2>1. CASE \E op \in {"request", "retry"} : RequestRead(h, op)
    BY <1>1, <2>1 DEF RequestRead, Idle
  <2>2. CASE PollRead(h)
    <3>1. CASE TimedOut
      BY <1>1, <2>2, <3>1 DEF PollRead
    <3>2. CASE ~ TimedOut
      BY <1>1, <2>2, <3>2 DEF PollRead
    <3>3. QED
      BY <3>1, <3>2
  <2>3. CASE \E ref \in Refs : WebhookRead(h, ref)
    BY <1>1, <2>3 DEF WebhookRead, NamedBy, OutcomeOf
  <2>4. QED
    BY <2>1, <2>2, <2>3 DEF Arrive
<1>5. QED
  <2>1. \A g \in Handlers : g # h => handlers'[g].step = "idle"
    BY <1>1, <1>2
  <2>2. QED
    BY <1>1, <1>3, <1>4, <2>1 DEF SerialInv, Busy, Knows

\* The only handler that runs reads on, calls the provider or writes.
LEMMA SerialContinue ==
  ASSUME FeeTypeOK, SerialInv, ~ overlapped', NEW h \in Handlers, Continue(h)
  PROVE  /\ SerialInv'
         /\ fee.status = "SUCCESSFUL" => fee'.status = "SUCCESSFUL"
<1>1. /\ overlapped' = overlapped
      /\ handlers[h].step # "idle"
      /\ \A g \in Handlers : g # h => handlers'[g] = handlers[g]
  BY DEF Continue, RequestReadFee, RequestUpsert, CashinAccepted,
         CashinAnswerLost, CashinFails, RecordRef, RecordFailure, PollFind,
         Settle, Abandon, IsIdle, At, Reach, Set, FeeTypeOK
<1>2. NamesItsPayment /\ Knows(handlers[h])
  BY <1>1 DEF SerialInv
<1>3. \A g \in Handlers : g # h => handlers'[g].step = "idle"
  BY <1>1 DEF SerialInv, Busy
<1>4. /\ NamesItsPayment' /\ Knows(handlers[h])'
      /\ fee.status = "SUCCESSFUL" => fee'.status = "SUCCESSFUL"
  <2> USE <1>2 DEF FeeTypeOK, NamesItsPayment, Knows, Fee, Handler, At, Set,
                   Reach, Idle
  <2>1. CASE RequestReadFee(h)
    BY <2>1 DEF RequestReadFee, Chargeable
  <2>2. CASE RequestUpsert(h)
    BY <2>2 DEF RequestUpsert
  <2>3. CASE \E ref \in Refs :
               CashinAccepted(h, ref) \/ CashinAnswerLost(h, ref)
    BY <2>3 DEF CashinAccepted, CashinAnswerLost
  <2>4. CASE CashinFails(h)
    BY <2>4 DEF CashinFails
  <2>5. CASE RecordRef(h)
    BY <2>5 DEF RecordRef, Recorded
  <2>6. CASE RecordFailure(h)
    BY <2>6 DEF RecordFailure
  <2>7. CASE PollFind(h)
    BY <2>7 DEF PollFind, FoundFinished, OutcomeOf
  <2>8. CASE Settle(h)
    BY <2>8 DEF Settle
  <2>9. CASE Abandon(h)
    BY <2>9 DEF Abandon
  <2>10. QED
    BY <2>1, <2>2, <2>3, <2>4, <2>5, <2>6, <2>7, <2>8, <2>9 DEF Continue
<1>5. QED
  BY <1>3, <1>4 DEF SerialInv, Busy, Knows

\* Until handlers overlap, SerialInv is inductive and a settled fee stays.
LEMMA SerialStep ==
  ASSUME FeeTypeOK, SerialInv, [Next]_vars
  PROVE  /\ SerialInv'
         /\ fee.status = "SUCCESSFUL" /\ ~ overlapped'
              => fee'.status = "SUCCESSFUL"
<1>1. CASE overlapped'
  BY <1>1 DEF SerialInv
<1>2. CASE ~ overlapped' /\ Surroundings
  <2>1. /\ UNCHANGED <<handlers, overlapped>> /\ fee'.status = fee.status
        /\ fee'.ref = fee.ref
        /\ \A ref \in Refs : transactions[ref] = "successful"
             => transactions'[ref] = "successful"
    BY <1>2
    DEF FeeTypeOK, Fee, Surroundings, TransactionEnds, WebhookUnknown,
        WebhookLost, TimePasses, StartReads, StartEnds, Reassigned
  <2>2. QED
    BY <1>2, <2>1 DEF SerialInv, NamesItsPayment, Knows, Busy
<1>3. CASE UNCHANGED vars
  BY <1>3 DEF vars, SerialInv, NamesItsPayment, Knows, Busy
<1>4. QED
  BY <1>1, <1>2, <1>3, SerialArrive, SerialContinue DEF Next

\* A handler that overlaps another is the only step that says so.
LEMMA OverlapBegins ==
  ASSUME FeeTypeOK, [Next]_vars
  PROVE  overlapped' = overlapped \/ fee' = fee
BY DEF vars, Next, Arrive, Continue, Surroundings, Begin, RequestRead,
       PollRead, WebhookRead, RequestReadFee, RequestUpsert, CashinAccepted,
       CashinAnswerLost, CashinFails, RecordRef, RecordFailure, PollFind,
       Settle, Abandon, TransactionEnds, WebhookUnknown, WebhookLost,
       TimePasses, StartReads, StartEnds, Reassigned

\* SerialInv holds before there is a fee.
LEMMA SerialInit == Init => SerialInv
BY DEF Init, SerialInv, NamesItsPayment, Knows, Busy, Idle

\* SerialInv holds throughout.
LEMMA SerialInvariant == Spec => [](FeeTypeOK /\ SerialInv)
<1>1. FeeTypeOK /\ SerialInv /\ [Next]_vars => SerialInv'
  BY SerialStep
<1>2. QED
  BY <1>1, SerialInit, FeeTypeCorrect, PTL DEF Spec

(***************************************************************************)
(* Until handlers overlap a settled fee stays settled: "an already-settled *)
(* fee returns unchanged".  Overlapping handlers may undo it: one that     *)
(* read the fee unpaid starts it over.                                     *)
(***************************************************************************)
THEOREM SettledOnce == Spec => SuccessIsFinal
<1>1. FeeTypeOK /\ SerialInv /\ [Next]_vars
      => [fee.status = "SUCCESSFUL" /\ ~ overlapped
            => fee'.status = "SUCCESSFUL"]_vars
  BY SerialStep, OverlapBegins
<1>2. QED
  BY <1>1, SerialInvariant, PTL DEF Spec, SuccessIsFinal

(***************************************************************************)
(* Until handlers overlap the reference of a settled fee is that of the    *)
(* transaction that paid it.                                               *)
(***************************************************************************)
THEOREM SettledByItsReference == Spec => []SuccessIsOfTheReference
<1>1. SerialInv => SuccessIsOfTheReference
  BY DEF SerialInv, SuccessIsOfTheReference, NamesItsPayment
<1>2. QED
  BY <1>1, SerialInvariant, PTL

=============================================================================
