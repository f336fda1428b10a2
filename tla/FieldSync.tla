------------------------------- MODULE FieldSync -------------------------------
(***************************************************************************)
(* Offline work on one inspection: a device with a queue, the network, and *)
(* the sync and photos services.                                           *)
(*                                                                         *)
(* The device (external: the mobile app, as the comments of the sync       *)
(* service describe it) pushes its queued operations as one batch, and its *)
(* photographs one by one.  It waits for one call at a time; when it gives *)
(* up it sends the same items again, though the first call may still run.  *)
(* A lost request, a server that dies and a lost answer are Abandon.       *)
(*                                                                         *)
(* The server applies each operation in a transaction that first reads the *)
(* inspection, which under READ COMMITTED locks nothing: a read and a      *)
(* commit are two steps.  It does not store the id of an operation.  An    *)
(* upload looks for an earlier row with its clientRequestId, stores the    *)
(* file, and inserts the row, whose clientRequestId is unique.             *)
(*                                                                         *)
(* Versions are only ever compared, so the model keeps the comparison: an  *)
(* operation is stale when its baseVersion is below the inspection's       *)
(* version.  CONFLICT and REJECTED are both a refusal.                     *)
(***************************************************************************)
EXTENDS Integers, FiniteSets, FiniteSetsExt

CONSTANTS
  Operations, \* offline operations, numbered in the order of the queue
  Photos,     \* photographs, each with its clientRequestId and content
  Calls,      \* slots for HTTP calls under way at one time
  NoCall,     \* the device is not waiting
  Workloads   \* bound: the sets of items that the device may record

ASSUME SyncAssumption ==
  /\ Operations \subseteq Nat
  /\ IsFiniteSet(Operations)
  /\ Operations \cap Photos = {}
  /\ NoCall \notin Calls
  /\ Workloads \subseteq SUBSET (Operations \cup Photos)

Items == Operations \cup Photos

VARIABLES
  open,       \* the inspection is the caller's, in a status open to edits
  stale,      \* the operations whose baseVersion is below the version
  applied,    \* how often each operation was applied; 2: more than once
  photoRows,  \* how many rows each photograph has; 2: more than one
  photoFiles, \* photographs whose file is stored
  calls,      \* the calls under way
  told,       \* the device: the answer it holds for each item
  based,      \* the device: the operations that carry a baseVersion
  current,    \* the device: the version it last saw is the newest
  waiting,    \* the device: the call it is waiting for
  overlapped  \* history: a change was made while another call was running

server == <<open, stale, applied, photoRows, photoFiles>>
device == <<told, based, current, waiting>>
vars == <<server, device, calls, overlapped>>

Answers == {"new", "queued", "applied", "refused"}
Results == {"none", "applied", "refused"}

Call == [step : {"idle", "reading", "looking", "storing", "ready", "answered"},
         photo : SUBSET Photos, todo : SUBSET Operations,
         results : [Items -> Results]]

NoResults == [item \in Items |-> "none"]
Idle == [step |-> "idle", photo |-> {}, todo |-> {}, results |-> NoResults]

SyncTypeOK ==
  /\ open \in BOOLEAN
  /\ stale \in SUBSET Operations
  /\ applied \in [Operations -> 0..2]
  /\ photoRows \in [Photos -> 0..2]
  /\ photoFiles \in SUBSET Photos
  /\ calls \in [Calls -> Call]
  /\ told \in [Items -> Answers]
  /\ based \in SUBSET Operations
  /\ current \in BOOLEAN
  /\ waiting \in Calls \cup {NoCall}
  /\ overlapped \in BOOLEAN

Busy == {c \in Calls : calls[c].step # "idle"}

Set(c, call) == calls' = [calls EXCEPT ![c] = call]

Recorded == {item \in Items : told[item] # "new"}
Queued == {item \in Items : told[item] = "queued"}

-----------------------------------------------------------------------------
(* The device *)

\* Something is recorded offline, with the version last seen or with none.
Record(item) ==
  /\ told[item] = "new"
  /\ \E work \in Workloads : item \in work /\ Recorded \subseteq work
  /\ told' = [told EXCEPT ![item] = "queued"]
  /\ \E carries \in BOOLEAN :
       /\ carries => item \in Operations
       /\ based' = IF carries THEN based \cup {item} ELSE based
       /\ stale' = IF carries /\ ~ current THEN stale \cup {item} ELSE stale
  /\ UNCHANGED <<open, applied, photoRows, photoFiles, calls, current, waiting,
                 overlapped>>

\* A pull shows the inspections assigned to the caller.
Pull ==
  /\ open
  /\ current' = TRUE
  /\ UNCHANGED <<server, calls, told, based, waiting, overlapped>>

Send(c, call) ==
  /\ waiting = NoCall
  /\ calls[c].step = "idle"
  /\ waiting' = c
  /\ Set(c, call)
  /\ overlapped' = (overlapped \/ Busy # {})
  /\ UNCHANGED <<server, told, based, current>>

SendPush(c) ==
  LET batch == Queued \cap Operations
  IN  /\ batch # {}
      /\ Send(c, [Idle EXCEPT !.step = "reading", !.todo = batch])

SendPhoto(c, photo) ==
  /\ photo \in Queued
  /\ Send(c, [Idle EXCEPT !.step = "reading", !.photo = {photo}])

GiveUp ==
  /\ waiting # NoCall
  /\ waiting' = NoCall
  /\ UNCHANGED <<server, told, based, current, calls, overlapped>>

\* An answer comes in; an upload that failed is left in the queue.
HearAnswer(c) ==
  LET results == calls[c].results
  IN  /\ calls[c].step = "answered"
      /\ waiting = c
      /\ told' = [item \in Items |->
                    IF told[item] = "queued" /\ results[item] # "none"
                    THEN results[item] ELSE told[item]]
      /\ waiting' = NoCall
      /\ Set(c, Idle)
      /\ UNCHANGED <<server, based, current, overlapped>>

-----------------------------------------------------------------------------
(* The server: a batch, one operation after the other *)

\* touch: the version goes up, so that every base version is behind it.
Touch == stale' = based /\ current' = FALSE

IsPush(c) == calls[c].todo # {}
Operation(c) == Min(calls[c].todo)

\* Mutant: every operation of a batch is answered alike.
ReportApplied(c, result) ==
  LET todo == calls[c].todo \ {Operation(c)}
  IN  Set(c, [calls[c] EXCEPT
                !.todo = todo,
                !.step = IF todo = {} THEN "answered" ELSE "reading",
                !.results[Operation(c)] = "applied"])

\* The operation at the head of the batch is done with.
Report(c, result) ==
  LET todo == calls[c].todo \ {Operation(c)}
  IN  Set(c, [calls[c] EXCEPT
                !.todo = todo,
                !.step = IF todo = {} THEN "answered" ELSE "reading",
                !.results[Operation(c)] = result])

\* Mutant: only the status is checked.
OpenToAny(operation) == open

\* The two checks that applyOperation makes on what it has read.
Accepts(operation) == open /\ operation \notin stale

OperationRead(c) ==
  /\ calls[c].step = "reading"
  /\ IsPush(c)
  /\ IF Accepts(Operation(c))
     THEN Set(c, [calls[c] EXCEPT !.step = "ready"])
     ELSE Report(c, "refused")
  /\ UNCHANGED <<server, device, overlapped>>

OperationCommit(c) ==
  LET operation == Operation(c)
  IN  /\ calls[c].step = "ready"
      /\ IsPush(c)
      /\ applied' = [applied EXCEPT ![operation] = IF @ = 2 THEN 2 ELSE @ + 1]
      /\ Touch
      /\ Report(c, "applied")
      /\ UNCHANGED <<open, photoRows, photoFiles, told, based, waiting,
                     overlapped>>

\* A payload that does not validate, or a transaction that fails: the rest of
\* the batch goes on.
OperationRejected(c) ==
  /\ calls[c].step = "ready"
  /\ IsPush(c)
  /\ Report(c, "refused")
  /\ UNCHANGED <<server, device, overlapped>>

-----------------------------------------------------------------------------
(* The server: a photograph *)

Photo(c) == CHOOSE photo \in calls[c].photo : TRUE
IsPhoto(c) == calls[c].photo # {}

\* Mutant: an answer that the device does not know.
ReportUnknown(c, result) ==
  Set(c, [calls[c] EXCEPT !.step = "answered", !.results[Photo(c)] = "stored"])

ReportPhoto(c, result) ==
  Set(c, [calls[c] EXCEPT !.step = "answered", !.results[Photo(c)] = result])

\* The inspection is judged before an earlier row is looked for: a repetition
\* that comes after the submission is refused though the first was recorded.
PhotoRead(c) ==
  /\ calls[c].step = "reading"
  /\ IsPhoto(c)
  /\ IF open
     THEN Set(c, [calls[c] EXCEPT !.step = "looking"])
     ELSE ReportPhoto(c, "refused")
  /\ UNCHANGED <<server, device, overlapped>>

PhotoLook(c) ==
  /\ calls[c].step = "looking"
  /\ IF photoRows[Photo(c)] > 0
     THEN ReportPhoto(c, "applied")
     ELSE Set(c, [calls[c] EXCEPT !.step = "storing"])
  /\ UNCHANGED <<server, device, overlapped>>

\* The key is the content: storing it again changes nothing.
PhotoPut(c) ==
  /\ calls[c].step = "storing"
  /\ photoFiles' = photoFiles \cup {Photo(c)}
  /\ Set(c, [calls[c] EXCEPT !.step = "ready"])
  /\ UNCHANGED <<open, stale, applied, photoRows, device, overlapped>>

\* Mutant: the column is not unique.
NoKey(photo) == FALSE

\* The unique key on clientRequestId has the photograph's.
KeyTaken(photo) == photoRows[photo] > 0

\* The unique key refuses a second row; the caller then hears of an error.
PhotoCommit(c) ==
  /\ calls[c].step = "ready"
  /\ IsPhoto(c)
  /\ IF KeyTaken(Photo(c))
     THEN /\ ReportPhoto(c, "none")
          /\ UNCHANGED <<photoRows, stale, current>>
     ELSE /\ photoRows' =
               [photoRows EXCEPT ![Photo(c)] = IF @ = 2 THEN 2 ELSE @ + 1]
          /\ Touch
          /\ ReportPhoto(c, "applied")
  /\ UNCHANGED <<open, applied, photoFiles, told, based, waiting, overlapped>>

-----------------------------------------------------------------------------

\* The call comes to nothing, or its answer to nobody.
Abandon(c) ==
  /\ calls[c].step # "idle"
  /\ Set(c, Idle)
  /\ UNCHANGED <<server, device, overlapped>>

\* Another request changes the inspection, opens or closes it to the caller:
\* the same inspector's browser, a submission, a reviewer, a reassignment.
SomeoneElse ==
  /\ open' \in BOOLEAN
  /\ Touch
  /\ overlapped' = (overlapped \/ Busy # {})
  /\ UNCHANGED <<applied, photoRows, photoFiles, told, based, waiting, calls>>

Init ==
  /\ open = TRUE
  /\ stale = {}
  /\ applied = [operation \in Operations |-> 0]
  /\ photoRows = [photo \in Photos |-> 0]
  /\ photoFiles = {}
  /\ calls = [c \in Calls |-> Idle]
  /\ told = [item \in Items |-> "new"]
  /\ based = {}
  /\ current = TRUE
  /\ waiting = NoCall
  /\ overlapped = FALSE

ServerStep(c) ==
  \/ OperationRead(c)
  \/ OperationCommit(c)
  \/ OperationRejected(c)
  \/ PhotoRead(c)
  \/ PhotoLook(c)
  \/ PhotoPut(c)
  \/ PhotoCommit(c)

Next ==
  \/ \E item \in Items : Record(item)
  \/ Pull
  \/ GiveUp
  \/ \E c \in Calls :
       \/ SendPush(c)
       \/ \E photo \in Photos : SendPhoto(c, photo)
       \/ HearAnswer(c)
       \/ ServerStep(c)
       \/ Abandon(c)
  \/ SomeoneElse

Spec == Init /\ [][Next]_vars

\* The device loses patience with a call that is still under way, or a call
\* that it is waiting for comes to nothing.
Fault ==
  \/ GiveUp /\ waiting \in Busy
  \/ \E c \in Calls : Abandon(c) /\ waiting = c

(***************************************************************************)
(* The device sends again what it holds no answer for and does not wait    *)
(* for a call that is dead, the server goes on with what it has begun, and *)
(* at some time, unknown to all, the network and the server stay up.       *)
(***************************************************************************)
Fairness ==
  /\ WF_vars(\E c \in Calls :
               SendPush(c) \/ \E photo \in Photos : SendPhoto(c, photo))
  /\ WF_vars(GiveUp /\ waiting \notin Busy)
  /\ \A c \in Calls :
       /\ WF_vars(ServerStep(c))
       /\ WF_vars(HearAnswer(c))
       /\ WF_vars(Abandon(c) /\ calls[c].step = "answered" /\ waiting # c)
  /\ <>[][~ Fault]_vars

FairSpec == Spec /\ Fairness

-----------------------------------------------------------------------------
(* Properties *)

\* The device and the server keep the promise of Delivery.
Promise == INSTANCE Delivery WITH
  recorded <- {operation \in Operations : applied[operation] > 0}
                \cup {photo \in Photos : photoRows[photo] > 0}

DeliverySpec == Promise!Spec

(***************************************************************************)
(* However uploads of a photograph overlap, are repeated and break off, it *)
(* has at most one row, a row has its file, and the device never holds a   *)
(* confirmation without both.                                              *)
(***************************************************************************)
PhotosAreStoredOnce ==
  \A photo \in Photos :
    /\ photoRows[photo] <= 1
    /\ photoRows[photo] > 0 => photo \in photoFiles
    /\ told[photo] = "applied" => photoRows[photo] > 0

(***************************************************************************)
(* sync.service.ts: "replaying a batch after a timeout" does not apply it  *)
(* twice.  For operations that carry a baseVersion, and as long as no      *)
(* change was made while a call was running: their own version makes them  *)
(* stale.                                                                  *)
(***************************************************************************)
BasedOperationsApplyOnce ==
  ~ overlapped => \A operation \in based : applied[operation] <= 1

-----------------------------------------------------------------------------
(* What the code's comments say and the code does not keep *)

(***************************************************************************)
(* sync.service.ts: "Every operation carries a client-generated id, so     *)
(* replaying a batch after a timeout returns DUPLICATE rather than         *)
(* applying twice".                                                        *)
(***************************************************************************)
NeverAppliedTwice ==
  \A operation \in Operations : applied[operation] <= 1

=============================================================================
