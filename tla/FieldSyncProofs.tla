--------------------------- MODULE FieldSyncProofs ---------------------------
(***************************************************************************)
(* Theorems about FieldSync, for any items, calls and workloads: a         *)
(* photograph is recorded once and with its file, an answer confirms only  *)
(* what the server has, an operation with a base version is applied once   *)
(* until calls overlap, and every step is one that Delivery allows.        *)
(***************************************************************************)
EXTENDS FieldSync, FiniteSetTheorems, TLAPS

LEMMA StrictSubsets ==
  ASSUME NEW S, NEW A \in SUBSET S, NEW B \in SUBSET S, A \subseteq B, A # B
  PROVE  <<A, B>> \in StrictSubsetOrdering(S)
BY DEF StrictSubsetOrdering

LEMMA OperationsHaveAMinimum ==
  ASSUME NEW S \in SUBSET Operations, S # {}
  PROVE  Min(S) \in S
<1> DEFINE Below(x) == {y \in S : y < x}
           family == {Below(x) : x \in S}
<1>1. S \in SUBSET Nat /\ IsFiniteSet(S)
  BY SyncAssumption, FS_Subset
<1>2. family \subseteq FiniteSubsetsOf(S) /\ family # {}
  <2>1. ASSUME NEW x \in S
        PROVE  Below(x) \in FiniteSubsetsOf(S)
    <3>1. Below(x) \in SUBSET S
      OBVIOUS
    <3>2. QED
      BY <1>1, <3>1, FS_Subset DEF FiniteSubsetsOf
  <2>2. QED
    BY <2>1
<1>3. PICK T \in family :
        \A U \in family : ~ (<<U, T>> \in StrictSubsetOrdering(S))
  BY <1>2, WFMin, FS_StrictSubsetOrderingWellFounded
<1>4. PICK x \in S : T = Below(x)
  BY <1>3
<1>5. ASSUME NEW y \in S, y < x
      PROVE  FALSE
  <2>1. Below(y) \in family /\ Below(y) \in SUBSET S /\ T \in SUBSET S
    BY <1>4
  <2>2. Below(y) \subseteq T /\ y \in T /\ y \notin Below(y)
    <3>1. x \in Nat /\ y \in Nat /\ \A z \in S : z \in Nat
      BY <1>1
    <3>2. ~ (y < y) /\ \A z \in S : z < y => z < x
      BY <1>5, <3>1
    <3>3. QED
      BY <1>4, <1>5, <3>2
  <2>3. <<Below(y), T>> \in StrictSubsetOrdering(S)
    BY <2>1, <2>2, StrictSubsets
  <2>4. QED
    BY <1>3, <2>1, <2>3
<1>6. \A y \in S : x =< y
  BY <1>1, <1>4, <1>5
<1>7. QED
  BY <1>6 DEF Min

LEMMA OperationIsInBatch ==
  ASSUME NEW c \in Calls, calls[c] \in Call, IsPush(c)
  PROVE  Operation(c) \in calls[c].todo /\ Operation(c) \in Operations
BY OperationsHaveAMinimum DEF Call, IsPush, Operation

LEMMA PhotoIsInCall ==
  ASSUME NEW c \in Calls, calls[c] \in Call, IsPhoto(c)
  PROVE  Photo(c) \in calls[c].photo /\ Photo(c) \in Photos
BY DEF Call, IsPhoto, Photo

-----------------------------------------------------------------------------

\* What the server has.
Have == {operation \in Operations : applied[operation] > 0}
          \cup {photo \in Photos : photoRows[photo] > 0}

\* What a call brings and has been told.
Carries(call) ==
  /\ call.photo = {} \/ call.todo = {}
  /\ \A one, other \in call.photo : one = other
  /\ call.photo \subseteq Recorded /\ call.todo \subseteq Recorded
  /\ \A item \in Items : call.results[item] = "applied" => item \in Have
  /\ call.step \in {"looking", "storing"} => call.photo # {}
  /\ call.step = "ready" => call.photo \subseteq photoFiles

SyncInv ==
  /\ SyncTypeOK
  /\ \A c \in Calls : Carries(calls[c])
  /\ \A photo \in Photos :
       photoRows[photo] <= 1 /\ (photoRows[photo] > 0 => photo \in photoFiles)
  /\ \A item \in Items : told[item] = "applied" => item \in Have
  /\ Have \subseteq Recorded

-----------------------------------------------------------------------------

LEMMA IdleCall == Idle \in Call /\ Idle.step = "idle" /\ Carries(Idle)'
BY DEF Idle, NoResults, Call, Results, Carries

\* What a call has been told stays true.
LEMMA CarriesIsStable ==
  ASSUME NEW call \in Call, Carries(call), Recorded \subseteq Recorded',
         Have \subseteq Have', photoFiles \subseteq photoFiles'
  PROVE  Carries(call)'
BY DEF Carries

\* What it takes for a step of call c to preserve SyncInv.
LEMMA ServerKeepsInv ==
  ASSUME SyncInv, NEW c \in Calls, NEW call \in Call, Set(c, call),
         Carries(call)', UNCHANGED <<open, told, based, waiting, overlapped>>,
         stale' \in SUBSET Operations, current' \in BOOLEAN,
         applied' \in [Operations -> 0..2], photoRows' \in [Photos -> 0..2],
         photoFiles' \in SUBSET Photos, photoFiles \subseteq photoFiles',
         Have \subseteq Have', Have' \subseteq Recorded,
         \A photo \in Photos :
           photoRows'[photo] <= 1
             /\ (photoRows'[photo] > 0 => photo \in photoFiles')
  PROVE  SyncInv'
<1>1. SyncTypeOK
  BY DEF SyncInv
<1>2. SyncTypeOK'
  BY <1>1 DEF SyncTypeOK, Set
<1>3. Recorded' = Recorded
  BY DEF Recorded
<1>4. ASSUME NEW d \in Calls
      PROVE  Carries(calls[d])'
  <2>1. PICK other \in Call : other = calls[d] /\ Carries(other)
    BY <1>1 DEF SyncInv, SyncTypeOK
  <2>2. Carries(other)'
    BY <1>3, <2>1, CarriesIsStable
  <2>3. calls'[d] = call \/ calls'[d] = other
    BY <1>1, <2>1 DEF Set, SyncTypeOK
  <2>4. ASSUME NEW n, n = calls'[d], Carries(n)'
        PROVE  Carries(calls[d])'
    BY <2>4 DEF Carries, Have, Recorded
  <2>5. QED
    BY <2>2, <2>3, <2>4
<1>5. \A item \in Items : told'[item] = "applied" => item \in Have'
  BY <1>1 DEF SyncInv
<1>6. QED
  BY <1>2, <1>3, <1>4, <1>5 DEF SyncInv

\* A step of a call that changes nothing else.
LEMMA QuietCall ==
  ASSUME SyncInv, NEW c \in Calls, NEW call \in Call, Set(c, call),
         Carries(call)', UNCHANGED <<server, device, overlapped>>
  PROVE  SyncInv'
<1>1. SyncTypeOK /\ Have' = Have
  BY DEF SyncInv, Have, server
<1>2. QED
  BY <1>1, ServerKeepsInv DEF SyncInv, SyncTypeOK, server, device

\* An answer to the operation at the head of the batch.
LEMMA ReportedOperation ==
  ASSUME SyncInv, NEW c \in Calls, IsPush(c), NEW result \in Results,
         Report(c, result), UNCHANGED told, Have \subseteq Have',
         photoFiles \subseteq photoFiles',
         result = "applied" => Operation(c) \in Have'
  PROVE  \E call \in Call : Set(c, call) /\ Carries(call)'
<1>1. PICK q \in Call : q = calls[c] /\ Carries(q)
  BY DEF SyncInv, SyncTypeOK
<1>2. PICK operation \in Operations :
        operation = Operation(c) /\ operation \in q.todo
  BY <1>1, OperationIsInBatch
<1>3. PICK todo, step :
        /\ todo = q.todo \ {operation} /\ step \in {"answered", "reading"}
        /\ Set(c, [q EXCEPT !.todo = todo, !.step = step,
                            !.results[operation] = result])
  BY <1>1, <1>2 DEF Report
<1> DEFINE call == [q EXCEPT !.todo = todo, !.step = step,
                             !.results[operation] = result]
<1>4. operation \in Items
  BY DEF Items
<1>5. /\ call \in Call
      /\ call.photo = q.photo /\ call.todo = todo /\ call.step = step
      /\ call.results = [q.results EXCEPT ![operation] = result]
  BY <1>3, <1>4 DEF Call
<1> HIDE DEF call
<1>6. \A item \in Items :
        call.results[item] = IF item = operation THEN result
                             ELSE q.results[item]
  BY <1>5 DEF Call
<1>7. Recorded' = Recorded
  BY DEF Recorded
<1>8. Carries(call)'
  BY <1>1, <1>2, <1>3, <1>5, <1>6, <1>7 DEF Carries
<1>9. QED
  BY <1>3, <1>5, <1>8 DEF call

\* An answer to an upload.
LEMMA ReportedPhoto ==
  ASSUME SyncInv, NEW c \in Calls, IsPhoto(c), NEW result \in Results,
         ReportPhoto(c, result), UNCHANGED told, Have \subseteq Have',
         photoFiles \subseteq photoFiles',
         result = "applied" => Photo(c) \in Have'
  PROVE  \E call \in Call : Set(c, call) /\ Carries(call)'
<1>1. PICK q \in Call : q = calls[c] /\ Carries(q)
  BY DEF SyncInv, SyncTypeOK
<1>2. PICK photo \in Photos : photo = Photo(c)
  BY <1>1, PhotoIsInCall
<1> DEFINE call == [q EXCEPT !.step = "answered", !.results[photo] = result]
<1>3. Set(c, call)
  BY <1>1, <1>2 DEF ReportPhoto
<1>4. photo \in Items
  BY DEF Items
<1>5. /\ call \in Call
      /\ call.photo = q.photo /\ call.todo = q.todo /\ call.step = "answered"
      /\ call.results = [q.results EXCEPT ![photo] = result]
  BY <1>4 DEF Call
<1> HIDE DEF call
<1>6. \A item \in Items :
        call.results[item] = IF item = photo THEN result ELSE q.results[item]
  BY <1>5 DEF Call
<1>7. Recorded' = Recorded
  BY DEF Recorded
<1>8. Carries(call)'
  BY <1>1, <1>2, <1>5, <1>6, <1>7 DEF Carries
<1>9. QED
  BY <1>3, <1>5, <1>8

\* A call that goes to its next step.
LEMMA NextStepOfCall ==
  ASSUME SyncInv, NEW c \in Calls,
         NEW step \in {"looking", "storing", "ready"},
         Set(c, [calls[c] EXCEPT !.step = step]),
         UNCHANGED told, Have \subseteq Have', photoFiles \subseteq photoFiles',
         step \in {"looking", "storing"} => IsPhoto(c),
         step = "ready" => calls[c].photo \subseteq photoFiles'
  PROVE  \E call \in Call : Set(c, call) /\ Carries(call)'
<1>1. PICK q \in Call : q = calls[c] /\ Carries(q)
  BY DEF SyncInv, SyncTypeOK
<1> DEFINE call == [q EXCEPT !.step = step]
<1>2. /\ call \in Call /\ call.photo = q.photo /\ call.todo = q.todo
      /\ call.results = q.results /\ call.step = step
  BY DEF Call
<1> HIDE DEF call
<1>3. Recorded' = Recorded
  BY DEF Recorded
<1>4. Carries(call)'
  BY <1>1, <1>2, <1>3 DEF Carries, IsPhoto
<1>5. QED
  BY <1>1, <1>2, <1>4 DEF call

-----------------------------------------------------------------------------

LEMMA OperationStepKeepsInv ==
  ASSUME SyncInv, NEW c \in Calls,
         OperationRead(c) \/ OperationRejected(c) \/ OperationCommit(c)
  PROVE  SyncInv'
<1>1. /\ SyncTypeOK /\ calls[c] \in Call /\ Carries(calls[c]) /\ IsPush(c)
  BY DEF SyncInv, SyncTypeOK, OperationRead, OperationRejected, OperationCommit
<1>2. CASE OperationRead(c) \/ OperationRejected(c)
  <2>1. UNCHANGED <<server, device, overlapped>> /\ Have' = Have
    BY <1>2 DEF OperationRead, OperationRejected, Have, server
  <2>2. UNCHANGED <<told, photoFiles>>
    BY <2>1 DEF server, device
  <2>3. PICK call \in Call : Set(c, call) /\ Carries(call)'
    <3>1. CASE Report(c, "refused")
      BY <1>1, <2>1, <2>2, <3>1, ReportedOperation DEF Results
    <3>2. CASE Set(c, [calls[c] EXCEPT !.step = "ready"])
      <4>1. calls[c].photo = {}
        BY <1>1 DEF Carries, IsPush
      <4>2. QED
        BY <2>1, <2>2, <3>2, <4>1, NextStepOfCall
    <3>3. QED
      BY <1>2, <3>1, <3>2 DEF OperationRead, OperationRejected
  <2>4. QED
    BY <2>1, <2>3, QuietCall
<1>3. CASE OperationCommit(c)
  <2>1. PICK operation \in Operations :
          operation = Operation(c) /\ operation \in calls[c].todo
    BY <1>1, OperationIsInBatch
  <2>2. /\ applied' = [applied EXCEPT ![operation] = IF @ = 2 THEN 2 ELSE @ + 1]
        /\ UNCHANGED <<open, photoRows, photoFiles, told, based, waiting,
                       overlapped>>
        /\ Report(c, "applied") /\ stale' = based /\ current' = FALSE
    BY <1>3, <2>1 DEF OperationCommit, Touch
  <2>3. /\ applied' \in [Operations -> 0..2] /\ applied'[operation] > 0
        /\ \A other \in Operations :
             other # operation => applied'[other] = applied[other]
    BY <1>1, <2>2 DEF SyncTypeOK
  <2>4. Have' = Have \cup {operation}
    BY <2>2, <2>3 DEF Have
  <2>5. operation \in Recorded
    BY <1>1, <2>1 DEF Carries
  <2>6. PICK call \in Call : Set(c, call) /\ Carries(call)'
    BY <1>1, <2>1, <2>2, <2>4, ReportedOperation DEF Results
  <2>7. QED
    BY <1>1, <2>2, <2>3, <2>4, <2>5, <2>6, ServerKeepsInv
    DEF SyncInv, SyncTypeOK
<1>4. QED
  BY <1>2, <1>3

LEMMA PhotoStepKeepsInv ==
  ASSUME SyncInv, NEW c \in Calls,
         PhotoRead(c) \/ PhotoLook(c) \/ PhotoPut(c) \/ PhotoCommit(c)
  PROVE  SyncInv'
<1>1. /\ SyncTypeOK /\ calls[c] \in Call /\ Carries(calls[c]) /\ IsPhoto(c)
      /\ calls[c].photo \in SUBSET Photos
  BY DEF SyncInv, SyncTypeOK, Carries, IsPhoto, Call, PhotoRead, PhotoLook,
         PhotoPut, PhotoCommit
<1>2. PICK photo \in Photos : photo = Photo(c) /\ photo \in calls[c].photo
  BY <1>1, PhotoIsInCall
<1>3. CASE PhotoRead(c) \/ PhotoLook(c)
  <2>1. UNCHANGED <<server, device, overlapped>> /\ Have' = Have
    BY <1>3 DEF PhotoRead, PhotoLook, Have, server
  <2>2. UNCHANGED <<told, photoFiles>>
    BY <2>1 DEF server, device
  <2>3. PICK call \in Call : Set(c, call) /\ Carries(call)'
    <3>1. CASE ReportPhoto(c, "refused")
      BY <1>1, <2>1, <2>2, <3>1, ReportedPhoto DEF Results
    <3>2. CASE ReportPhoto(c, "applied") /\ photoRows[photo] > 0
      <4>1. Photo(c) \in Have
        BY <1>2, <3>2 DEF Have
      <4>2. QED
        BY <1>1, <2>1, <2>2, <3>2, <4>1, ReportedPhoto DEF Results
    <3>3. CASE \/ Set(c, [calls[c] EXCEPT !.step = "looking"])
               \/ Set(c, [calls[c] EXCEPT !.step = "storing"])
      BY <1>1, <2>1, <2>2, <3>3, NextStepOfCall
    <3>4. QED
      BY <1>2, <1>3, <3>1, <3>2, <3>3 DEF PhotoRead, PhotoLook
  <2>4. QED
    BY <2>1, <2>3, QuietCall
<1>4. CASE PhotoPut(c)
  <2>1. /\ photoFiles' = photoFiles \cup {photo}
        /\ UNCHANGED <<open, stale, applied, photoRows, told, based, current,
                       waiting, overlapped>>
        /\ Set(c, [calls[c] EXCEPT !.step = "ready"])
    BY <1>2, <1>4 DEF PhotoPut, device
  <2>2. Have' = Have
    BY <2>1 DEF Have
  <2>3. calls[c].photo = {photo}
    BY <1>1, <1>2 DEF Carries
  <2>4. PICK call \in Call : Set(c, call) /\ Carries(call)'
    BY <2>1, <2>2, <2>3, NextStepOfCall
  <2>5. /\ photoFiles' \in SUBSET Photos /\ photoFiles \subseteq photoFiles'
        /\ \A other \in Photos :
             photoRows'[other] <= 1
               /\ (photoRows'[other] > 0 => other \in photoFiles')
    BY <1>1, <2>1 DEF SyncInv, SyncTypeOK
  <2>6. /\ Have \subseteq Have' /\ Have' \subseteq Recorded
        /\ stale' \in SUBSET Operations /\ current' \in BOOLEAN
        /\ applied' \in [Operations -> 0..2] /\ photoRows' \in [Photos -> 0..2]
    BY <1>1, <2>1, <2>2 DEF SyncInv, SyncTypeOK
  <2>7. QED
    BY <2>1, <2>4, <2>5, <2>6, ServerKeepsInv
<1>5. CASE PhotoCommit(c)
  <2>1. UNCHANGED <<open, applied, photoFiles, told, based, waiting,
                    overlapped>>
    BY <1>5 DEF PhotoCommit
  <2>2. CASE KeyTaken(photo)
    <3>1. ReportPhoto(c, "none") /\ UNCHANGED <<photoRows, stale, current>>
      BY <1>2, <1>5, <2>2 DEF PhotoCommit
    <3>2. Have' = Have
      BY <2>1, <3>1 DEF Have
    <3>3. PICK call \in Call : Set(c, call) /\ Carries(call)'
      BY <1>1, <2>1, <3>1, <3>2, ReportedPhoto DEF Results
    <3>4. QED
      BY <2>1, <3>1, <3>3, QuietCall DEF server, device
  <2>3. CASE ~ KeyTaken(photo)
    <3>1. /\ photoRows' =
               [photoRows EXCEPT ![photo] = IF @ = 2 THEN 2 ELSE @ + 1]
          /\ stale' = based /\ current' = FALSE /\ ReportPhoto(c, "applied")
      BY <1>2, <1>5, <2>3 DEF PhotoCommit, Touch
    <3>2. photoRows[photo] = 0 /\ photoRows \in [Photos -> 0..2]
      BY <1>1, <2>3 DEF KeyTaken, SyncTypeOK
    <3>3. /\ photoRows' \in [Photos -> 0..2] /\ photoRows'[photo] = 1
          /\ \A other \in Photos :
               other # photo => photoRows'[other] = photoRows[other]
      BY <3>1, <3>2
    <3>4. Have' = Have \cup {photo}
      BY <2>1, <3>3 DEF Have
    <3>5. photo \in Recorded /\ photo \in photoFiles
      BY <1>1, <1>2, <1>5 DEF Carries, PhotoCommit
    <3>6. PICK call \in Call : Set(c, call) /\ Carries(call)'
      BY <1>1, <1>2, <2>1, <3>1, <3>4, ReportedPhoto DEF Results
    <3>7. \A other \in Photos :
            photoRows'[other] <= 1
              /\ (photoRows'[other] > 0 => other \in photoFiles')
      BY <1>1, <2>1, <3>3, <3>5 DEF SyncInv, SyncTypeOK
    <3>8. /\ Have \subseteq Have' /\ Have' \subseteq Recorded
          /\ stale' \in SUBSET Operations /\ current' \in BOOLEAN
          /\ applied' \in [Operations -> 0..2]
          /\ photoFiles' \in SUBSET Photos /\ photoFiles \subseteq photoFiles'
      BY <1>1, <2>1, <3>1, <3>4, <3>5 DEF SyncInv, SyncTypeOK
    <3>9. QED
      BY <2>1, <3>3, <3>6, <3>7, <3>8, ServerKeepsInv
  <2>4. QED
    BY <2>2, <2>3
<1>6. QED
  BY <1>3, <1>4, <1>5

-----------------------------------------------------------------------------

\* A step that leaves the rows, and what is recorded only grows.
LEMMA DeviceKeepsInv ==
  ASSUME SyncInv, SyncTypeOK', UNCHANGED <<applied, photoRows, photoFiles>>,
         Recorded \subseteq Recorded',
         \A item \in Items : told'[item] = "applied" => item \in Have,
         \A c \in Calls :
           \/ calls'[c] = calls[c]
           \/ \E call \in Call : calls'[c] = call /\ Carries(call)'
  PROVE  SyncInv'
<1>1. Have' = Have
  BY DEF Have
<1>2. ASSUME NEW c \in Calls
      PROVE  Carries(calls[c])'
  <2>1. PICK other \in Call : other = calls[c] /\ Carries(other)
    BY DEF SyncInv, SyncTypeOK
  <2>2. Carries(other)'
    BY <1>1, <2>1, CarriesIsStable
  <2>3. ASSUME NEW n, n = calls'[c], Carries(n)'
        PROVE  Carries(calls[c])'
    BY <2>3 DEF Carries, Have, Recorded
  <2>4. QED
    BY <2>1, <2>2, <2>3
<1>3. QED
  BY <1>1, <1>2 DEF SyncInv

LEMMA SendKeepsInv ==
  ASSUME SyncInv, NEW c \in Calls,
         SendPush(c) \/ \E photo \in Photos : SendPhoto(c, photo)
  PROVE  SyncInv'
<1>1. SyncTypeOK
  BY DEF SyncInv
<1>2. /\ UNCHANGED <<server, told, based, current>>
      /\ waiting' = c /\ overlapped' \in BOOLEAN
  BY <1>1 DEF SendPush, SendPhoto, Send, SyncTypeOK
<1>3. PICK call \in Call : Set(c, call) /\ Carries(call)'
  <2>1. Recorded' = Recorded /\ Queued \subseteq Recorded
    BY <1>2 DEF Recorded, Queued
  <2>2. CASE SendPush(c)
    <3>1. PICK batch \in SUBSET Operations : batch = Queued \cap Operations
      OBVIOUS
    <3> DEFINE call == [Idle EXCEPT !.step = "reading", !.todo = batch]
    <3>2. Set(c, call)
      BY <2>2, <3>1 DEF SendPush, Send
    <3>3. /\ call \in Call /\ call.step = "reading" /\ call.photo = {}
          /\ call.todo = batch /\ call.results = NoResults
      BY IdleCall DEF Idle, Call
    <3> HIDE DEF call
    <3>4. Carries(call)'
      BY <2>1, <3>1, <3>3 DEF Carries, NoResults
    <3>5. QED
      BY <3>2, <3>3, <3>4
  <2>3. ASSUME NEW photo \in Photos, SendPhoto(c, photo)
        PROVE  \E call \in Call : Set(c, call) /\ Carries(call)'
    <3> DEFINE call == [Idle EXCEPT !.step = "reading", !.photo = {photo}]
    <3>2. Set(c, call) /\ photo \in Queued
      BY <2>3 DEF SendPhoto, Send
    <3>3. /\ call \in Call /\ call.step = "reading" /\ call.photo = {photo}
          /\ call.todo = {} /\ call.results = NoResults
      BY IdleCall DEF Idle, Call
    <3> HIDE DEF call
    <3>4. Carries(call)'
      BY <2>1, <3>2, <3>3 DEF Carries, NoResults
    <3>5. QED
      BY <3>2, <3>3, <3>4
  <2>4. QED
    BY <2>2, <2>3
<1>4. calls' = [calls EXCEPT ![c] = call] /\ Recorded' = Recorded
  BY <1>2, <1>3 DEF Set, Recorded
<1>5. \A d \in Calls : calls'[d] = calls[d] \/ calls'[d] = call
  BY <1>1, <1>4 DEF SyncTypeOK
<1>6. SyncTypeOK'
  BY <1>1, <1>2, <1>4 DEF SyncTypeOK, server
<1>7. QED
  BY <1>1, <1>2, <1>3, <1>4, <1>5, <1>6, DeviceKeepsInv DEF SyncInv, server

LEMMA HearAnswerKeepsInv ==
  ASSUME SyncInv, NEW c \in Calls, HearAnswer(c)
  PROVE  SyncInv'
<1>1. SyncTypeOK /\ calls[c] \in Call /\ Carries(calls[c])
  BY DEF SyncInv, SyncTypeOK
<1>2. /\ told' = [item \in Items |->
                    IF told[item] = "queued" /\ calls[c].results[item] # "none"
                    THEN calls[c].results[item] ELSE told[item]]
      /\ waiting' = NoCall /\ calls' = [calls EXCEPT ![c] = Idle]
      /\ UNCHANGED <<server, based, current, overlapped>>
  BY DEF HearAnswer, Set
<1>3. calls[c].results \in [Items -> Results]
  BY <1>1 DEF Call
<1>4. /\ told' \in [Items -> Answers]
      /\ \A item \in Items :
           /\ told'[item] = "applied" => item \in Have
           /\ told[item] # "new" => told'[item] # "new"
  BY <1>1, <1>2, <1>3 DEF SyncInv, SyncTypeOK, Carries, Results, Answers
<1>5. Recorded \subseteq Recorded'
  BY <1>4 DEF Recorded
<1>6. \A d \in Calls : calls'[d] = calls[d] \/ calls'[d] = Idle
  BY <1>1, <1>2 DEF SyncTypeOK
<1>7. SyncTypeOK'
  BY <1>1, <1>2, <1>4, IdleCall DEF SyncTypeOK, server
<1>8. QED
  BY <1>2, <1>4, <1>5, <1>6, <1>7, IdleCall, DeviceKeepsInv DEF server

LEMMA OtherStepsKeepInv ==
  ASSUME SyncInv,
         \/ \E item \in Items : Record(item)
         \/ Pull \/ GiveUp \/ SomeoneElse
         \/ \E c \in Calls : Abandon(c)
  PROVE  SyncInv'
<1>1. SyncTypeOK
  BY DEF SyncInv
<1>2. ASSUME NEW item \in Items, Record(item)
      PROVE  SyncInv'
  <2>1. /\ told[item] = "new" /\ told' = [told EXCEPT ![item] = "queued"]
        /\ based' \in SUBSET Operations /\ stale' \in SUBSET Operations
        /\ UNCHANGED <<open, applied, photoRows, photoFiles, calls, current,
                       waiting, overlapped>>
    BY <1>1, <1>2 DEF Record, SyncTypeOK
  <2>2. /\ told' \in [Items -> Answers]
        /\ \A other \in Items :
             /\ told'[other] = "applied" => told[other] = "applied"
             /\ told[other] # "new" => told'[other] # "new"
    BY <1>1, <2>1 DEF SyncTypeOK, Answers
  <2>3. Recorded \subseteq Recorded' /\ SyncTypeOK'
    BY <1>1, <2>1, <2>2 DEF Recorded, SyncTypeOK
  <2>4. QED
    BY <2>1, <2>2, <2>3, DeviceKeepsInv DEF SyncInv
<1>3. CASE Pull \/ GiveUp \/ SomeoneElse
  <2>1. /\ UNCHANGED <<applied, photoRows, photoFiles, told, calls>>
        /\ SyncTypeOK'
    BY <1>1, <1>3 DEF Pull, GiveUp, SomeoneElse, Touch, server, SyncTypeOK
  <2>2. Recorded' = Recorded
    BY <2>1 DEF Recorded
  <2>3. QED
    BY <2>1, <2>2, DeviceKeepsInv DEF SyncInv
<1>4. ASSUME NEW c \in Calls, Abandon(c)
      PROVE  SyncInv'
  BY <1>4, IdleCall, QuietCall DEF Abandon
<1>5. QED
  BY <1>2, <1>3, <1>4

(***************************************************************************)
(* SyncInv is an invariant: a call confirms only what the server has, and  *)
(* a photograph is committed only after its file was stored.               *)
(***************************************************************************)
THEOREM SyncInvariant == Spec => []SyncInv
<1>1. Init => SyncInv
  <2> SUFFICES ASSUME Init
               PROVE  SyncInv
    OBVIOUS
  <2>1. /\ Idle \in Call /\ Idle.photo = {} /\ Idle.todo = {}
        /\ Idle.step = "idle" /\ Idle.results = NoResults
    BY IdleCall DEF Idle
  <2>2. SyncTypeOK
    <3>1. /\ applied \in [Operations -> 0..2] /\ photoRows \in [Photos -> 0..2]
          /\ calls \in [Calls -> Call] /\ told \in [Items -> Answers]
      BY <2>1 DEF Init, Answers
    <3>2. QED
      BY <3>1 DEF Init, SyncTypeOK
  <2>3. \A c \in Calls : Carries(calls[c])
    BY <2>1 DEF Init, Carries, NoResults
  <2>4. Have = {}
    BY DEF Init, Have
  <2>5. QED
    BY <2>2, <2>3, <2>4 DEF Init, SyncInv
<1>2. SyncInv /\ [Next]_vars => SyncInv'
  <2> SUFFICES ASSUME SyncInv, [Next]_vars
               PROVE  SyncInv'
    OBVIOUS
  <2>1. ASSUME NEW c \in Calls, ServerStep(c)
        PROVE  SyncInv'
    BY <2>1, OperationStepKeepsInv, PhotoStepKeepsInv DEF ServerStep
  <2>2. CASE UNCHANGED vars
    <3>1. UNCHANGED <<applied, photoRows, photoFiles, told, calls>>
      BY <2>2 DEF vars, server, device
    <3>2. SyncTypeOK'
      BY <2>2 DEF vars, server, device, SyncInv, SyncTypeOK
    <3>3. Recorded' = Recorded
      BY <3>1 DEF Recorded
    <3>4. QED
      BY <3>1, <3>2, <3>3, DeviceKeepsInv DEF SyncInv
  <2>3. QED
    BY <2>1, <2>2, SendKeepsInv, HearAnswerKeepsInv, OtherStepsKeepInv DEF Next
<1>3. QED
  BY <1>1, <1>2, PTL DEF Spec

(***************************************************************************)
(* Every variable of FieldSync keeps its type.                             *)
(***************************************************************************)
THEOREM SyncTypeCorrect == Spec => []SyncTypeOK
<1>1. SyncInv => SyncTypeOK
  BY DEF SyncInv
<1>2. QED
  BY <1>1, SyncInvariant, PTL

(***************************************************************************)
(* However uploads overlap, are repeated and break off, a photograph has   *)
(* one row at most and that row its file, and nothing else is confirmed.   *)
(***************************************************************************)
THEOREM OneRowPerPhotograph == Spec => []PhotosAreStoredOnce
<1>1. SyncInv => PhotosAreStoredOnce
  <2>1. ASSUME NEW photo \in Photos, photo \in Have
        PROVE  photoRows[photo] > 0
    BY <2>1, SyncAssumption DEF Have
  <2>2. QED
    BY <2>1 DEF SyncInv, PhotosAreStoredOnce, Items
<1>2. QED
  BY <1>1, SyncInvariant, PTL

-----------------------------------------------------------------------------
(* Operations that carry a base version, until calls overlap *)

OneCall ==
  \A c, d \in Calls :
    calls[c].step # "idle" /\ calls[d].step # "idle" => c = d

Accepted(c) == calls[c].step = "ready" /\ IsPush(c)

BasedInv ==
  ~ overlapped =>
    /\ OneCall
    /\ \A operation \in based :
         applied[operation] = 0
           \/ (applied[operation] = 1 /\ operation \in stale)
    /\ \A c \in Calls : Accepted(c) => Operation(c) \notin stale

CallActs(c) == ServerStep(c) \/ HearAnswer(c) \/ Abandon(c)

LEMMA OthersAreIdle ==
  ASSUME SyncTypeOK, BasedInv, NEW c \in Calls, CallActs(c), ~ overlapped'
  PROVE  /\ ~ overlapped
         /\ OneCall'
         /\ \A d \in Calls \ {c} :
              calls[d].step = "idle" /\ calls'[d] = calls[d]
<1>1. UNCHANGED overlapped /\ calls[c].step # "idle"
  BY DEF CallActs, ServerStep, HearAnswer, Abandon, OperationRead,
         OperationCommit, OperationRejected, PhotoRead, PhotoLook, PhotoPut,
         PhotoCommit
<1>2. \E call : Set(c, call)
  BY DEF CallActs, ServerStep, HearAnswer, Abandon, OperationRead,
         OperationCommit, OperationRejected, PhotoRead, PhotoLook, PhotoPut,
         PhotoCommit, Report, ReportPhoto
<1>3. \A d \in Calls \ {c} : calls'[d] = calls[d]
  BY <1>2 DEF Set, SyncTypeOK
<1>4. \A d \in Calls \ {c} : calls[d].step = "idle"
  BY <1>1 DEF BasedInv, OneCall
<1>5. QED
  BY <1>1, <1>3, <1>4 DEF OneCall

\* An answered operation is off the batch: the call is no longer at "ready".
LEMMA ReportEndsReady ==
  ASSUME SyncTypeOK, NEW c \in Calls, NEW result,
         Report(c, result) \/ (IsPhoto(c) /\ ReportPhoto(c, result))
  PROVE  calls'[c].step # "ready"
<1>1. calls[c] \in Call
  BY DEF SyncTypeOK
<1>2. CASE Report(c, result)
  <2>1. PICK todo, step :
          /\ step \in {"answered", "reading"}
          /\ calls' = [calls EXCEPT ![c] =
               [calls[c] EXCEPT !.todo = todo, !.step = step,
                                !.results[Operation(c)] = result]]
    BY <1>2 DEF Report, Set
  <2>2. [calls[c] EXCEPT !.todo = todo, !.step = step,
                         !.results[Operation(c)] = result].step = step
    BY <1>1 DEF Call
  <2>3. QED
    BY <2>1, <2>2 DEF SyncTypeOK
<1>3. CASE ReportPhoto(c, result)
  <2>1. PICK photo :
          calls' = [calls EXCEPT ![c] =
            [calls[c] EXCEPT !.step = "answered", !.results[photo] = result]]
    BY <1>3 DEF ReportPhoto, Set
  <2>2. [calls[c] EXCEPT !.step = "answered", !.results[photo] = result].step
          = "answered"
    BY <1>1 DEF Call
  <2>3. QED
    BY <2>1, <2>2 DEF SyncTypeOK
<1>4. QED
  BY <1>2, <1>3

LEMMA CallKeepsBasedInv ==
  ASSUME SyncInv, BasedInv, NEW c \in Calls, CallActs(c), ~ overlapped'
  PROVE  BasedInv'
<1>1. SyncTypeOK /\ Carries(calls[c]) /\ calls[c] \in Call
  BY DEF SyncInv, SyncTypeOK
<1>2. /\ ~ overlapped /\ OneCall'
      /\ \A d \in Calls \ {c} :
           calls[d].step = "idle" /\ calls'[d] = calls[d]
  BY <1>1, OthersAreIdle
<1>3. /\ \A operation \in based :
           applied[operation] = 0
             \/ (applied[operation] = 1 /\ operation \in stale)
      /\ Accepted(c) => Operation(c) \notin stale
  BY <1>2 DEF BasedInv
<1>4. ASSUME based' = based, stale' = stale \/ stale' = based,
             \A operation \in based :
               \/ applied'[operation] = applied[operation]
               \/ applied'[operation] = 1 /\ stale' = based,
             calls'[c].step = "ready" /\ calls'[c].todo # {} =>
               Min(calls'[c].todo) \notin stale'
      PROVE  BasedInv'
  BY <1>2, <1>3, <1>4 DEF BasedInv, Accepted, IsPush, Operation
<1>5. CASE OperationRead(c) \/ OperationRejected(c)
  <2>1. UNCHANGED <<stale, applied, based>>
    BY <1>5 DEF OperationRead, OperationRejected, server, device
  <2>2. CASE Report(c, "refused")
    BY <1>1, <1>4, <2>1, <2>2, ReportEndsReady
  <2>3. CASE /\ Set(c, [calls[c] EXCEPT !.step = "ready"])
             /\ Accepts(Operation(c))
    <3>1. calls'[c].todo = calls[c].todo
      BY <1>1, <2>3 DEF Set, SyncTypeOK, Call
    <3>2. QED
      BY <1>4, <2>1, <2>3, <3>1 DEF Accepts, Operation
  <2>4. QED
    BY <1>5, <2>2, <2>3 DEF OperationRead, OperationRejected
<1>6. CASE OperationCommit(c)
  <2>1. PICK operation \in Operations : operation = Operation(c)
    BY <1>1, <1>6, OperationIsInBatch DEF OperationCommit
  <2>2. /\ applied' = [applied EXCEPT ![operation] = IF @ = 2 THEN 2 ELSE @ + 1]
        /\ stale' = based /\ based' = based /\ Report(c, "applied")
        /\ operation \notin stale
    BY <1>3, <1>6, <2>1 DEF OperationCommit, Touch, Accepted
  <2>3. \A other \in based :
          \/ applied'[other] = applied[other]
          \/ applied'[other] = 1
    BY <1>1, <1>3, <2>2 DEF SyncTypeOK
  <2>4. QED
    BY <1>1, <1>4, <2>2, <2>3, ReportEndsReady
<1>7. CASE PhotoRead(c) \/ PhotoLook(c) \/ PhotoPut(c) \/ PhotoCommit(c)
  <2>1. IsPhoto(c) /\ calls[c].todo = {}
    BY <1>1, <1>7 DEF PhotoRead, PhotoLook, PhotoPut, PhotoCommit, Carries,
                      IsPhoto
  <2>2. /\ UNCHANGED <<applied, based>>
        /\ stale' = stale \/ stale' = based
    BY <1>7 DEF PhotoRead, PhotoLook, PhotoPut, PhotoCommit, Touch, server,
                device
  <2>3. PICK step, photo, result :
          \/ Set(c, [calls[c] EXCEPT !.step = step])
          \/ ReportPhoto(c, result)
    BY <1>7 DEF PhotoRead, PhotoLook, PhotoPut, PhotoCommit
  <2>4. CASE ReportPhoto(c, result)
    BY <1>1, <1>4, <2>1, <2>2, <2>4, ReportEndsReady
  <2>5. CASE Set(c, [calls[c] EXCEPT !.step = step])
    <3>1. calls'[c].todo = {}
      BY <1>1, <2>1, <2>5 DEF Set, SyncTypeOK, Call
    <3>2. QED
      BY <1>4, <2>2, <3>1
  <2>6. QED
    BY <2>3, <2>4, <2>5
<1>8. CASE HearAnswer(c) \/ Abandon(c)
  <2>1. UNCHANGED <<stale, applied, based>> /\ Set(c, Idle)
    BY <1>8 DEF HearAnswer, Abandon, server, device
  <2>2. calls'[c] = Idle
    BY <1>1, <2>1 DEF Set, SyncTypeOK
  <2>3. QED
    BY <1>4, <2>1, <2>2, IdleCall
<1>9. QED
  BY <1>5, <1>6, <1>7, <1>8 DEF CallActs, ServerStep

LEMMA SurroundingsKeepBasedInv ==
  ASSUME SyncInv, BasedInv, ~ overlapped',
         \/ \E item \in Items : Record(item)
         \/ Pull \/ GiveUp \/ SomeoneElse
         \/ \E c \in Calls :
              SendPush(c) \/ \E photo \in Photos : SendPhoto(c, photo)
  PROVE  BasedInv'
<1>1. SyncTypeOK
  BY DEF SyncInv
<1>2. ASSUME NEW item \in Items, Record(item)
      PROVE  BasedInv'
  <2>1. /\ UNCHANGED <<applied, calls, overlapped>> /\ told[item] = "new"
        /\ stale' \subseteq stale \cup {item} /\ stale \subseteq stale'
        /\ based' \subseteq based \cup {item} /\ based' \in SUBSET Operations
    BY <1>1, <1>2 DEF Record, SyncTypeOK
  <2>2. item \notin Recorded
    BY <2>1 DEF Recorded
  <2>3. item \in Operations => applied[item] = 0
    BY <1>1, <2>2 DEF SyncInv, Have, SyncTypeOK
  <2>4. ASSUME NEW c \in Calls, Accepted(c)
        PROVE  Operation(c) \notin stale'
    <3>1. Operation(c) \in Recorded
      BY <1>1, <2>4, OperationIsInBatch
      DEF Accepted, SyncInv, SyncTypeOK, Carries
    <3>2. QED
      BY <2>1, <2>2, <2>4, <3>1 DEF BasedInv
  <2>5. ASSUME ~ overlapped, NEW operation \in based'
        PROVE  applied[operation] = 0
                 \/ (applied[operation] = 1 /\ operation \in stale')
    <3>1. CASE operation \in based
      BY <2>1, <2>5, <3>1 DEF BasedInv
    <3>2. CASE operation = item
      <4>1. item \in Operations
        BY <2>1, <2>5, <3>2
      <4>2. QED
        BY <2>3, <3>2, <4>1
    <3>3. QED
      BY <2>1, <2>5, <3>1, <3>2
  <2>6. (OneCall' <=> OneCall)
        /\ \A c \in Calls : (Accepted(c)' <=> Accepted(c))
                            /\ Operation(c)' = Operation(c)
    BY <2>1 DEF OneCall, Accepted, IsPush, Operation
  <2>7. QED
    BY <2>1, <2>4, <2>5, <2>6 DEF BasedInv
<1>3. CASE Pull \/ GiveUp
  BY <1>3 DEF Pull, GiveUp, server, BasedInv, OneCall, Accepted, IsPush,
              Operation
<1>4. CASE SomeoneElse
  <2>1. /\ UNCHANGED <<applied, calls, based>> /\ stale' = based
        /\ ~ overlapped /\ \A c \in Calls : calls[c].step = "idle"
    BY <1>4 DEF SomeoneElse, Touch, Busy
  <2>2. QED
    BY <2>1 DEF BasedInv, OneCall, Accepted
<1>5. ASSUME NEW c \in Calls,
             SendPush(c) \/ \E photo \in Photos : SendPhoto(c, photo)
      PROVE  BasedInv'
  <2>1. PICK call : Send(c, call) /\ call.step = "reading"
    <3>1. CASE SendPush(c)
      <4> DEFINE call == [Idle EXCEPT !.step = "reading",
                                      !.todo = Queued \cap Operations]
      <4>1. Send(c, call)
        BY <3>1 DEF SendPush
      <4>2. call.step = "reading"
        BY DEF Idle
      <4> HIDE DEF call
      <4>3. QED
        BY <4>1, <4>2
    <3>2. ASSUME NEW photo \in Photos, SendPhoto(c, photo)
          PROVE  \E call : Send(c, call) /\ call.step = "reading"
      <4> DEFINE call == [Idle EXCEPT !.step = "reading", !.photo = {photo}]
      <4>1. Send(c, call)
        BY <3>2 DEF SendPhoto
      <4>2. call.step = "reading"
        BY DEF Idle
      <4> HIDE DEF call
      <4>3. QED
        BY <4>1, <4>2
    <3>3. QED
      BY <1>5, <3>1, <3>2
  <2>2. /\ UNCHANGED <<applied, stale, based>> /\ ~ overlapped
        /\ \A d \in Calls : calls[d].step = "idle"
        /\ calls' = [calls EXCEPT ![c] = call]
    BY <2>1 DEF Send, Set, server, Busy
  <2>3. \A d \in Calls : calls'[d].step # "ready"
                         /\ (calls'[d].step # "idle" => d = c)
    BY <1>1, <2>1, <2>2 DEF SyncTypeOK
  <2>4. QED
    BY <2>2, <2>3 DEF BasedInv, OneCall, Accepted
<1>6. QED
  BY <1>2, <1>3, <1>4, <1>5

(***************************************************************************)
(* Until calls overlap, an operation that carries a base version is        *)
(* applied once: its own change makes the version stale for a replay.      *)
(***************************************************************************)
THEOREM ReplaysOfBasedOperationsAreRefused == Spec => []BasedOperationsApplyOnce
<1>1. Init => BasedInv
  BY IdleCall DEF Init, BasedInv, OneCall, Accepted
<1>2. SyncInv /\ BasedInv /\ [Next]_vars => BasedInv'
  <2> SUFFICES ASSUME SyncInv, BasedInv, [Next]_vars
               PROVE  BasedInv'
    OBVIOUS
  <2>1. CASE overlapped'
    BY <2>1 DEF BasedInv
  <2>2. CASE UNCHANGED vars
    BY <2>2 DEF vars, server, device, BasedInv, OneCall, Accepted, IsPush,
                Operation
  <2>3. CASE Next /\ ~ overlapped'
    BY <2>3, CallKeepsBasedInv, SurroundingsKeepBasedInv DEF Next, CallActs
  <2>4. QED
    BY <2>1, <2>2, <2>3
<1>3. SyncInv /\ BasedInv => BasedOperationsApplyOnce
  BY DEF SyncInv, SyncTypeOK, BasedInv, BasedOperationsApplyOnce
<1>4. QED
  BY <1>1, <1>2, <1>3, SyncInvariant, PTL DEF Spec

-----------------------------------------------------------------------------
(* Every step is one that Delivery allows *)

\* A step after which the server has the same items and the device holds the
\* same answers.
LEMMA QuietStep ==
  ASSUME UNCHANGED <<applied, photoRows, told>>
  PROVE  UNCHANGED Promise!vars
BY DEF Promise!vars

LEMMA TakingStep ==
  ASSUME NEW item \in Recorded, UNCHANGED told,
         Have' = Have \/ Have' = Have \cup {item}
  PROVE  [Promise!Next]_(Promise!vars)
<1>1. item \in Items /\ told[item] # "new"
  BY DEF Recorded
<1>2. CASE Have' = Have
  BY <1>2 DEF Have, Promise!vars
<1>3. CASE Have' = Have \cup {item} /\ item \notin Have
  <2>1. Promise!Take(item)
    BY <1>1, <1>3 DEF Have, Promise!Take
  <2>2. QED
    BY <1>1, <2>1 DEF Promise!Next
<1>4. QED
  BY <1>2, <1>3

LEMMA CommitIsTaking ==
  ASSUME SyncInv, NEW c \in Calls, OperationCommit(c) \/ PhotoCommit(c)
  PROVE  [Promise!Next]_(Promise!vars)
<1>1. SyncTypeOK /\ calls[c] \in Call /\ Carries(calls[c])
  BY DEF SyncInv, SyncTypeOK
<1>2. CASE OperationCommit(c)
  <2>1. PICK operation \in Operations :
          operation = Operation(c) /\ operation \in calls[c].todo
    BY <1>1, <1>2, OperationIsInBatch DEF OperationCommit
  <2>2. /\ applied' = [applied EXCEPT ![operation] = IF @ = 2 THEN 2 ELSE @ + 1]
        /\ UNCHANGED <<photoRows, told>>
    BY <1>2, <2>1 DEF OperationCommit
  <2>3. /\ applied'[operation] > 0
        /\ \A other \in Operations :
             other # operation => applied'[other] = applied[other]
    BY <1>1, <2>2 DEF SyncTypeOK
  <2>4. Have' = Have \cup {operation} /\ operation \in Recorded
    BY <1>1, <2>1, <2>2, <2>3 DEF Have, Carries
  <2>5. QED
    BY <2>2, <2>4, TakingStep
<1>3. CASE PhotoCommit(c)
  <2>1. PICK photo \in Photos : photo = Photo(c) /\ photo \in calls[c].photo
    BY <1>1, <1>3, PhotoIsInCall DEF PhotoCommit
  <2>2. /\ UNCHANGED <<applied, told>>
        /\ \/ UNCHANGED photoRows
           \/ photoRows' =
                [photoRows EXCEPT ![photo] = IF @ = 2 THEN 2 ELSE @ + 1]
    BY <1>3, <2>1 DEF PhotoCommit
  <2>3. CASE UNCHANGED photoRows
    BY <2>2, <2>3, QuietStep
  <2>4. CASE photoRows' =
               [photoRows EXCEPT ![photo] = IF @ = 2 THEN 2 ELSE @ + 1]
    <3>1. /\ photoRows'[photo] > 0
          /\ \A other \in Photos :
               other # photo => photoRows'[other] = photoRows[other]
      BY <1>1, <2>4 DEF SyncTypeOK
    <3>2. Have' = Have \cup {photo} /\ photo \in Recorded
      BY <1>1, <2>1, <2>2, <3>1 DEF Have, Carries
    <3>3. QED
      BY <2>2, <3>2, TakingStep
  <2>5. QED
    BY <2>2, <2>3, <2>4
<1>4. QED
  BY <1>2, <1>3

LEMMA HearingIsAnswering ==
  ASSUME SyncInv, NEW c \in Calls, HearAnswer(c)
  PROVE  Promise!Answer
<1>1. SyncTypeOK /\ calls[c] \in Call /\ Carries(calls[c])
  BY DEF SyncInv, SyncTypeOK
<1>2. /\ told' = [item \in Items |->
                    IF told[item] = "queued" /\ calls[c].results[item] # "none"
                    THEN calls[c].results[item] ELSE told[item]]
      /\ UNCHANGED <<applied, photoRows>>
  BY DEF HearAnswer, server
<1>3. calls[c].results \in [Items -> Results]
  BY <1>1 DEF Call
<1>4. ASSUME NEW item \in Items, told'[item] # told[item]
      PROVE  /\ told[item] = "queued"
             /\ told'[item] \in {"applied", "refused"}
             /\ told'[item] = "applied" => item \in Have
  BY <1>1, <1>2, <1>3, <1>4 DEF Carries, Results
<1>5. QED
  BY <1>2, <1>4 DEF Promise!Answer, Have

(***************************************************************************)
(* Whatever calls are lost, repeated, abandoned or answered late, every    *)
(* step of the device and the services is one that Delivery allows: an     *)
(* item is taken once it is queued, and confirmed only once it was taken.  *)
(***************************************************************************)
THEOREM EveryStepKeepsThePromise ==
  Spec => Promise!Init /\ [][Promise!Next]_(Promise!vars)
<1>1. Init => Promise!Init
  BY DEF Init, Promise!Init
<1>2. SyncInv /\ [Next]_vars => [Promise!Next]_(Promise!vars)
  <2> SUFFICES ASSUME SyncInv, [Next]_vars
               PROVE  [Promise!Next]_(Promise!vars)
    OBVIOUS
  <2>1. ASSUME NEW item \in Items, Record(item)
        PROVE  Promise!Queue(item)
    BY <2>1 DEF Record, Promise!Queue
  <2>2. CASE Pull \/ GiveUp \/ SomeoneElse
    BY <2>2, QuietStep DEF Pull, GiveUp, SomeoneElse, server
  <2>3. ASSUME NEW c \in Calls,
               \/ SendPush(c) \/ Abandon(c)
               \/ \E photo \in Photos : SendPhoto(c, photo)
        PROVE  [Promise!Next]_(Promise!vars)
    BY <2>3, QuietStep DEF SendPush, SendPhoto, Send, Abandon, server, device
  <2>4. ASSUME NEW c \in Calls, ServerStep(c)
        PROVE  [Promise!Next]_(Promise!vars)
    <3>1. CASE OperationCommit(c) \/ PhotoCommit(c)
      BY <3>1, CommitIsTaking
    <3>2. CASE \/ OperationRead(c) \/ OperationRejected(c)
               \/ PhotoRead(c) \/ PhotoLook(c) \/ PhotoPut(c)
      BY <3>2, QuietStep DEF OperationRead, OperationRejected, PhotoRead,
                             PhotoLook, PhotoPut, server, device
    <3>3. QED
      BY <2>4, <3>1, <3>2 DEF ServerStep
  <2>5. CASE UNCHANGED vars
    BY <2>5, QuietStep DEF vars, server, device
  <2>6. QED
    BY <2>1, <2>2, <2>3, <2>4, <2>5, HearingIsAnswering
    DEF Next, Promise!Next
<1>3. QED
  BY <1>1, <1>2, SyncInvariant, PTL DEF Spec

=============================================================================
