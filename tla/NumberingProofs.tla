---------------------------- MODULE NumberingProofs ----------------------------
(***************************************************************************)
(* Proofs about module Numbering.  The inductive invariant says of every   *)
(* request how far behind the table what it has read may be: a number that *)
(* is proposed is at most one past the newest, and one that is inserted is *)
(* exactly that, so that no two transactions hold one of the same year.    *)
(***************************************************************************)
EXTENDS Numbering, TLAPS

Numbered(c) == creators[c].step \in {"proposed", "inserted"}
Inserted(c) == creators[c].step = "inserted"
Looking(c) == creators[c].step \in {"looking", "checking", "ready"}

NumbersFit == \A y \in Years : created[y] <= Limit + 1

ProposalsAreNear ==
  \A c \in Creators :
    Numbered(c) => creators[c].number <= created[creators[c].year] + 1

InsertedIsNext ==
  \A c \in Creators :
    Inserted(c) => creators[c].number = created[creators[c].year] + 1

OneInserted ==
  \A c, d \in Creators :
    Inserted(c) /\ Inserted(d) /\ creators[c].year = creators[d].year => c = d

SuffixesAreNear ==
  /\ properties <= MaxSuffix
  /\ \A c \in Creators : Looking(c) => creators[c].suffix <= properties + 1

IInv ==
  /\ NumberingTypeOK
  /\ NumbersAreConsecutive
  /\ NumbersFit
  /\ ProposalsAreNear
  /\ InsertedIsNext
  /\ OneInserted
  /\ ReferencesAreConsecutive
  /\ SuffixesAreNear

-----------------------------------------------------------------------------
(* The order of the numbers *)

\* No two numbers sort after each other.
LEMMA SortsAfterAsymmetric ==
  ASSUME NEW m \in Numbers, NEW n \in Numbers, SortsAfter(m, n)
  PROVE  ~ SortsAfter(n, m)
  BY NumberingAssumption DEF SortsAfter, Aligned, Numbers

\* The newest of the first k numbers is the last one that fits the width.
LEMMA NewestOfFirst ==
  ASSUME NEW k \in 1..(Limit + 1)
  PROVE  LET n == IF k <= Limit THEN k ELSE Limit
         IN  n \in 1..k /\ IsNewest(n, 1..k)
  BY NumberingAssumption DEF IsNewest, SortsAfter, Aligned

\* What is proposed after the first k numbers: the next, up to the first that
\* outgrows the width, and that one again from then on.
LEMMA ProposedAfterFirst ==
  ASSUME NEW k \in 0..(Limit + 1)
  PROVE  Proposed(1..k) = IF k <= Limit THEN k + 1 ELSE Limit + 1
  <1>1. CASE k = 0
    <2>1. 1..k = {}
      BY <1>1
    <2> QED
      BY <1>1, <2>1, NumberingAssumption DEF Proposed
  <1>2. CASE k # 0
    <2> DEFINE n == IF k <= Limit THEN k ELSE Limit
               m == CHOOSE i \in 1..k : IsNewest(i, 1..k)
    <2>1. k \in 1..(Limit + 1)
      BY <1>2, NumberingAssumption
    <2>2. n \in 1..k /\ IsNewest(n, 1..k)
      BY <2>1, NewestOfFirst
    <2>3. m \in 1..k /\ IsNewest(m, 1..k)
      BY <2>2
    <2>4. m \in Numbers /\ n \in Numbers
      BY <2>1, <2>2, <2>3, NumberingAssumption DEF Numbers
    <2> HIDE DEF m, n
    <2>5. m = n
      <3>1. SUFFICES ASSUME m # n PROVE FALSE
        OBVIOUS
      <3>2. SortsAfter(m, n) /\ SortsAfter(n, m)
        BY <2>2, <2>3, <3>1 DEF IsNewest
      <3> QED
        BY <2>4, <3>2, SortsAfterAsymmetric
    <2>6. 1..k # {}
      BY <2>2
    <2>7. Proposed(1..k) = m + 1
      BY <2>6 DEF Proposed, m
    <2> QED
      BY <2>1, <2>5, <2>7, NumberingAssumption DEF n
  <1> QED
    BY <1>1, <1>2

-----------------------------------------------------------------------------
(* The fields of a request *)

\* A request that has a number has a year; one that has a suffix, a suffix.
LEMMA CreatorFields ==
  ASSUME NumberingTypeOK, NEW c \in Creators
  PROVE  /\ Numbered(c) =>
              creators[c].year \in Years /\ creators[c].number \in Numbers
         /\ Inserted(c) => creators[c] = [step |-> "inserted",
                             year |-> creators[c].year,
                             number |-> creators[c].number]
         /\ Looking(c) => creators[c].suffix \in Suffixes
  BY DEF NumberingTypeOK, Creator, Numbered, Inserted, Looking

\* Only one request changes in a step of a request.
LEMMA SetOne ==
  ASSUME NumberingTypeOK, NEW c \in Creators, NEW q \in Creator, Set(c, q)
  PROVE  /\ creators' \in [Creators -> Creator]
         /\ creators'[c] = q
         /\ \A d \in Creators : d # c => creators'[d] = creators[d]
  BY DEF NumberingTypeOK, Set

\* A request that ends or gives up is idle.
LEMMA IdleIsCreator == Idle \in Creator
  BY DEF Idle, Creator

-----------------------------------------------------------------------------
(* The steps *)

\* A request moves on and the tables stay: the invariant holds if it does for
\* what that request now holds.
LEMMA TablesStay ==
  ASSUME IInv, NEW c \in Creators, NEW q \in Creator, Set(c, q),
         UNCHANGED <<year, inspectionVars, propertyVars>>,
         q.step \in {"proposed", "inserted"} => q.number <= created[q.year] + 1,
         q.step = "inserted" =>
           /\ q.number = created[q.year] + 1
           /\ \A d \in Creators :
                Inserted(d) /\ d # c => creators[d].year # q.year,
         q.step \in {"looking", "checking", "ready"} =>
           q.suffix <= properties + 1
  PROVE  IInv'
  <1>1. /\ creators' \in [Creators -> Creator]
        /\ creators'[c] = q
        /\ \A d \in Creators : d # c => creators'[d] = creators[d]
    BY SetOne DEF IInv
  <1>2. /\ year' = year /\ taken' = taken /\ created' = created
        /\ registered' = registered /\ properties' = properties
    BY DEF inspectionVars, propertyVars
  <1>3. NumberingTypeOK'
    BY <1>1, <1>2 DEF IInv, NumberingTypeOK
  <1>4. NumbersAreConsecutive' /\ NumbersFit' /\ ReferencesAreConsecutive'
    BY <1>2
    DEF IInv, NumbersAreConsecutive, NumbersFit, ReferencesAreConsecutive
  <1>5. ProposalsAreNear'
    BY <1>1, <1>2 DEF IInv, ProposalsAreNear, Numbered
  <1>6. InsertedIsNext'
    BY <1>1, <1>2 DEF IInv, InsertedIsNext, Inserted
  <1>7. OneInserted'
    <2> SUFFICES ASSUME NEW d \in Creators, NEW e \in Creators,
                        Inserted(d)', Inserted(e)',
                        creators'[d].year = creators'[e].year, d # e
                 PROVE  FALSE
      BY DEF OneInserted
    <2>1. CASE d = c
      BY <1>1, <2>1 DEF Inserted
    <2>2. CASE e = c
      BY <1>1, <2>2 DEF Inserted
    <2>3. CASE d # c /\ e # c
      BY <1>1, <2>3 DEF IInv, OneInserted, Inserted
    <2> QED
      BY <2>1, <2>2, <2>3
  <1>8. SuffixesAreNear'
    BY <1>1, <1>2 DEF IInv, SuffixesAreNear, Looking
  <1> QED
    BY <1>3, <1>4, <1>5, <1>6, <1>7, <1>8 DEF IInv

LEMMA InspectionReadStep ==
  ASSUME IInv, NEW c \in Creators, InspectionRead(c)
  PROVE  IInv'
  <1> DEFINE q == [step |-> "proposed", year |-> year,
                   number |-> Proposed(taken[year])]
  <1>1. year \in Years /\ created[year] \in Nat
    BY DEF IInv, NumberingTypeOK
  <1>2. created[year] \in 0..(Limit + 1) /\ taken[year] = 1..created[year]
    BY <1>1, NumberingAssumption DEF IInv, NumbersFit, NumbersAreConsecutive
  <1>3. Proposed(taken[year]) =
          IF created[year] <= Limit THEN created[year] + 1 ELSE Limit + 1
    BY <1>2, ProposedAfterFirst
  <1>4. q.number \in Numbers /\ q.number <= created[year] + 1
    BY <1>1, <1>2, <1>3, NumberingAssumption DEF Numbers
  <1>5. q \in Creator
    BY <1>1, <1>4 DEF Creator
  <1>6. Set(c, q) /\ UNCHANGED <<year, inspectionVars, propertyVars>>
    BY DEF InspectionRead
  <1> QED
    BY <1>4, <1>5, <1>6, TablesStay

LEMMA InspectionInsertStep ==
  ASSUME IInv, NEW c \in Creators, InspectionInsert(c)
  PROVE  IInv'
  <1> DEFINE y == creators[c].year
             n == creators[c].number
             q == [step |-> "inserted", year |-> y, number |-> n]
  <1>1. y \in Years /\ n \in Numbers
    BY CreatorFields DEF IInv, InspectionInsert, Numbered
  <1>2. UNCHANGED <<year, inspectionVars, propertyVars>>
    BY DEF InspectionInsert
  <1>3. CASE NumberTaken(y, n)
    <2>1. Set(c, Idle)
      BY <1>3 DEF InspectionInsert
    <2> QED
      BY <1>2, <2>1, IdleIsCreator, TablesStay DEF Idle
  <1>4. CASE ~ NumberTaken(y, n)
    <2>1. Set(c, q)
      BY <1>4 DEF InspectionInsert
    <2>2. q \in Creator
      BY <1>1 DEF Creator
    <2>3. n = created[y] + 1
      <3>1. n <= created[y] + 1 /\ created[y] \in Nat
        BY <1>1 DEF IInv, ProposalsAreNear, Numbered, InspectionInsert,
                    NumberingTypeOK
      <3>2. n \notin 1..created[y]
        BY <1>1, <1>4 DEF IInv, NumberTaken, NumbersAreConsecutive
      <3> QED
        BY <1>1, <3>1, <3>2 DEF Numbers
    <2>4. ASSUME NEW d \in Creators, Inserted(d), d # c, creators[d].year = y
          PROVE  FALSE
      <3>1. creators[d].number = n
        BY <2>3, <2>4 DEF IInv, InsertedIsNext
      <3>2. creators[d] = [step |-> "inserted", year |-> y, number |-> n]
        BY <2>4, <3>1, CreatorFields DEF IInv
      <3> QED
        BY <2>4, <3>2 DEF InspectionInsert, Claimed
    <2>5. n <= created[y] + 1
      BY <1>1, <2>3 DEF Numbers
    <2> QED
      BY <1>2, <2>1, <2>2, <2>3, <2>4, <2>5, TablesStay
  <1> QED
    BY <1>3, <1>4

LEMMA InspectionCommitStep ==
  ASSUME IInv, NEW c \in Creators, InspectionCommit(c)
  PROVE  IInv'
  <1> DEFINE y == creators[c].year
             n == creators[c].number
  <1>1. Inserted(c) /\ y \in Years /\ n \in Numbers
    BY CreatorFields DEF IInv, InspectionCommit, Numbered, Inserted
  <1>2. created[y] \in Nat /\ n = created[y] + 1
    BY <1>1 DEF IInv, NumberingTypeOK, InsertedIsNext
  <1>3. /\ taken' = [taken EXCEPT ![y] = @ \cup {n}]
        /\ created' = [created EXCEPT ![y] = @ + 1]
        /\ year' = year /\ registered' = registered /\ properties' = properties
    BY DEF InspectionCommit, propertyVars
  <1>4. /\ creators' \in [Creators -> Creator]
        /\ creators'[c] = Idle
        /\ \A d \in Creators : d # c => creators'[d] = creators[d]
    BY IdleIsCreator, SetOne DEF IInv, InspectionCommit
  <1>5. /\ created' \in [Years -> Nat]
        /\ created'[y] = created[y] + 1
        /\ \A z \in Years : z # y => created'[z] = created[z]
    BY <1>1, <1>3 DEF IInv, NumberingTypeOK
  <1>6. NumberingTypeOK'
    BY <1>1, <1>3, <1>4, <1>5 DEF IInv, NumberingTypeOK
  <1>7. NumbersAreConsecutive'
    <2> SUFFICES ASSUME NEW z \in Years
                 PROVE  taken'[z] = 1..created'[z]
      BY DEF NumbersAreConsecutive
    <2>1. CASE z = y
      <3>1. taken'[y] = (1..created[y]) \cup {created[y] + 1}
        BY <1>1, <1>2, <1>3 DEF IInv, NumbersAreConsecutive, NumberingTypeOK
      <3>2. (1..created[y]) \cup {created[y] + 1} = 1..(created[y] + 1)
        BY <1>2
      <3> QED
        BY <1>5, <2>1, <3>1, <3>2
    <2>2. CASE z # y
      BY <1>3, <1>5, <2>2 DEF IInv, NumbersAreConsecutive, NumberingTypeOK
    <2> QED
      BY <2>1, <2>2
  <1>8. NumbersFit'
    BY <1>1, <1>2, <1>5, NumberingAssumption DEF IInv, NumbersFit, Numbers
  <1>9. ASSUME NEW d \in Creators, Inserted(d)'
        PROVE  d # c /\ creators'[d] = creators[d] /\ Inserted(d)
                 /\ creators[d].year # y
    <2>1. d # c
      BY <1>4, <1>9 DEF Inserted, Idle
    <2>2. creators'[d] = creators[d] /\ Inserted(d)
      BY <1>4, <1>9, <2>1 DEF Inserted
    <2> QED
      BY <1>1, <2>1, <2>2 DEF IInv, OneInserted
  <1>10. ProposalsAreNear'
    <2> SUFFICES ASSUME NEW d \in Creators, Numbered(d)'
                 PROVE  creators'[d].number <= created'[creators'[d].year] + 1
      BY DEF ProposalsAreNear
    <2>1. d # c /\ creators'[d] = creators[d] /\ Numbered(d)
      BY <1>4 DEF Numbered, Idle
    <2>2. creators[d].year \in Years /\ creators[d].number \in Numbers
      BY <2>1, CreatorFields DEF IInv
    <2>3. creators[d].number <= created[creators[d].year] + 1
      BY <2>1 DEF IInv, ProposalsAreNear
    <2>4. created[creators[d].year] \in Nat
      BY <2>2 DEF IInv, NumberingTypeOK
    <2>5. created'[creators[d].year] \in
            {created[creators[d].year], created[creators[d].year] + 1}
      BY <1>5, <2>2
    <2> HIDE DEF y, n
    <2>6. creators[d].number <= created'[creators[d].year] + 1
      BY <2>2, <2>3, <2>4, <2>5, NumberingAssumption DEF Numbers
    <2> QED
      BY <2>1, <2>6
  <1>11. InsertedIsNext'
    <2> SUFFICES ASSUME NEW d \in Creators, Inserted(d)'
                 PROVE  creators'[d].number = created'[creators'[d].year] + 1
      BY DEF InsertedIsNext
    <2>1. creators'[d] = creators[d] /\ Inserted(d) /\ creators[d].year # y
      BY <1>9
    <2>2. creators[d].year \in Years
      BY <2>1, CreatorFields DEF IInv, Numbered, Inserted
    <2> QED
      BY <1>5, <2>1, <2>2 DEF IInv, InsertedIsNext
  <1>12. OneInserted'
    BY <1>9 DEF IInv, OneInserted
  <1>13. ReferencesAreConsecutive' /\ SuffixesAreNear'
    BY <1>3, <1>4
       DEF IInv, ReferencesAreConsecutive, SuffixesAreNear, Looking, Idle
  <1> QED
    BY <1>6, <1>7, <1>8, <1>10, <1>11, <1>12, <1>13 DEF IInv

LEMMA RegistrationBeginStep ==
  ASSUME IInv, NEW c \in Creators, RegistrationBegin(c)
  PROVE  IInv'
  <1> DEFINE q == [step |-> "looking", suffix |-> 1]
  <1>1. q \in Creator
    BY NumberingAssumption DEF Creator, Suffixes
  <1>2. Set(c, q) /\ UNCHANGED <<year, inspectionVars, propertyVars>>
    BY DEF RegistrationBegin
  <1>3. q.suffix <= properties + 1
    BY DEF IInv, NumberingTypeOK
  <1> QED
    BY <1>1, <1>2, <1>3, TablesStay

LEMMA ReferenceLookStep ==
  ASSUME IInv, NEW c \in Creators, ReferenceLook(c)
  PROVE  IInv'
  <1> DEFINE n == creators[c].suffix
             checking == [step |-> "checking", suffix |-> n]
             looking == [step |-> "looking", suffix |-> n + 1]
  <1>1. n \in Suffixes /\ n <= properties + 1
    BY CreatorFields DEF IInv, SuffixesAreNear, ReferenceLook, Looking
  <1>2. UNCHANGED <<year, inspectionVars, propertyVars>>
    BY DEF ReferenceLook
  <1>3. CASE n \notin registered
    <2>1. Set(c, checking) /\ checking \in Creator
      BY <1>1, <1>3 DEF ReferenceLook, Creator
    <2> QED
      BY <1>1, <1>2, <2>1, TablesStay
  <1>4. CASE n \in registered /\ MoreSuffixes(n)
    <2>1. Set(c, looking)
      BY <1>4 DEF ReferenceLook
    <2>2. looking \in Creator
      BY <1>1, <1>4, NumberingAssumption DEF MoreSuffixes, Creator, Suffixes
    <2>3. n + 1 <= properties + 1
      BY <1>1, <1>4, NumberingAssumption
         DEF IInv, ReferencesAreConsecutive, NumberingTypeOK, Suffixes
    <2> QED
      BY <1>2, <2>1, <2>2, <2>3, TablesStay
  <1>5. CASE n \in registered /\ ~ MoreSuffixes(n)
    <2>1. Set(c, Idle)
      BY <1>5 DEF ReferenceLook
    <2> QED
      BY <1>2, <2>1, IdleIsCreator, TablesStay DEF Idle
  <1> QED
    BY <1>3, <1>4, <1>5

LEMMA ReferenceCheckStep ==
  ASSUME IInv, NEW c \in Creators, ReferenceCheck(c)
  PROVE  IInv'
  <1> DEFINE n == creators[c].suffix
             ready == [step |-> "ready", suffix |-> n]
  <1>1. n \in Suffixes /\ n <= properties + 1
    BY CreatorFields DEF IInv, SuffixesAreNear, ReferenceCheck, Looking
  <1>2. UNCHANGED <<year, inspectionVars, propertyVars>>
    BY DEF ReferenceCheck
  <1>3. CASE n \in registered
    <2>1. Set(c, Idle)
      BY <1>3 DEF ReferenceCheck
    <2> QED
      BY <1>2, <2>1, IdleIsCreator, TablesStay DEF Idle
  <1>4. CASE n \notin registered
    <2>1. Set(c, ready) /\ ready \in Creator
      BY <1>1, <1>4 DEF ReferenceCheck, Creator
    <2> QED
      BY <1>1, <1>2, <2>1, TablesStay
  <1> QED
    BY <1>3, <1>4

LEMMA PropertyCreateStep ==
  ASSUME IInv, NEW c \in Creators, PropertyCreate(c)
  PROVE  IInv'
  <1> DEFINE n == creators[c].suffix
  <1>1. n \in Suffixes /\ n <= properties + 1
    BY CreatorFields DEF IInv, SuffixesAreNear, PropertyCreate, Looking
  <1>2. Set(c, Idle) /\ UNCHANGED <<year, inspectionVars>>
    BY DEF PropertyCreate
  <1>3. CASE ReferenceTaken(n)
    <2>1. UNCHANGED propertyVars
      BY <1>3 DEF PropertyCreate
    <2> QED
      BY <1>2, <2>1, IdleIsCreator, TablesStay DEF Idle
  <1>4. CASE ~ ReferenceTaken(n)
    <2>1. /\ registered' = registered \cup {n}
          /\ properties' = properties + 1
          /\ year' = year /\ taken' = taken /\ created' = created
      BY <1>2, <1>4 DEF PropertyCreate, inspectionVars
    <2>2. /\ properties \in Nat
          /\ registered = 1..properties
          /\ n = properties + 1
      BY <1>1, <1>4
         DEF IInv, NumberingTypeOK, ReferencesAreConsecutive, ReferenceTaken,
             Suffixes
    <2>3. /\ creators' \in [Creators -> Creator]
          /\ creators'[c] = Idle
          /\ \A d \in Creators : d # c => creators'[d] = creators[d]
      BY <1>2, IdleIsCreator, SetOne DEF IInv
    <2>4. NumberingTypeOK'
      BY <1>1, <2>1, <2>2, <2>3 DEF IInv, NumberingTypeOK
    <2>5. NumbersAreConsecutive' /\ NumbersFit'
      BY <2>1 DEF IInv, NumbersAreConsecutive, NumbersFit
    <2>6. ProposalsAreNear' /\ InsertedIsNext' /\ OneInserted'
      BY <2>1, <2>3 DEF IInv, ProposalsAreNear, InsertedIsNext, OneInserted,
                        Numbered, Inserted, Idle
    <2>7. ReferencesAreConsecutive'
      <3>1. (1..properties) \cup {properties + 1} = 1..(properties + 1)
        BY <2>2
      <3> QED
        BY <2>1, <2>2, <3>1 DEF ReferencesAreConsecutive
    <2>8. SuffixesAreNear'
      <3>1. properties' <= MaxSuffix
        BY <1>1, <2>1, <2>2 DEF Suffixes
      <3>2. ASSUME NEW d \in Creators, Looking(d)'
            PROVE  creators'[d].suffix <= properties' + 1
        <4>1. d # c /\ creators'[d] = creators[d] /\ Looking(d)
          BY <2>3, <3>2 DEF Looking, Idle
        <4>2. creators[d].suffix \in Suffixes
          BY <4>1, CreatorFields DEF IInv
        <4>3. creators[d].suffix <= properties + 1
          BY <4>1 DEF IInv, SuffixesAreNear
        <4> QED
          BY <2>1, <2>2, <4>1, <4>2, <4>3 DEF Suffixes
      <3> QED
        BY <3>1, <3>2 DEF SuffixesAreNear
    <2> QED
      BY <2>4, <2>5, <2>6, <2>7, <2>8 DEF IInv
  <1> QED
    BY <1>3, <1>4

LEMMA AbandonStep ==
  ASSUME IInv, NEW c \in Creators, Abandon(c)
  PROVE  IInv'
  <1>1. Set(c, Idle) /\ UNCHANGED <<year, inspectionVars, propertyVars>>
    BY DEF Abandon
  <1> QED
    BY <1>1, IdleIsCreator, TablesStay DEF Idle

LEMMA NewYearStep ==
  ASSUME IInv, NewYear
  PROVE  IInv'
  <1>1. /\ year' \in Years
        /\ taken' = taken /\ created' = created /\ creators' = creators
        /\ registered' = registered /\ properties' = properties
    BY DEF NewYear, inspectionVars, propertyVars
  <1> QED
    BY <1>1 DEF IInv, NumberingTypeOK, NumbersAreConsecutive, NumbersFit,
                ProposalsAreNear, InsertedIsNext, OneInserted,
                ReferencesAreConsecutive, SuffixesAreNear, Numbered, Inserted,
                Looking

-----------------------------------------------------------------------------
(* The invariant *)

LEMMA IInvInit == Init => IInv
  <1> SUFFICES ASSUME Init PROVE IInv
    OBVIOUS
  <1>1. NumberingTypeOK
    BY IdleIsCreator DEF Init, NumberingTypeOK
  <1>2. 1..0 = {}
    OBVIOUS
  <1>3. NumbersAreConsecutive /\ ReferencesAreConsecutive
    BY <1>2 DEF Init, NumbersAreConsecutive, ReferencesAreConsecutive
  <1>4. NumbersFit
    BY NumberingAssumption DEF Init, NumbersFit
  <1>5. \A c \in Creators : ~ Numbered(c) /\ ~ Inserted(c) /\ ~ Looking(c)
    BY DEF Init, Idle, Numbered, Inserted, Looking
  <1>6. properties <= MaxSuffix
    BY NumberingAssumption DEF Init
  <1> QED
    BY <1>1, <1>3, <1>4, <1>5, <1>6
       DEF IInv, ProposalsAreNear, InsertedIsNext, OneInserted, SuffixesAreNear

LEMMA IInvNext == IInv /\ [Next]_vars => IInv'
  <1> SUFFICES ASSUME IInv, [Next]_vars PROVE IInv'
    OBVIOUS
  <1>1. CASE NewYear
    BY <1>1, NewYearStep
  <1>2. ASSUME NEW c \in Creators, CreatorStep(c)
        PROVE  IInv'
    <2>1. CASE InspectionRead(c)
      BY <2>1, InspectionReadStep
    <2>2. CASE InspectionInsert(c)
      BY <2>2, InspectionInsertStep
    <2>3. CASE InspectionCommit(c)
      BY <2>3, InspectionCommitStep
    <2>4. CASE RegistrationBegin(c)
      BY <2>4, RegistrationBeginStep
    <2>5. CASE ReferenceLook(c)
      BY <2>5, ReferenceLookStep
    <2>6. CASE ReferenceCheck(c)
      BY <2>6, ReferenceCheckStep
    <2>7. CASE PropertyCreate(c)
      BY <2>7, PropertyCreateStep
    <2>8. CASE Abandon(c)
      BY <2>8, AbandonStep
    <2> QED
      BY <1>2, <2>1, <2>2, <2>3, <2>4, <2>5, <2>6, <2>7, <2>8 DEF CreatorStep
  <1>3. CASE UNCHANGED vars
    BY <1>3 DEF vars, inspectionVars, propertyVars, IInv, NumberingTypeOK,
                NumbersAreConsecutive, NumbersFit, ProposalsAreNear,
                InsertedIsNext, OneInserted, ReferencesAreConsecutive,
                SuffixesAreNear, Numbered, Inserted, Looking
  <1> QED
    BY <1>1, <1>2, <1>3 DEF Next

LEMMA IInvAlways == Spec => []IInv
  BY IInvInit, IInvNext, PTL DEF Spec

\* The variables keep to their types: no number is proposed beyond the first
\* that outgrows six digits, and no suffix beyond the last that is tried.
THEOREM NumberingTypeCorrect == Spec => []NumberingTypeOK
  <1>1. IInv => NumberingTypeOK
    BY DEF IInv
  <1> QED
    BY <1>1, IInvAlways, PTL

\* For any number of concurrent creations, the inspections of a year are
\* numbered without gap or duplicate (nextInspectionNumber and create).
THEOREM NumbersConsecutive == Spec => []NumbersAreConsecutive
  <1>1. IInv => NumbersAreConsecutive
    BY DEF IInv
  <1> QED
    BY <1>1, IInvAlways, PTL

\* A number is free for the next creation exactly until the width is exceeded,
\* whatever that width is.
THEOREM NumbersRunOut == Spec => []NumbersRunOutPastTheLimit
  <1>1. ASSUME IInv, NEW y \in Years
        PROVE  Proposed(taken[y]) \in taken[y] <=> created[y] > Limit
    <2>1. created[y] \in Nat /\ created[y] <= Limit + 1
      BY <1>1 DEF IInv, NumberingTypeOK, NumbersFit
    <2>2. created[y] \in 0..(Limit + 1) /\ taken[y] = 1..created[y]
      BY <1>1, <2>1, NumberingAssumption DEF IInv, NumbersAreConsecutive
    <2>3. Proposed(taken[y]) =
            IF created[y] <= Limit THEN created[y] + 1 ELSE Limit + 1
      BY <2>2, ProposedAfterFirst
    <2> QED
      BY <2>1, <2>2, <2>3, NumberingAssumption
  <1>2. IInv => NumbersRunOutPastTheLimit
    BY <1>1 DEF NumbersRunOutPastTheLimit
  <1> QED
    BY <1>2, IInvAlways, PTL

\* For any number of concurrent registrations, the references of an owner and
\* day have the suffixes 1, 2, 3, ... (generateReference and create).
THEOREM ReferencesConsecutive == Spec => []ReferencesAreConsecutive
  <1>1. IInv => ReferencesAreConsecutive
    BY DEF IInv
  <1> QED
    BY <1>1, IInvAlways, PTL

=============================================================================
