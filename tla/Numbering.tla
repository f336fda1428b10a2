------------------------------- MODULE Numbering -------------------------------
(***************************************************************************)
(* How an organization's inspections and properties get their numbers when *)
(* several people register at the same time.                               *)
(*                                                                         *)
(* The number of an inspection is read off the newest one of the year,     *)
(* "newest" by the order of the text INS-<year>-<six digits>, in the       *)
(* transaction that inserts it.  Nothing is locked; the unique key makes   *)
(* an insert of a number wait for a transaction that has inserted it and   *)
(* fail once that one commits.  The reference of a property is the first   *)
(* of <owner>-<day>, <owner>-<day>-2, ..., -99 not in the table, found by  *)
(* one query each; the insert is a statement of its own.                   *)
(*                                                                         *)
(* One organization, one owner and one day: others do not share a number   *)
(* or reference with them.  No row is ever deleted.                        *)
(***************************************************************************)
EXTENDS Integers

CONSTANTS
  Creators,   \* slots for requests the server handles at one time
  Years,      \* the years in which inspections are created
  Limit,      \* the largest number that fits the padded width (999999)
  MaxSuffix   \* the last suffix of a reference that is tried (99)

ASSUME NumberingAssumption ==
  /\ Years \subseteq Int
  /\ Limit \in Nat /\ Limit >= 9
  /\ MaxSuffix \in Nat /\ MaxSuffix >= 2

VARIABLES
  year,        \* the server's calendar
  taken,       \* the numbers of each year's committed inspections
  created,     \* how many inspections of each year have been committed
  registered,  \* the suffixes of the owner's properties; 1: none
  properties,  \* how many properties the owner has
  creators     \* what each request slot is doing

vars == <<year, taken, created, registered, properties, creators>>
inspectionVars == <<taken, created>>
propertyVars == <<registered, properties>>

\* Text order leaves Limit the newest number for good once it is taken, so that
\* none is proposed past the one after it.
Numbers == 1..(Limit + 1)
Suffixes == 1..MaxSuffix

Idle == [step |-> "idle"]

Creator ==
  [step : {"idle"}]
    \cup [step : {"proposed", "inserted"}, year : Years, number : Numbers]
    \cup [step : {"looking", "checking", "ready"}, suffix : Suffixes]

NumberingTypeOK ==
  /\ year \in Years
  /\ taken \in [Years -> SUBSET Numbers]
  /\ created \in [Years -> Nat]
  /\ registered \in SUBSET Suffixes
  /\ properties \in Nat
  /\ creators \in [Creators -> Creator]

Set(c, creator) == creators' = [creators EXCEPT ![c] = creator]

-----------------------------------------------------------------------------
(* Inspections *)

\* A number past Limit has one digit more: compared from the left, digit by
\* digit, it stands among those whose padded text begins like it.
Aligned(n) == IF n <= Limit THEN 10 * n ELSE n

SortsAfter(m, n) ==
  Aligned(m) > Aligned(n) \/ (Aligned(m) = Aligned(n) /\ m > n)

\* Mutant: the numbers are ordered as numbers.
IsLargest(n, numbers) == n \in numbers /\ \A m \in numbers : m <= n

\* findFirst ... orderBy inspectionNumber desc.
IsNewest(n, numbers) ==
  n \in numbers /\ \A m \in numbers \ {n} : SortsAfter(n, m)

Proposed(numbers) ==
  IF numbers = {} THEN 1
  ELSE (CHOOSE n \in numbers : IsNewest(n, numbers)) + 1

InspectionRead(c) ==
  /\ creators[c].step = "idle"
  /\ Set(c, [step |-> "proposed", year |-> year,
             number |-> Proposed(taken[year])])
  /\ UNCHANGED <<year, inspectionVars, propertyVars>>

\* Another transaction has inserted the number and not ended yet.
Claimed(y, n) ==
  \E d \in Creators :
    creators[d] = [step |-> "inserted", year |-> y, number |-> n]

\* Mutant: nothing keeps a number unique.
NotUnique(y, n) == FALSE

NumberTaken(y, n) == n \in taken[y]

InspectionInsert(c) ==
  LET y == creators[c].year
      n == creators[c].number
  IN  /\ creators[c].step = "proposed"
      /\ ~ Claimed(y, n)
      /\ Set(c, IF NumberTaken(y, n) THEN Idle
                ELSE [step |-> "inserted", year |-> y, number |-> n])
      /\ UNCHANGED <<year, inspectionVars, propertyVars>>

InspectionCommit(c) ==
  LET y == creators[c].year
  IN  /\ creators[c].step = "inserted"
      /\ taken' = [taken EXCEPT ![y] = @ \cup {creators[c].number}]
      /\ created' = [created EXCEPT ![y] = @ + 1]
      /\ Set(c, Idle)
      /\ UNCHANGED <<year, propertyVars>>

-----------------------------------------------------------------------------
(* Properties *)

RegistrationBegin(c) ==
  /\ creators[c].step = "idle"
  /\ Set(c, [step |-> "looking", suffix |-> 1])
  /\ UNCHANGED <<year, inspectionVars, propertyVars>>

\* Mutant: one suffix too many.
OnePastLast(n) == n <= MaxSuffix

MoreSuffixes(n) == n < MaxSuffix

\* One turn of the loop in generateReference; after the last, an error.
ReferenceLook(c) ==
  LET n == creators[c].suffix
  IN  /\ creators[c].step = "looking"
      /\ Set(c, IF n \notin registered
                THEN [step |-> "checking", suffix |-> n]
                ELSE IF MoreSuffixes(n)
                THEN [step |-> "looking", suffix |-> n + 1]
                ELSE Idle)
      /\ UNCHANGED <<year, inspectionVars, propertyVars>>

\* create asks again.
ReferenceCheck(c) ==
  LET n == creators[c].suffix
  IN  /\ creators[c].step = "checking"
      /\ Set(c, IF n \in registered THEN Idle
                ELSE [step |-> "ready", suffix |-> n])
      /\ UNCHANGED <<year, inspectionVars, propertyVars>>

\* Mutant: nothing keeps a reference unique.
ReferenceNotUnique(n) == FALSE

ReferenceTaken(n) == n \in registered

PropertyCreate(c) ==
  LET n == creators[c].suffix
  IN  /\ creators[c].step = "ready"
      /\ Set(c, Idle)
      /\ IF ReferenceTaken(n)
         THEN UNCHANGED propertyVars
         ELSE /\ registered' = registered \cup {n}
              /\ properties' = properties + 1
      /\ UNCHANGED <<year, inspectionVars>>

-----------------------------------------------------------------------------

\* A transaction that fails or times out, a server that stops.
Abandon(c) ==
  /\ creators[c].step # "idle"
  /\ Set(c, Idle)
  /\ UNCHANGED <<year, inspectionVars, propertyVars>>

NewYear ==
  /\ year' = year + 1
  /\ year' \in Years
  /\ UNCHANGED <<inspectionVars, propertyVars, creators>>

Init ==
  /\ year \in Years
  /\ \A y \in Years : year <= y
  /\ taken = [y \in Years |-> {}]
  /\ created = [y \in Years |-> 0]
  /\ registered = {}
  /\ properties = 0
  /\ creators = [c \in Creators |-> Idle]

CreatorStep(c) ==
  \/ InspectionRead(c)
  \/ InspectionInsert(c)
  \/ InspectionCommit(c)
  \/ RegistrationBegin(c)
  \/ ReferenceLook(c)
  \/ ReferenceCheck(c)
  \/ PropertyCreate(c)
  \/ Abandon(c)

Next == NewYear \/ \E c \in Creators : CreatorStep(c)

Spec == Init /\ [][Next]_vars

-----------------------------------------------------------------------------
(* Properties *)

(***************************************************************************)
(* The inspections of a year are numbered 1, 2, 3, ... in the order of     *)
(* their commits: no two share a number and none is left out, however many *)
(* creations overlap, fail on the unique key or roll back.                 *)
(***************************************************************************)
NumbersAreConsecutive == \A y \in Years : taken[y] = 1..created[y]

(***************************************************************************)
(* A creation by itself finds a free number up to the first one that       *)
(* outgrows the six digits, and never one after that: its text sorts       *)
(* before the last padded one, which stays the newest.                     *)
(***************************************************************************)
NumbersRunOutPastTheLimit ==
  \A y \in Years : Proposed(taken[y]) \in taken[y] <=> created[y] > Limit

(***************************************************************************)
(* The owner's references of a day have the suffixes 1 (none), 2, 3, ...   *)
(* without a gap and without a duplicate, although each candidate is       *)
(* looked up long before it is inserted.                                   *)
(***************************************************************************)
ReferencesAreConsecutive == registered = 1..properties

=============================================================================
