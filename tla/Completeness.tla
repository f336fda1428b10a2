----------------------------- MODULE Completeness -----------------------------
(***************************************************************************)
(* The form of one inspection on the standard template, and what           *)
(* computeCompleteness says of it while it is filled in.                   *)
(*                                                                         *)
(* Which sections apply is decided by the service from the property's type *)
(* and two answers; which of their fields show, by the rules stored with   *)
(* the template.  A database trigger recalculates the valuation after each *)
(* answer that is saved: saveValues writes its batch one answer at a time, *)
(* so one answer is one step here.                                         *)
(*                                                                         *)
(* A client may save any answer in any field: neither saveValues nor the   *)
(* synchronisation looks at a field's type, options or rules, so a total   *)
(* that the trigger calculates, a status that is no option and a field     *)
(* that does not show are saved like any other.                            *)
(*                                                                         *)
(* One or two fields stand for the many of each section, one annex for     *)
(* four, one photo rule for three, the building's value for the land's     *)
(* too. Dates, booleans and lists count as given like texts, and are left  *)
(* out where a word or a number is read; the length and pattern of a text  *)
(* behave like the range of a number. Rules of the forms "any" and "max",  *)
(* which no rule of the template uses, are left out.                       *)
(***************************************************************************)
EXTENDS Integers, FiniteSets

CONSTANTS
  MinCount, \* photographs that the photo rule asks for
  Words,    \* that clients write
  Sent      \* per field, the answers that clients save in it

ASSUME CompletenessAssumption == MinCount \in Nat \ {0}

VARIABLES
  propertyType, \* of the property; PATCH /properties/:id changes it
  answers,      \* the inspection_values rows
  assessment,   \* the inspection_assessments row: none, unrated or rated
  photos,       \* photographs of the rule's category
  located,      \* a location has been captured
  valued        \* there is an inspection_valuations row

formVars == <<propertyType, answers, assessment, photos, located, valued>>
evidence == <<assessment, photos, located>>

-----------------------------------------------------------------------------
(* Answers.  A number that is missing is the empty set, a text that is     *)
(* missing is "null".  A text is a word and how it is spelled: exactly so, *)
(* in another case, or with spaces around it, in whatever case.            *)

Answer == [row : BOOLEAN, text : Words \cup {"null"},
           spelling : {"exact", "cased", "padded"}, number : SUBSET Int]

NoRow == [row |-> FALSE, text |-> "null", spelling |-> "exact", number |-> {}]
Cleared == [NoRow EXCEPT !.row = TRUE]

\* The trigger compares a text as it stands, the template's rules in any case,
\* and computeCompleteness also trims it.
IsExactly(answer, word) == answer.text = word /\ answer.spelling = "exact"
SameValue(answer, word) == answer.text = word /\ answer.spelling # "padded"
IsTrimmed(answer, word) == answer.text = word

HasValue(answer) == answer.text \notin {"null", ""} \/ answer.number # {}

\* rawValue: the text, an empty one too, comes before the number.
RawNumber(answer) == IF answer.text = "null" THEN answer.number ELSE {}

-----------------------------------------------------------------------------
(* The template *)

When(field, word) == [field |-> field, equals |-> {word}, min |-> {}]
FromOn(field, n) == [field |-> field, equals |-> {}, min |-> {n}]

Vacant == {When("PROPERTY_STATUS", "VACANT_PLOT")}
Improved == {When("PROPERTY_STATUS", "IMPROVED")}
Annex1 == Improved \cup {FromOn("ANNEX_COUNT", 1)}

Field(section, required, visibleWhen, min) ==
  [section |-> section, required |-> required, visibleWhen |-> visibleWhen,
   min |-> min]

Template == [
  PROPERTY_USE |-> Field("CLASSIFICATION", TRUE, {}, 0),
  PROPERTY_STATUS |-> Field("CLASSIFICATION", TRUE, {}, 0),
  PLOT_SIZE_SQM |-> Field("VACANT_LAND", TRUE, Vacant, 1),
  BUILDING_FLOORS |-> Field("MAIN_BUILDING", TRUE, Improved, 1),
  ANNEX_COUNT |-> Field("ADDITIONAL_BUILDINGS", FALSE, Improved, 0),
  ANNEX_1_USE |-> Field("ANNEX_1", TRUE, Annex1, 0),
  LAND_UNIT_RATE |-> Field("LAND_VALUATION", TRUE, Vacant, 0),
  LAND_ESTIMATED_VALUE |-> Field("LAND_VALUATION", TRUE, Vacant, 0),
  MAIN_BUILDING_VALUE |-> Field("IMPROVED_VALUATION", TRUE, Improved, 0),
  ANNEX_1_VALUE |-> Field("IMPROVED_VALUATION", FALSE, Annex1, 0),
  ANNEX_TOTAL_VALUE |-> Field("IMPROVED_VALUATION", FALSE, Improved, 0),
  IMPROVED_TOTAL_VALUE |-> Field("IMPROVED_VALUATION", TRUE, Improved, 0)]

Fields == DOMAIN Template

ASSUME SentAssumption ==
  /\ "null" \notin Words
  /\ Sent \in [Fields -> SUBSET {answer \in Answer : answer.row}]

-----------------------------------------------------------------------------
(* computeCompleteness: the sections *)

IsLand(a) ==
  \/ propertyType = "LAND"
  \/ \E word \in {"VACANT_PLOT", "LAND", "VACANT LAND"} :
       IsTrimmed(a["PROPERTY_STATUS"], word)

IsResidential(a) == IsTrimmed(a["PROPERTY_USE"], "RESIDENTIAL")

Improvements ==
  {"MAIN_BUILDING", "ADDITIONAL_BUILDINGS", "IMPROVED_VALUATION", "ANNEX_1"}

Excluded(a) ==
  (IF IsLand(a) THEN Improvements ELSE {"LAND_VALUATION"})
  \cup {section \in {"VACANT_LAND"} : IsResidential(a)}

Applicable(a) ==
  LET excluded == Excluded(a)
  IN  {f \in Fields : Template[f].section \notin excluded}

-----------------------------------------------------------------------------
(* evaluateCompleteness *)

\* Mutant: the bound itself does not count.
AboveMin(rule, answer) ==
  /\ \A word \in rule.equals : SameValue(answer, word)
  /\ \A n \in rule.min : \E m \in RawNumber(answer) : m > n

Matches(rule, answer) ==
  /\ \A word \in rule.equals : SameValue(answer, word)
  /\ \A n \in rule.min : \E m \in RawNumber(answer) : m >= n

\* A rule about a field in a section that does not apply finds no value.
Visible(a) ==
  LET applicable == Applicable(a)
  IN  {f \in applicable :
         \A rule \in Template[f].visibleWhen :
           rule.field \in applicable /\ Matches(rule, a[rule.field])}

Required(a) == {f \in Visible(a) : Template[f].required}
Missing(a) == {f \in Required(a) : ~ HasValue(a[f])}

BelowMin(f, answer) == \E n \in answer.number : n < Template[f].min

\* Mutant: what does not show is validated too.
InvalidAnywhere(a) == {f \in Fields : BelowMin(f, a[f])}

Invalid(a) == {f \in Visible(a) : BelowMin(f, a[f])}

\* Whether a total shows is not asked here.
ValueGiven(a) ==
  valued \/ \E f \in {"LAND_ESTIMATED_VALUE", "IMPROVED_TOTAL_VALUE"}
                       \cap Applicable(a) : HasValue(a[f])

\* The requirements apart from the fields: a category that was never assessed
\* is not one of them.
Others ==
  {"photos", "valuation", "location"}
    \cup {other \in {"rating"} : assessment # "none"}

OthersMet(a) ==
  {other \in Others :
     CASE other = "rating" -> assessment = "rated"
       [] other = "photos" -> photos >= MinCount
       [] other = "valuation" -> ValueGiven(a)
       [] other = "location" -> located}

IsComplete(a) == Missing(a) = {} /\ Invalid(a) = {} /\ OthersMet(a) = Others

\* Mutant: the fields that do not show are counted.
CountedAnywhere(a) == {f \in Applicable(a) : Template[f].required}

Counted(a) == Required(a)

Total(a) == Cardinality(Counted(a)) + Cardinality(Others)

Satisfied(a) ==
  Cardinality({f \in Counted(a) : HasValue(a[f])}) + Cardinality(OthersMet(a))

\* Rounded to the nearest whole number.
Percentage(a) == (200 * Satisfied(a) + Total(a)) \div (2 * Total(a))

-----------------------------------------------------------------------------
(* The trigger on inspection_values *)

OrZero(answer) == IF answer.number = {} THEN {0} ELSE answer.number

\* SELECT ... INTO sets NULL when there is no row, and 0 for a row without.
Part(answer) == IF answer.row THEN OrZero(answer) ELSE {}

\* SUM over the codes LIKE 'ANNEX_%_VALUE'.
AnnexSum(a) ==
  {annex + total : annex \in OrZero(a["ANNEX_1_VALUE"]),
                   total \in OrZero(a["ANNEX_TOTAL_VALUE"])}

\* The total takes the place of whatever its row held.
Upserted(number) == [Cleared EXCEPT !.number = number]

Calculated(a) ==
  LET LandValue == {p * r : p \in Part(a["PLOT_SIZE_SQM"]),
                            r \in Part(a["LAND_UNIT_RATE"])}
      TotalValue == {b + annexes : b \in Part(a["MAIN_BUILDING_VALUE"]),
                                   annexes \in AnnexSum(a)}
  IN  CASE IsExactly(a["PROPERTY_STATUS"], "VACANT_PLOT") ->
             [a EXCEPT !["LAND_ESTIMATED_VALUE"] = Upserted(LandValue)]
        [] IsExactly(a["PROPERTY_STATUS"], "IMPROVED") ->
             [a EXCEPT !["IMPROVED_TOTAL_VALUE"] = Upserted(TotalValue)]
        [] OTHER -> a

-----------------------------------------------------------------------------

\* The trigger's two cases.
StatusIsAnOption(a) ==
  \E word \in {"VACANT_PLOT", "IMPROVED"} :
    IsExactly(a["PROPERTY_STATUS"], word)

\* saveValues, applyValues: a row is inserted or replaced as a whole.
SaveValue(f, answer) ==
  LET saved == [answers EXCEPT ![f] = answer]
  IN  /\ answers' = Calculated(saved)
      /\ valued' = (valued \/ StatusIsAnOption(saved))
      /\ UNCHANGED <<propertyType, evidence>>

SaveAssessment(rating) ==
  /\ assessment' = rating
  /\ UNCHANGED <<propertyType, answers, photos, located, valued>>

\* Bound: no more photographs than the rule asks for.
AddPhoto ==
  /\ photos < MinCount
  /\ photos' = photos + 1
  /\ UNCHANGED <<propertyType, answers, assessment, located, valued>>

\* Mutant: a photograph is counted down whether it is there or not.
AnyPhoto == TRUE

HasPhoto == photos > 0

RemovePhoto ==
  /\ HasPhoto
  /\ photos' = photos - 1
  /\ UNCHANGED <<propertyType, answers, assessment, located, valued>>

AddLocation ==
  /\ located' = TRUE
  /\ UNCHANGED <<propertyType, answers, assessment, photos, valued>>

SaveValuation ==
  /\ valued' = TRUE
  /\ UNCHANGED <<propertyType, answers, evidence>>

Retype(type) ==
  /\ propertyType' = type
  /\ UNCHANGED <<answers, evidence, valued>>

Types == {"LAND", "RESIDENTIAL"}

FormTypeOK ==
  /\ propertyType \in Types
  /\ answers \in [Fields -> Answer]
  /\ assessment \in {"none", "unrated", "rated"}
  /\ photos \in 0..MinCount
  /\ located \in BOOLEAN
  /\ valued \in BOOLEAN

FormInit ==
  /\ propertyType \in Types
  /\ answers = [f \in Fields |-> NoRow]
  /\ assessment = "none"
  /\ photos = 0
  /\ located = FALSE
  /\ valued = FALSE

FormNext ==
  \/ \E f \in Fields : \E answer \in Sent[f] : SaveValue(f, answer)
  \/ \E rating \in {"unrated", "rated"} : SaveAssessment(rating)
  \/ AddPhoto
  \/ RemovePhoto
  \/ AddLocation
  \/ SaveValuation
  \/ \E type \in Types : Retype(type)

FormSpec == FormInit /\ [][FormNext]_formVars

-----------------------------------------------------------------------------
(* Properties *)

\* The form without what was answered and does not show any more.
Shown(a) ==
  LET visible == Visible(a)
  IN  [f \in Fields |-> IF f \in visible THEN a[f] ELSE NoRow]

(***************************************************************************)
(* What does not show, because the use, the status or the type changed or  *)
(* because a client saved it regardless, never blocks the form; and it     *)
(* completes the form only where no valuation was ever written and the     *)
(* status is none of the template's two options, exactly spelled.          *)
(***************************************************************************)
HiddenAnswersDoNotCount ==
  /\ IsComplete(Shown(answers)) => IsComplete(answers)
  /\ valued \/ StatusIsAnOption(answers)
       => (IsComplete(answers) => IsComplete(Shown(answers)))

(***************************************************************************)
(* A complete form of an improved property describes its building and the  *)
(* annex it declares, in whatever order the answers came, provided that    *)
(* the property is not registered as land, the status has no spaces around *)
(* it, and the number of annexes was saved as a number, without a text.    *)
(***************************************************************************)
ImprovementsAreDescribed ==
  /\ IsComplete(answers)
  /\ propertyType # "LAND"
  /\ SameValue(answers["PROPERTY_STATUS"], "IMPROVED")
  => /\ HasValue(answers["BUILDING_FLOORS"])
     /\ (\E n \in RawNumber(answers["ANNEX_COUNT"]) : n >= 1)
          => HasValue(answers["ANNEX_1_USE"])

(***************************************************************************)
(* The form stands at 100% exactly if nothing but an answer out of range   *)
(* can block it.  (Rounding would break this from 200 requirements on.)    *)
(***************************************************************************)
PercentageAgrees ==
  Percentage(answers) = 100
    <=> Missing(answers) = {} /\ OthersMet(answers) = Others

-----------------------------------------------------------------------------
(* What the code's comments say and the code does not keep *)

(***************************************************************************)
(* The trigger notes, in the valuation that it writes, "Calculated as land *)
(* + main building + annex values.": the total of an improved property is  *)
(* the value of its building and that of its annex.                        *)
(***************************************************************************)
TotalIsTheSumOfItsParts ==
  \A building \in answers["MAIN_BUILDING_VALUE"].number,
     annex \in answers["ANNEX_1_VALUE"].number :
    IsExactly(answers["PROPERTY_STATUS"], "IMPROVED")
      => answers["IMPROVED_TOTAL_VALUE"].number = {building + annex}

===============================================================================
