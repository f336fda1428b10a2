-------------------------- MODULE CompletenessProofs --------------------------
(***************************************************************************)
(* What the form's completeness says, proved of every form that can be     *)
(* filled in on the standard template, for any number of photographs and   *)
(* whatever clients save in its fields.                                    *)
(*                                                                         *)
(* The invariants are about what computeCompleteness says of one state, so *)
(* most of the work is about its operators: which fields show, and that    *)
(* hiding what does not show changes none of it.  One fact is about the    *)
(* order of steps: a status that is an option, exactly spelled, is never   *)
(* in the form without a valuation (OptionIsValued).                       *)
(***************************************************************************)
EXTENDS Completeness, FiniteSetTheorems, TLAPS

-----------------------------------------------------------------------------
(* The inductive invariant *)

\* The trigger wrote a valuation when the status was saved.
OptionIsValued == StatusIsAnOption(answers) => valued

FormInv == FormTypeOK /\ OptionIsValued

-----------------------------------------------------------------------------
(* Answers and fields *)

\* The fields by name.
LEMMA FieldNames ==
  Fields = {"PROPERTY_USE", "PROPERTY_STATUS", "PLOT_SIZE_SQM",
            "BUILDING_FLOORS", "ANNEX_COUNT", "ANNEX_1_USE", "LAND_UNIT_RATE",
            "LAND_ESTIMATED_VALUE", "MAIN_BUILDING_VALUE", "ANNEX_1_VALUE",
            "ANNEX_TOTAL_VALUE", "IMPROVED_TOTAL_VALUE"}
BY DEF Fields, Template

\* What a client saves is an answer.
LEMMA SentIsTyped ==
  ASSUME NEW f \in Fields, NEW answer \in Sent[f]
  PROVE  answer \in Answer
<1>1. Sent[f] \in SUBSET {sent \in Answer : sent.row}
  BY SentAssumption
<1>2. QED
  BY <1>1

\* A field that was not answered.
LEMMA NoRowIsTyped == NoRow \in Answer /\ NoRow.text = "null"
BY DEF NoRow, Answer

\* A total that was calculated.
LEMMA UpsertedIsTyped ==
  ASSUME NEW number \in SUBSET Int
  PROVE  Upserted(number) \in Answer
BY DEF Upserted, Cleared, NoRow, Answer

-----------------------------------------------------------------------------
(* The trigger *)

\* The trigger writes numbers, and only in the totals.
LEMMA CalculatedIsTyped ==
  ASSUME NEW a \in [Fields -> Answer]
  PROVE  /\ Calculated(a) \in [Fields -> Answer]
         /\ Calculated(a)["PROPERTY_STATUS"] = a["PROPERTY_STATUS"]
<1> DEFINE land == {p * r : p \in Part(a["PLOT_SIZE_SQM"]),
                            r \in Part(a["LAND_UNIT_RATE"])}
           total == {b + annexes : b \in Part(a["MAIN_BUILDING_VALUE"]),
                                   annexes \in AnnexSum(a)}
<1>1. ASSUME NEW f \in Fields
      PROVE  OrZero(a[f]) \subseteq Int /\ Part(a[f]) \subseteq Int
  BY DEF Answer, OrZero, Part
<1>2. land \subseteq Int
  <2>1. /\ Part(a["PLOT_SIZE_SQM"]) \subseteq Int
        /\ Part(a["LAND_UNIT_RATE"]) \subseteq Int
    BY <1>1, FieldNames
  <2>2. QED
    BY <2>1
<1>3. total \subseteq Int
  <2>1. /\ Part(a["MAIN_BUILDING_VALUE"]) \subseteq Int
        /\ OrZero(a["ANNEX_1_VALUE"]) \subseteq Int
        /\ OrZero(a["ANNEX_TOTAL_VALUE"]) \subseteq Int
    BY <1>1, FieldNames
  <2>2. AnnexSum(a) \subseteq Int
    BY <2>1 DEF AnnexSum
  <2>3. QED
    BY <2>1, <2>2
<1> HIDE DEF land, total
<1>4. Upserted(land) \in Answer /\ Upserted(total) \in Answer
  BY <1>2, <1>3, UpsertedIsTyped
<1>5. \/ Calculated(a) = [a EXCEPT !["LAND_ESTIMATED_VALUE"] = Upserted(land)]
      \/ Calculated(a) = [a EXCEPT !["IMPROVED_TOTAL_VALUE"] = Upserted(total)]
      \/ Calculated(a) = a
  <2> DEFINE vacant == IsExactly(a["PROPERTY_STATUS"], "VACANT_PLOT")
             improved == IsExactly(a["PROPERTY_STATUS"], "IMPROVED")
  <2>1. Calculated(a) =
          CASE vacant -> [a EXCEPT !["LAND_ESTIMATED_VALUE"] = Upserted(land)]
            [] improved ->
                 [a EXCEPT !["IMPROVED_TOTAL_VALUE"] = Upserted(total)]
            [] OTHER -> a
    BY DEF Calculated, land, total
  <2>2. ~ (vacant /\ improved)
    BY DEF IsExactly
  <2> HIDE DEF vacant, improved
  <2>3. QED
    BY <2>1, <2>2
<1>6. QED
  BY <1>4, <1>5, FieldNames

-----------------------------------------------------------------------------
(* FormInv is inductive *)

\* An empty form.
LEMMA InitForm == FormInit => FormInv
<1> SUFFICES ASSUME FormInit PROVE FormInv
  OBVIOUS
<1>1. answers \in [Fields -> Answer]
  BY NoRowIsTyped DEF FormInit
<1>2. FormTypeOK
  <2>1. photos \in 0..MinCount
    BY CompletenessAssumption DEF FormInit
  <2>2. QED
    BY <1>1, <2>1 DEF FormInit, FormTypeOK
<1>3. answers["PROPERTY_STATUS"].text = "null"
  BY NoRowIsTyped, FieldNames DEF FormInit
<1>4. OptionIsValued
  BY <1>3 DEF OptionIsValued, StatusIsAnOption, IsExactly
<1>5. QED
  BY <1>2, <1>4 DEF FormInv

\* An answer is saved and the trigger recalculates the valuation.
LEMMA SaveValueKeepsFormInv ==
  ASSUME FormInv, NEW f \in Fields, NEW answer \in Sent[f],
         SaveValue(f, answer)
  PROVE  FormInv'
<1> DEFINE saved == [answers EXCEPT ![f] = answer]
<1>1. /\ answers' = Calculated(saved)
      /\ valued' = (valued \/ StatusIsAnOption(saved))
      /\ UNCHANGED <<propertyType, assessment, photos, located>>
  BY DEF SaveValue, evidence
<1>2. saved \in [Fields -> Answer]
  BY SentIsTyped DEF FormInv, FormTypeOK
<1> HIDE DEF saved
<1>3. /\ answers' \in [Fields -> Answer]
      /\ answers'["PROPERTY_STATUS"] = saved["PROPERTY_STATUS"]
  BY <1>1, <1>2, CalculatedIsTyped
<1>4. StatusIsAnOption(answers)' <=> StatusIsAnOption(saved)
  BY <1>3 DEF StatusIsAnOption, IsExactly
<1>5. OptionIsValued'
  BY <1>1, <1>4, Zenon DEF OptionIsValued
<1>6. valued' \in BOOLEAN
  BY <1>1, Zenon DEF FormInv, FormTypeOK
<1>7. FormTypeOK'
  BY <1>1, <1>3, <1>6 DEF FormInv, FormTypeOK
<1>8. QED
  BY <1>5, <1>7 DEF FormInv

\* A step that leaves the answers alone.
LEMMA QuietStepKeepsFormInv ==
  ASSUME FormInv, answers' = answers, valued => valued', FormTypeOK'
  PROVE  FormInv'
BY DEF FormInv, OptionIsValued, StatusIsAnOption, IsExactly

\* FormInv is inductive.
LEMMA FormStep == FormInv /\ [FormNext]_formVars => FormInv'
<1> SUFFICES ASSUME FormInv, [FormNext]_formVars PROVE FormInv'
  OBVIOUS
<1> USE DEF evidence
<1>0. FormTypeOK
  BY DEF FormInv
<1>1. CASE \E f \in Fields : \E answer \in Sent[f] : SaveValue(f, answer)
  BY <1>1, SaveValueKeepsFormInv
<1>2. CASE \E rating \in {"unrated", "rated"} : SaveAssessment(rating)
  BY <1>0, <1>2, QuietStepKeepsFormInv DEF SaveAssessment, FormTypeOK
<1>3. CASE AddPhoto
  BY <1>0, <1>3, QuietStepKeepsFormInv, CompletenessAssumption
  DEF AddPhoto, FormTypeOK
<1>4. CASE RemovePhoto
  BY <1>0, <1>4, QuietStepKeepsFormInv, CompletenessAssumption
  DEF RemovePhoto, HasPhoto, FormTypeOK
<1>5. CASE AddLocation
  BY <1>0, <1>5, QuietStepKeepsFormInv DEF AddLocation, FormTypeOK
<1>6. CASE SaveValuation
  BY <1>0, <1>6, QuietStepKeepsFormInv DEF SaveValuation, FormTypeOK
<1>7. CASE \E type \in Types : Retype(type)
  BY <1>0, <1>7, QuietStepKeepsFormInv DEF Retype, FormTypeOK
<1>8. CASE UNCHANGED formVars
  BY <1>0, <1>8, QuietStepKeepsFormInv DEF formVars, FormTypeOK
<1>9. QED
  BY <1>1, <1>2, <1>3, <1>4, <1>5, <1>6, <1>7, <1>8 DEF FormNext

(***************************************************************************)
(* Whatever is saved, in whatever order, and whatever the trigger makes of *)
(* it, FormInv holds.                                                      *)
(***************************************************************************)
THEOREM FormInvariant == FormSpec => []FormInv
BY InitForm, FormStep, PTL DEF FormSpec

(***************************************************************************)
(* The totals that the trigger calculates are in range, and every part of  *)
(* the form has its type.                                                  *)
(***************************************************************************)
THEOREM FormTypeCorrect == FormSpec => []FormTypeOK
<1>1. FormInv => FormTypeOK
  BY DEF FormInv
<1>2. QED
  BY <1>1, FormInvariant, PTL

-----------------------------------------------------------------------------
(* Which fields show *)

\* The sections of the fields.
LEMMA Sections ==
  /\ \A f \in {"PROPERTY_USE", "PROPERTY_STATUS"} :
       Template[f].section = "CLASSIFICATION"
  /\ Template["PLOT_SIZE_SQM"].section = "VACANT_LAND"
  /\ Template["BUILDING_FLOORS"].section = "MAIN_BUILDING"
  /\ Template["ANNEX_COUNT"].section = "ADDITIONAL_BUILDINGS"
  /\ Template["ANNEX_1_USE"].section = "ANNEX_1"
  /\ \A f \in {"LAND_UNIT_RATE", "LAND_ESTIMATED_VALUE"} :
       Template[f].section = "LAND_VALUATION"
  /\ \A f \in {"MAIN_BUILDING_VALUE", "ANNEX_1_VALUE", "ANNEX_TOTAL_VALUE",
               "IMPROVED_TOTAL_VALUE"} :
       Template[f].section = "IMPROVED_VALUATION"
BY DEF Template, Field

\* The rules of the fields.
LEMMA Rules ==
  /\ \A f \in {"PROPERTY_USE", "PROPERTY_STATUS"} :
       Template[f].visibleWhen = {}
  /\ \A f \in {"PLOT_SIZE_SQM", "LAND_UNIT_RATE", "LAND_ESTIMATED_VALUE"} :
       Template[f].visibleWhen = Vacant
  /\ \A f \in {"BUILDING_FLOORS", "ANNEX_COUNT", "MAIN_BUILDING_VALUE",
               "ANNEX_TOTAL_VALUE", "IMPROVED_TOTAL_VALUE"} :
       Template[f].visibleWhen = Improved
  /\ \A f \in {"ANNEX_1_USE", "ANNEX_1_VALUE"} :
       Template[f].visibleWhen = Annex1
BY DEF Template, Field

\* The fields that may have to be answered and that the properties name.
LEMMA RequiredFields ==
  \A f \in {"PROPERTY_STATUS", "BUILDING_FLOORS", "ANNEX_1_USE"} :
    Template[f].required
BY DEF Template, Field

\* A rule is about the status, or about the number of annexes of an improved
\* property.
LEMMA RulesAreAboutShownFields ==
  ASSUME NEW f \in Fields, NEW rule \in Template[f].visibleWhen
  PROVE  \/ rule.field = "PROPERTY_STATUS"
         \/ /\ rule.field = "ANNEX_COUNT"
            /\ When("PROPERTY_STATUS", "IMPROVED") \in Template[f].visibleWhen
BY FieldNames, Rules DEF Vacant, Improved, Annex1, When, FromOn

\* The classification of the property always shows.
LEMMA ClassificationShows ==
  ASSUME NEW a
  PROVE  {"PROPERTY_USE", "PROPERTY_STATUS"} \subseteq Visible(a)
<1>1. "CLASSIFICATION" \notin Excluded(a)
  BY DEF Excluded, Improvements
<1>2. {"PROPERTY_USE", "PROPERTY_STATUS"} \subseteq Applicable(a)
  BY <1>1, Sections, FieldNames DEF Applicable
<1>3. QED
  BY <1>2, Rules DEF Visible

\* The number of annexes shows where the status says improved.
LEMMA AnnexCountShows ==
  ASSUME NEW a, "ANNEX_COUNT" \in Applicable(a),
         Matches(When("PROPERTY_STATUS", "IMPROVED"), a["PROPERTY_STATUS"])
  PROVE  "ANNEX_COUNT" \in Visible(a)
<1>1. "PROPERTY_STATUS" \in Applicable(a)
  BY ClassificationShows DEF Visible
<1>2. \A rule \in Template["ANNEX_COUNT"].visibleWhen :
        /\ rule.field = "PROPERTY_STATUS"
        /\ rule = When("PROPERTY_STATUS", "IMPROVED")
  BY Rules DEF Improved, When
<1>3. QED
  BY <1>1, <1>2 DEF Visible

\* What shows of what shows: hiding the rest changes neither the sections
\* that apply nor the fields that show.
LEMMA HidingHidesNoMore ==
  ASSUME NEW a \in [Fields -> Answer]
  PROVE  /\ Applicable(Shown(a)) = Applicable(a)
         /\ Visible(Shown(a)) = Visible(a)
         /\ \A f \in Visible(a) : Shown(a)[f] = a[f]
         /\ \A f \in Fields \ Visible(a) : Shown(a)[f] = NoRow
<1> DEFINE b == Shown(a)
<1>1. /\ \A f \in Visible(a) : b[f] = a[f]
      /\ \A f \in Fields \ Visible(a) : b[f] = NoRow
  BY DEF Shown, Visible, Applicable
<1> HIDE DEF b
<1>2. /\ b["PROPERTY_STATUS"] = a["PROPERTY_STATUS"]
      /\ b["PROPERTY_USE"] = a["PROPERTY_USE"]
  BY <1>1, ClassificationShows
<1>3. Applicable(b) = Applicable(a)
  BY <1>2 DEF Applicable, Excluded, IsLand, IsResidential
<1>4. ASSUME NEW f \in Applicable(a)
      PROVE  f \in Visible(b) <=> f \in Visible(a)
  <2> DEFINE rules == Template[f].visibleWhen
             matches(rule, c) == /\ rule.field \in Applicable(a)
                                 /\ Matches(rule, c[rule.field])
  <2>1. f \in Fields
    BY DEF Applicable
  <2>2. When("PROPERTY_STATUS", "IMPROVED").field = "PROPERTY_STATUS"
    BY DEF When
  <2>3. ASSUME NEW c, c["PROPERTY_STATUS"] = a["PROPERTY_STATUS"],
               \A rule \in rules : matches(rule, c)
        PROVE  \A rule \in rules : rule.field \in Visible(a)
    <3>1. SUFFICES ASSUME NEW rule \in rules
                   PROVE  rule.field \in Visible(a)
      OBVIOUS
    <3>2. CASE rule.field = "PROPERTY_STATUS"
      BY <3>2, ClassificationShows
    <3>3. CASE rule.field # "PROPERTY_STATUS"
      <4>1. /\ rule.field = "ANNEX_COUNT"
            /\ When("PROPERTY_STATUS", "IMPROVED") \in rules
        BY <2>1, <3>3, RulesAreAboutShownFields
      <4>2. Matches(When("PROPERTY_STATUS", "IMPROVED"), a["PROPERTY_STATUS"])
        BY <2>2, <2>3, <4>1
      <4>3. "ANNEX_COUNT" \in Applicable(a)
        BY <2>3, <4>1
      <4>4. QED
        BY <4>1, <4>2, <4>3, AnnexCountShows
    <3>4. QED
      BY <3>2, <3>3
  <2>4. (\A rule \in rules : matches(rule, a))
          <=> \A rule \in rules : matches(rule, b)
    <3>1. ASSUME \A rule \in rules : matches(rule, a)
          PROVE  \A rule \in rules : matches(rule, b)
      <4>1. \A rule \in rules : rule.field \in Visible(a)
        BY <2>3, <3>1
      <4>2. QED
        BY <1>1, <3>1, <4>1
    <3>2. ASSUME \A rule \in rules : matches(rule, b)
          PROVE  \A rule \in rules : matches(rule, a)
      <4>1. \A rule \in rules : rule.field \in Visible(a)
        BY <1>2, <2>3, <3>2
      <4>2. QED
        BY <1>1, <3>2, <4>1
    <3>3. QED
      BY <3>1, <3>2
  <2>5. QED
    BY <1>3, <2>4 DEF Visible
<1>5. Visible(b) = Visible(a)
  BY <1>3, <1>4 DEF Visible
<1>6. QED
  BY <1>1, <1>3, <1>5 DEF b

-----------------------------------------------------------------------------
(* What does not show does not count. *)

\* An empty row counts for nothing.
LEMMA NoRowIsEmpty == ~ HasValue(NoRow)
BY DEF HasValue, NoRow

\* Nothing that shows is lost, so the requirements of the fields are the same.
LEMMA SameFieldsAreJudged ==
  ASSUME NEW a \in [Fields -> Answer]
  PROVE  Missing(Shown(a)) = Missing(a) /\ Invalid(Shown(a)) = Invalid(a)
<1>1. Required(Shown(a)) = Required(a) /\ Required(a) \subseteq Visible(a)
  BY HidingHidesNoMore DEF Required
<1>2. QED
  BY <1>1, HidingHidesNoMore DEF Missing, Invalid, BelowMin

\* A total that shows gives the form its value, hidden totals emptied or not.
LEMMA ShownTotalsCount ==
  ASSUME NEW a \in [Fields -> Answer], ValueGiven(Shown(a))
  PROVE  ValueGiven(a)
<1>1. CASE valued
  BY <1>1 DEF ValueGiven
<1>2. CASE ~ valued
  <2>1. PICK f \in {"LAND_ESTIMATED_VALUE", "IMPROVED_TOTAL_VALUE"}
                      \cap Applicable(Shown(a)) : HasValue(Shown(a)[f])
    BY <1>2 DEF ValueGiven
  <2>2. f \in Applicable(a) /\ f \in Fields
    BY <2>1, HidingHidesNoMore DEF Applicable
  <2>3. f \in Visible(a)
    BY <2>1, <2>2, HidingHidesNoMore, NoRowIsEmpty
  <2>4. HasValue(a[f])
    BY <2>1, <2>3, HidingHidesNoMore
  <2>5. QED
    BY <2>1, <2>2, <2>4 DEF ValueGiven
<1>3. QED
  BY <1>1, <1>2

\* The requirements apart from the fields that are met, of what shows.
LEMMA OthersOfWhatShows ==
  ASSUME NEW a \in [Fields -> Answer]
  PROVE  /\ OthersMet(Shown(a)) = Others => OthersMet(a) = Others
         /\ valued => OthersMet(Shown(a)) = OthersMet(a)
<1>1. ASSUME OthersMet(Shown(a)) = Others
      PROVE  OthersMet(a) = Others
  <2>1. "valuation" \in OthersMet(Shown(a))
    BY <1>1 DEF Others
  <2>2. ValueGiven(Shown(a))
    BY <2>1 DEF OthersMet
  <2>3. ValueGiven(a)
    BY <2>2, ShownTotalsCount
  <2>4. QED
    BY <1>1, <2>2, <2>3 DEF OthersMet
<1>2. ASSUME valued
      PROVE  OthersMet(Shown(a)) = OthersMet(a)
  <2>1. ValueGiven(a) /\ ValueGiven(Shown(a))
    BY <1>2 DEF ValueGiven
  <2>2. QED
    BY <2>1 DEF OthersMet
<1>3. QED
  BY <1>1, <1>2

\* HiddenAnswersDoNotCount is a fact about every state of FormInv.
LEMMA HiddenAnswers == FormInv => HiddenAnswersDoNotCount
<1> SUFFICES ASSUME FormInv PROVE HiddenAnswersDoNotCount
  OBVIOUS
<1>1. answers \in [Fields -> Answer]
  BY DEF FormInv, FormTypeOK
<1>2. /\ Missing(Shown(answers)) = Missing(answers)
      /\ Invalid(Shown(answers)) = Invalid(answers)
  BY <1>1, SameFieldsAreJudged
<1>3. ASSUME IsComplete(Shown(answers))
      PROVE  IsComplete(answers)
  BY <1>1, <1>2, <1>3, OthersOfWhatShows DEF IsComplete
<1>4. ASSUME valued \/ StatusIsAnOption(answers), IsComplete(answers)
      PROVE  IsComplete(Shown(answers))
  <2>1. valued
    BY <1>4 DEF FormInv, OptionIsValued
  <2>2. OthersMet(Shown(answers)) = OthersMet(answers)
    BY <1>1, <2>1, OthersOfWhatShows
  <2>3. QED
    BY <1>2, <1>4, <2>2 DEF IsComplete
<1>5. QED
  BY <1>3, <1>4 DEF HiddenAnswersDoNotCount

(***************************************************************************)
(* Whatever clients save in whatever field, an answer that does not show   *)
(* never blocks the form, and completes it only without a valuation and    *)
(* with a status that is no option of the template, exactly spelled.       *)
(***************************************************************************)
THEOREM OnlyWhatShowsCounts == FormSpec => []HiddenAnswersDoNotCount
BY FormInvariant, HiddenAnswers, PTL

-----------------------------------------------------------------------------
(* Improved properties *)

\* What a complete form asks for has a value.
LEMMA RequiredIsAnswered ==
  ASSUME IsComplete(answers), NEW f \in Required(answers)
  PROVE  HasValue(answers[f])
BY DEF IsComplete, Missing

\* The sections of an improved property apply.
LEMMA ImprovementsApply ==
  ASSUME propertyType # "LAND",
         SameValue(answers["PROPERTY_STATUS"], "IMPROVED")
  PROVE  {"BUILDING_FLOORS", "ANNEX_COUNT", "ANNEX_1_USE", "PROPERTY_STATUS"}
           \subseteq Applicable(answers)
<1>1. ~ IsLand(answers)
  BY DEF IsLand, IsTrimmed, SameValue
<1>2. \A section \in Improvements \cup {"CLASSIFICATION"} :
        section \notin Excluded(answers)
  BY <1>1 DEF Excluded, Improvements
<1>3. QED
  BY <1>2, Sections, FieldNames DEF Applicable, Improvements

\* ImprovementsAreDescribed is a fact about every state.
LEMMA Improvement == ImprovementsAreDescribed
<1> SUFFICES ASSUME IsComplete(answers), propertyType # "LAND",
                    SameValue(answers["PROPERTY_STATUS"], "IMPROVED")
             PROVE  /\ HasValue(answers["BUILDING_FLOORS"])
                    /\ (\E n \in RawNumber(answers["ANNEX_COUNT"]) : n >= 1)
                         => HasValue(answers["ANNEX_1_USE"])
  BY DEF ImprovementsAreDescribed
<1>1. \A rule \in Improved : /\ rule.field \in Applicable(answers)
                            /\ Matches(rule, answers[rule.field])
  BY ImprovementsApply DEF Improved, When, Matches
<1>2. HasValue(answers["BUILDING_FLOORS"])
  <2>1. "BUILDING_FLOORS" \in Visible(answers)
    BY <1>1, Rules, ImprovementsApply DEF Visible
  <2>2. QED
    BY <2>1, RequiredFields, RequiredIsAnswered DEF Required
<1>3. ASSUME \E n \in RawNumber(answers["ANNEX_COUNT"]) : n >= 1
      PROVE  HasValue(answers["ANNEX_1_USE"])
  <2>1. \A rule \in {FromOn("ANNEX_COUNT", 1)} :
          /\ rule.field \in Applicable(answers)
          /\ Matches(rule, answers[rule.field])
    BY <1>3, ImprovementsApply DEF FromOn, Matches
  <2>2. "ANNEX_1_USE" \in Visible(answers)
    BY <1>1, <2>1, Rules, ImprovementsApply DEF Visible, Annex1
  <2>3. QED
    BY <2>2, RequiredFields, RequiredIsAnswered DEF Required
<1>4. QED
  BY <1>2, <1>3

(***************************************************************************)
(* The rules that hide a field never let a complete form of an improved    *)
(* property leave out its building or the annex it declares.               *)
(***************************************************************************)
THEOREM ImprovementsDescribed == FormSpec => []ImprovementsAreDescribed
BY Improvement, PTL

-----------------------------------------------------------------------------
(* The percentage *)

\* There are at most twelve fields.
LEMMA FewFields == IsFiniteSet(Fields) /\ Cardinality(Fields) <= 12
<1> DEFINE name == <<"PROPERTY_USE", "PROPERTY_STATUS", "PLOT_SIZE_SQM",
                     "BUILDING_FLOORS", "ANNEX_COUNT", "ANNEX_1_USE",
                     "LAND_UNIT_RATE", "LAND_ESTIMATED_VALUE",
                     "MAIN_BUILDING_VALUE", "ANNEX_1_VALUE",
                     "ANNEX_TOTAL_VALUE", "IMPROVED_TOTAL_VALUE">>
<1>1. name \in [1..12 -> Fields]
  BY FieldNames
<1>2. \A f \in Fields : \E i \in 1..12 : name[i] = f
  BY FieldNames
<1>3. ExistsSurjection(1..12, Fields)
  BY <1>1, <1>2 DEF ExistsSurjection, Surjection
<1>4. QED
  BY <1>3, FS_SurjCardinalityBound, FS_NatSurjection

\* The rounding does not take what is nearly done for done.
LEMMA RoundedToAHundred ==
  ASSUME NEW total \in 1..199, NEW satisfied \in 0..total
  PROVE  (200 * satisfied + total) \div (2 * total) = 100
           <=> satisfied = total
<1>1. CASE satisfied = total
  BY <1>1
<1>2. CASE satisfied # total
  BY <1>2
<1>3. QED
  BY <1>1, <1>2

\* There are at most four requirements apart from the fields.
LEMMA FewOthers ==
  IsFiniteSet(Others) /\ Cardinality(Others) \in 1..4
<1> DEFINE four == {"photos", "valuation", "location", "rating"}
           name == <<"photos", "valuation", "location", "rating">>
<1>1. /\ name \in [1..4 -> four]
      /\ \A other \in four : \E i \in 1..4 : name[i] = other
  OBVIOUS
<1>2. ExistsSurjection(1..4, four)
  BY <1>1 DEF ExistsSurjection, Surjection
<1>3. IsFiniteSet(four) /\ Cardinality(four) <= 4
  BY <1>2, FS_SurjCardinalityBound, FS_NatSurjection
<1> HIDE DEF four
<1>4. Others \in SUBSET four /\ "photos" \in Others
  BY DEF Others, four
<1>5. IsFiniteSet(Others) /\ Cardinality(Others) <= Cardinality(four)
  BY <1>3, <1>4, FS_Subset
<1>6. Cardinality(Others) \in Nat /\ Cardinality(four) \in Nat
  BY <1>3, <1>5, FS_CardinalityType
<1>7. Cardinality(Others) # 0
  BY <1>4, <1>5, FS_EmptySet
<1>8. QED
  BY <1>3, <1>5, <1>6, <1>7

\* Every requirement that is met is one, and all are met if none is missing.
LEMMA SatisfiedIsBounded ==
  /\ Total(answers) \in 1..199
  /\ Satisfied(answers) \in 0..Total(answers)
  /\ Satisfied(answers) = Total(answers)
       <=> Missing(answers) = {} /\ OthersMet(answers) = Others
<1> DEFINE counted == Counted(answers)
           given == {f \in counted : HasValue(answers[f])}
           met == OthersMet(answers)
<1>1. counted \in SUBSET Fields /\ given \in SUBSET counted
  BY DEF Counted, Required, Visible, Applicable
<1>2. met \in SUBSET Others
  BY DEF OthersMet
<1>3. given = counted <=> Missing(answers) = {}
  BY DEF Counted, Missing
<1>4. /\ Total(answers) = Cardinality(counted) + Cardinality(Others)
      /\ Satisfied(answers) = Cardinality(given) + Cardinality(met)
  BY DEF Total, Satisfied
<1> HIDE DEF counted, given, met
<1>5. /\ IsFiniteSet(counted) /\ Cardinality(counted) <= Cardinality(Fields)
  BY <1>1, FewFields, FS_Subset
<1>6. /\ IsFiniteSet(given) /\ Cardinality(given) <= Cardinality(counted)
      /\ Cardinality(counted) = Cardinality(given) => counted = given
  BY <1>1, <1>5, FS_Subset
<1>7. /\ IsFiniteSet(met) /\ Cardinality(met) <= Cardinality(Others)
      /\ Cardinality(Others) = Cardinality(met) => Others = met
  BY <1>2, FewOthers, FS_Subset
<1>8. /\ Cardinality(Fields) \in Nat /\ Cardinality(counted) \in Nat
      /\ Cardinality(given) \in Nat /\ Cardinality(met) \in Nat
  BY <1>5, <1>6, <1>7, FewFields, FS_CardinalityType
<1>9. /\ Total(answers) \in 1..199
      /\ Satisfied(answers) \in 0..Total(answers)
  <2>1. Cardinality(counted) \in 0..12 /\ Cardinality(Others) \in 1..4
    BY <1>5, <1>8, FewFields, FewOthers
  <2>2. Total(answers) \in 1..199
    BY <1>4, <2>1
  <2>3. Cardinality(given) + Cardinality(met)
          <= Cardinality(counted) + Cardinality(Others)
    BY <1>6, <1>7, <1>8, <2>1
  <2>4. QED
    BY <1>4, <1>8, <2>2, <2>3
<1>10. Satisfied(answers) = Total(answers) <=> given = counted /\ met = Others
  BY <1>4, <1>6, <1>7, <1>8, FewOthers
<1>11. QED
  BY <1>3, <1>9, <1>10 DEF met

\* PercentageAgrees is a fact about every state.
LEMMA PercentagesAgree == PercentageAgrees
<1>1. Percentage(answers) = 100 <=> Satisfied(answers) = Total(answers)
  BY SatisfiedIsBounded, RoundedToAHundred DEF Percentage
<1>2. QED
  BY <1>1, SatisfiedIsBounded DEF PercentageAgrees

(***************************************************************************)
(* The form shows 100% exactly if every requirement that counts is met: no *)
(* count is ever more than there is to count, and the rounding, with       *)
(* fewer than 200 requirements, hides nothing.                             *)
(***************************************************************************)
THEOREM PercentageIsHonest == FormSpec => []PercentageAgrees
BY PercentagesAgree, PTL

===============================================================================
