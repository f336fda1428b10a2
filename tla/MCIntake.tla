------------------------------- MODULE MCIntake -------------------------------
(***************************************************************************)
(* Small instances of Numbering and Completeness for TLC.  The two have no *)
(* state in common, so each is explored with the other standing still.     *)
(* The form is explored from an empty one without annexes, where the       *)
(* status and type may change, and from one that lacks only its answers.   *)
(***************************************************************************)
EXTENDS Numbering, Completeness

VARIABLE scenario

allVars == <<vars, formVars, scenario>>

TwoYears == 1..2

\* What may be in a row.
Text(word) == [Cleared EXCEPT !.text = word]
Spelled(word, spelling) == [Text(word) EXCEPT !.spelling = spelling]
Number(n) == [Cleared EXCEPT !.number = {n}]
Both(word, n) == [Text(word) EXCEPT !.number = {n}]

SmallWords == {"", "1", "RESIDENTIAL", "COMMERCIAL", "VACANT_PLOT", "LAND",
               "IMPROVED", "OTHER"}

Spellings == {"exact", "cased", "padded"}

(***************************************************************************)
(* Bound: what clients save in each field.  The two options of the status  *)
(* in every spelling, a status that only the service takes for land, and   *)
(* one that nobody knows; numbers in range and, where that is possible,    *)
(* below it; totals that only the trigger should write; a number of        *)
(* annexes as a text, as a number, and as both.                            *)
(***************************************************************************)
SmallAnswers == [
  PROPERTY_USE |-> {Spelled("RESIDENTIAL", "padded"), Text("COMMERCIAL")},
  PROPERTY_STATUS |->
    {Spelled(word, spelling) :
       word \in {"VACANT_PLOT", "IMPROVED"}, spelling \in Spellings}
    \cup {Cleared, Text("LAND"), Text("OTHER")},
  PLOT_SIZE_SQM |-> {Number(0), Number(2)},
  BUILDING_FLOORS |-> {Number(0), Number(1)},
  ANNEX_COUNT |-> {Number(0), Number(1), Text("1"), Both("", 1)},
  ANNEX_1_USE |-> {Text(""), Text("COMMERCIAL")},
  LAND_UNIT_RATE |-> {Number(1)},
  LAND_ESTIMATED_VALUE |-> {Cleared, Number(1)},
  MAIN_BUILDING_VALUE |-> {Number(1)},
  ANNEX_1_VALUE |-> {Number(1)},
  ANNEX_TOTAL_VALUE |-> {Number(1)},
  IMPROVED_TOTAL_VALUE |-> {Number(2)}]

\* The fields that are answered in each scenario.
General == {"PROPERTY_USE", "PROPERTY_STATUS", "BUILDING_FLOORS",
            "IMPROVED_TOTAL_VALUE"}

Answered == [
  form |-> General \cup {"PLOT_SIZE_SQM", "LAND_UNIT_RATE",
                         "LAND_ESTIMATED_VALUE"},
  annex |-> General \cup {"MAIN_BUILDING_VALUE", "ANNEX_COUNT", "ANNEX_1_USE",
                          "ANNEX_1_VALUE", "ANNEX_TOTAL_VALUE"}]

IntakeInit ==
  /\ Init
  /\ \/ scenario \in {"numbers", "form"} /\ FormInit
     \/ /\ scenario = "annex"
        /\ propertyType \in Types
        /\ answers = [f \in Fields |-> NoRow]
        /\ assessment = "rated" /\ located = TRUE /\ photos = MinCount
        /\ valued = FALSE

IntakeNext ==
  /\ UNCHANGED scenario
  /\ \/ scenario = "numbers" /\ Next /\ UNCHANGED formVars
     \/ /\ scenario = "form"
        /\ FormNext
        /\ \A f \in Fields \ Answered.form : answers'[f] = answers[f]
        /\ UNCHANGED vars
     \/ /\ scenario = "annex"
        /\ FormNext
        /\ \A f \in Fields \ Answered.annex : answers'[f] = answers[f]
        /\ assessment' = assessment /\ photos' = photos /\ located' = located
        /\ UNCHANGED vars

IntakeSpec == IntakeInit /\ [][IntakeNext]_allVars

===============================================================================
