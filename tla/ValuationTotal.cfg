\* The forms of the Intake run.
SPECIFICATION IntakeSpec
CONSTANTS
  Creators = {c1, c2}
  Years <- TwoYears
  Limit = 9
  MaxSuffix = 3
  MinCount = 1
  Words <- SmallWords
  Sent <- SmallAnswers
INVARIANT TotalIsTheSumOfItsParts
