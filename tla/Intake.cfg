\* Two registrations at a time, past the six digits; a form, with and without
\* an annex.
SPECIFICATION IntakeSpec
CONSTANTS
  Creators = {c1, c2}
  Years <- TwoYears
  Limit = 9
  MaxSuffix = 3
  MinCount = 1
  Words <- SmallWords
  Sent <- SmallAnswers
INVARIANTS
  NumberingTypeOK
  NumbersAreConsecutive
  NumbersRunOutPastTheLimit
  ReferencesAreConsecutive
  FormTypeOK
  HiddenAnswersDoNotCount
  ImprovementsAreDescribed
  PercentageAgrees
