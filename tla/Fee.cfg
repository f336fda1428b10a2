\* Two handlers, alone or overlapping; no symmetry, which liveness would not bear.
SPECIFICATION FairSpec
CONSTANTS
  NoRef = NoRef
  Handlers = {h1, h2}
  Refs = {t1, t2}
  Offered = {"request", "retry"}
INVARIANTS
  FeeTypeOK
  PaidMeansCharged
  ProcessingCanBeReconciled
  SuccessIsOfTheReference
PROPERTIES
  ProcessingEnds
  SuccessIsFinal
