\* One operation, sent again after its answer was lost; no overlap.
SPECIFICATION Spec
CONSTANTS
  Operations <- TwoOperations
  p1 = p1
  Photos = {p1}
  Calls = {c1}
  NoCall = NoCall
  Workloads <- OneOperation
INVARIANT NeverAppliedTwice
