\* A batch of two operations, or an operation and a photograph; a retry may
\* overlap the call it repeats.
SPECIFICATION FairSpec
CONSTANTS
  Operations <- TwoOperations
  p1 = p1
  Photos = {p1}
  Calls = {c1, c2}
  NoCall = NoCall
  Workloads <- ABatchOrAPhoto
INVARIANTS
  SyncTypeOK
  PhotosAreStoredOnce
  BasedOperationsApplyOnce
PROPERTY DeliverySpec
