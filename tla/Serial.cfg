\* Whole reviews, and handovers with corrections, one request at a time.
SPECIFICATION Spec
CONSTANTS
  NoUser = NoUser
  ann = ann
  bob = bob
  rita = rita
  r1 = r1
  r2 = r2
  draft = draft
  plain = plain
  built = built
  Users = {ann, bob, rita}
  PermissionsOf <- MCPermissionsOf
  Admins = {}
  Requests = {r1}
  Operations <- SerialOperations
  Contents = {draft, plain, built}
  EmptyContent = draft
  Complete = {plain, built}
  Improved = {built}
  BaseVersionSent = {TRUE}
  FeeStatuses = {"SUCCESSFUL"}
  MaxVersion = 12
ACTION_CONSTRAINT InScope
INVARIANTS
  OnlyApprovedWorkIsReported
  ApprovalIsJustified
  ReviewedContentIsAttested
  CorrectionsMatchStatus
  NobodyReviewsTheirOwnWork
PROPERTIES
  LifecycleSpec
  StatusEventsFormAChain
