\* A submission and a handover that overlap.
SPECIFICATION Spec
CONSTANTS
  NoUser = NoUser
  ann = ann
  bob = bob
  rita = rita
  r1 = r1
  r2 = r2
  draft = draft
  plain = plain
  built = built
  Users = {ann, bob}
  PermissionsOf <- MCPairPermissionsOf
  Admins = {}
  Requests = {r1, r2}
  Operations <- HandoverOperations
  Contents = {draft, plain}
  EmptyContent = draft
  Complete = {plain}
  Improved = {}
  BaseVersionSent = {FALSE}
  FeeStatuses = {"SUCCESSFUL"}
  MaxVersion = 6
SYMMETRY Symmetry
INVARIANT NobodyReviewsTheirOwnWork
