\* Every operation, two requests at a time.
SPECIFICATION Spec
CONSTANTS
  NoUser = NoUser
  ann = ann
  bob = bob
  rita = rita
  r1 = r1
  r2 = r2
  draft = draft
  plain = plain
  built = built
  Users = {ann, bob}
  PermissionsOf <- MCPairPermissionsOf
  Admins = {bob}
  Requests = {r1, r2}
  Operations <- EveryOperation
  Contents = {draft, plain}
  EmptyContent = draft
  Complete = {plain}
  Improved = {}
  BaseVersionSent = {FALSE}
  FeeStatuses = {"SUCCESSFUL"}
  MaxVersion = 7
SYMMETRY Symmetry
INVARIANTS TypeOK SubmissionsAreSnapshotted FieldworkIsPaidFor ReviewedWorkWasSubmitted
PROPERTY EveryChangeBumpsVersion
