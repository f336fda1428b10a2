\* One request at a time.
SPECIFICATION Spec
CONSTANTS
  NoSession = NoSession
  NoToken = NoToken
  NoLink = NoLink
  Requests = {r1}
  SessionIds = {s1, s2}
  Tokens = {k1, k2, k3}
  Links = {l1}
  Passwords = {p, q}
  MAX_FAILED_ATTEMPTS = 2
  MaxTries = 3
SYMMETRY Symmetry
INVARIANTS SessionsTypeOK DeactivationTakesEffect OnlyTheCurrentPassword
           OneUsableToken EveryFailureCounts
