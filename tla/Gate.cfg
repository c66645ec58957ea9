SPECIFICATION Spec
CONSTANTS
  Repo = "acme/web"
  Loop = "dependency-patch"
  Models = {m1, m2}
  Policies <- TwoPolicies
  MaxPulls = 2
  MaxCommits = 3
  PullPage = 2
  CommitPage = 2
  Moments = {0, 2}
  MaxMeanwhile = 1
  MaxFaults = 1
  MaxMoves = 1
INVARIANTS
  TypeOK
  DefectMissedForCause
  TrustResets
  SilentGateVouches
SYMMETRY Swap
