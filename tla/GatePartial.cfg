SPECIFICATION Spec
CONSTANTS
  Repo = "acme/web"
  Loop = "dependency-patch"
  Models = {m1}
  Policies <- LooseOnly
  MaxPulls = 3
  MaxCommits = 3
  PullPage = 3
  CommitPage = 3
  Moments = {0}
  MaxMeanwhile = 0
  MaxFaults = 1
  MaxMoves = 0
INVARIANT FailedReadHolds
