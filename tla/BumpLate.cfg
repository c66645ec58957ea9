SPECIFICATION Spec
CONSTANTS
  Models = {m1, m2}
  MaxAttempts = 3
  Deadline = 2
  FaultKinds <- LateFaults
  MaxFaults = 1
  MaxMoves = 2
INVARIANTS
  MergesOnlyWhatCIPassed
  FailsOnlyForCause
PROPERTY KeepsPromise
CHECK_DEADLOCK FALSE
