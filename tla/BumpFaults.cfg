SPECIFICATION Spec
CONSTANTS
  Models = {m1}
  MaxAttempts = 3
  Deadline = 2
  FaultKinds <- AttemptFaults
  MaxFaults = 2
  MaxMoves = 1
INVARIANTS
  NoteOnce
  CompletedIsDone
  LeavesNothingRed
  FailsOnlyForCause
  MergeInductive
PROPERTY KeepsPromise
CHECK_DEADLOCK FALSE
