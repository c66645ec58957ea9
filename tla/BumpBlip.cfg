SPECIFICATION Spec
CONSTANTS
  Models = {m1}
  MaxAttempts = 6
  Deadline = 1
  FaultKinds <- OnlyLost
  MaxFaults = 1
  MaxMoves = 0
INVARIANT RidesOutBlip
CHECK_DEADLOCK FALSE
