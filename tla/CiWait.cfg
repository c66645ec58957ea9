SPECIFICATION Spec
CONSTANTS
  Checks = {k1, k2, k3}
  Contexts = {x1}
  PageSize = 2
  Deadline = 2
  MaxAttempts = 2
  MaxFaults = 2
  MaxReruns = 1
INVARIANTS
  GreenIsComplete
  ReadingStillTrue
  TimeoutHasWaited
PROPERTY WaitEnds
CHECK_DEADLOCK FALSE
