SPECIFICATION Spec
CONSTANTS
  Packages = {p}
  MaxVersion = 3
  MaxAttempts = 2
  MaxFaults = 0
  MaxMoves = 1
PROPERTY NeverGoesBackward
