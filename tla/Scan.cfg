SPECIFICATION Spec
CONSTANTS
  Packages = {p}
  MaxVersion = 3
  MaxAttempts = 2
  MaxFaults = 2
  MaxMoves = 1
INVARIANT NewestSurvivesReconcile
PROPERTIES
  NeverProposedAgain
  CandidateIsTaken
  OvertakenIsClosed
