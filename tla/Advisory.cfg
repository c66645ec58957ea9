SPECIFICATION Spec
CHECK_DEADLOCK FALSE
CONSTANTS
  Family = {"determinism", "a11y", "doc_refs", "doc_coherence"}
  Sites = {s}
  MaxHead = 2
  MaxAttempts = 2
  MaxFaults = 1
  MaxMoves = 1
INVARIANTS
  NeverAheadOfItsTree
  QuietUntilFound
  LatestVerdictStands
  ClearIsEarned
PROPERTIES
  NeverReviewedAgain
  HeadIsReviewed
