SPECIFICATION Spec
CONSTANTS
  Watched <- TwoRepos
  Loops <- BumpLoopsOnly
  Advisory = "determinism-review"
  Policy <- EagerPolicy
  Environment = "m1"
  Proposable <- SomeProposals
  Readings <- TwoReadings
  Endings = {"timed_out"}
  Reviewable <- SomeReviews
  PerPage = 1
  MaxPerType = 3
  Moving <- TwoRoots
  MaxBumps = 2
  MaxRootEvents = 5
  MaxEnded = 1
  MaxMeanwhile = 1
  MaxBefore = 1
  MaxFaults = 1
INVARIANTS
  TypeOK
  RowsAreTheirOwn
  ToldOfTheirOwn
  LivenessWasSo
  FlapsForCause
  MissingForCause
  CountedOnce
  PanelAndGateAgree
