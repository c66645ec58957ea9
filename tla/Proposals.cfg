SPECIFICATION Spec
CONSTANTS
  Repos <- OneRepo
  Loops = {"dependency-patch", "security-patch"}
  Packages <- TwoPackages
  Semver <- FewVersions
  Locked <- AllOld
  Available <- OneBehind
  Vulns <- ThreeVulns
  Known = {"b", "c"}
  MaxFaults = 1
  MaxMerges = 1
INVARIANTS
  TypeOK
  LowestThatClears
PROPERTIES
  DisclosedIsProposed
  CandidateHasItsBump
  ReconcileKeepsNewest
