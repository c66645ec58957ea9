SPECIFICATION Spec
CONSTANTS
  Repos <- OneRepo
  Loops = {"security-patch"}
  Packages <- JustFoo
  Semver <- FewVersions
  Locked <- AllOld
  Available <- OneBehind
  Vulns <- PrereleaseFix
  Known = {}
  MaxFaults = 0
  MaxMerges = 0
INVARIANT
  SelectionNeverRaises
