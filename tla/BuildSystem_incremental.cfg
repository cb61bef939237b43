SPECIFICATION Spec
CONSTANTS
  r = r
  a = a
  b = b
  t1 = t1
  t2 = t2
  Wildcard = Wildcard
  Absent = Absent
  Partial = Partial
  None = None
  DepsNodes <- MCDepsNodes
  Assets <- MCAssets
  Leaves <- MCLeaves
  Root = r
  Listing <- MCListing
  Texts <- MCTexts
  FirstTexts <- MCFirstTexts
  OptionalTexts <- MCOptionalTexts
  MaxBuilds = 3
  MaxDisturbances = 2
  MaxEvents = 4
INVARIANTS BuildTypeOK FreshAfterBuild DependenciesFirst CacheIsWhole ContentIsKept IdleBuildDoesNothing
PROPERTIES CircularMeansCircle FailsForAReason
CHECK_DEADLOCK FALSE
