SPECIFICATION OneProjectionSpec
CONSTANTS
  Publishers = {p1, p2}
  Loaders = {r1, r2}
  Runtimes = {r1, r2}
  Bundles <- SomeBundles
  Refs = {1, 2, 3}
  NumFiles = 2
  Absent = Absent
  Torn = Torn
  Cards = {c1, c2}
  Admissible = {c1}
  MaxBuilds = 3
  None = None
INVARIANTS
  LoadedWhole
  FaultsReported
  CompleteListsAll
  ServesItsProjection
PROPERTIES
  ImplementsStore
  BuildsEnd
CHECK_DEADLOCK FALSE
