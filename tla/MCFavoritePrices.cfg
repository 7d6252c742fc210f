SPECIFICATION Spec
CONSTANTS
  s1 = s1
  s2 = s2
  s3 = s3
  f1 = f1
  f2 = f2
  None = None
  Stations = {s1, s2, s3}
  Fuels = {f1, f2}
  Sells <- MCSells
INVARIANTS
  HandsOverAll
  RaceNeedsUnknownTown
PROPERTIES
  Completes
  GroupSpec
CHECK_DEADLOCK FALSE
