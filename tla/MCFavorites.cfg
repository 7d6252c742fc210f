SPECIFICATION Spec
CONSTANTS
  d1 = d1
  d2 = d2
  g1 = g1
  g2 = g2
  None = None
  Devices = {d1, d2}
  Stations = {g1}
  Fields <- MCFields
  Fetches = {1, 2}
  MaxTaps = 2
  MaxVisits = 4
  MaxKills = 1
INVARIANTS
  WholeRecords
PROPERTY
  ListCompletes
CHECK_DEADLOCK FALSE
