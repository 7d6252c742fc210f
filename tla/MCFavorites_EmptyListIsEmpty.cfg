SPECIFICATION Spec
CONSTANTS
  d1 = d1
  d2 = d2
  g1 = g1
  g2 = g2
  None = None
  Devices = {d1}
  Stations = {g1, g2}
  Fields <- MCFields
  Fetches = {1, 2}
  MaxTaps = 2
  MaxVisits = 5
  MaxKills = 1
INVARIANT
  EmptyListIsEmpty
CHECK_DEADLOCK FALSE
