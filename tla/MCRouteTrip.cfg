SPECIFICATION TripSpec
CONSTANTS
  p1 = p1
  p2 = p2
  None = None
  Places = {p1, p2}
  MaxRoutes = 1
  MaxPicks = 3
  MaxEdits = 1
INVARIANTS
  TripTypes
  TripJoinsPlacesShown
CHECK_DEADLOCK FALSE
