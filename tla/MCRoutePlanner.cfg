SPECIFICATION Spec
CONSTANTS
  p1 = p1
  p2 = p2
  None = None
  Places = {p1, p2}
  MaxRoutes = 1
  MaxPicks = 3
  MaxEdits = 1
INVARIANTS
  EmptyRouteIsExplained
  RouteIsCurrent
  PinsAreEnds
  SelectedIsDrawn
PROPERTY
  RouteArrives
CHECK_DEADLOCK FALSE
