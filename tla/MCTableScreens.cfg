SPECIFICATION Spec
CONSTANTS
  g1 = g1
  g2 = g2
  g3 = g3
  None = None
  Stations = {g1, g2, g3}
  Distance <- MCDistance
  Price <- MCPrice
  TownList <- MCTownList
  Texts <- MCTexts
  Folded <- MCFolded
  Starred = {g1, g2}
  MaxLoads = 2
  MaxQueue = 2
INVARIANTS
  TouchHitsItsRow
  ListIsCurrent
  IndicatorTellsTruth
  FilterFindsShownNames
  OrderIsLabelled
  StarTellsTruth
PROPERTY
  IndicatorStops
CHECK_DEADLOCK FALSE
