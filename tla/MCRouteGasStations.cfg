SPECIFICATION Spec
CONSTANTS
  inside = inside
  abroad = abroad
  pa = pa
  pb = pb
  sea = sea
  out = out
  n1 = n1
  n2 = n2
  t1 = t1
  t2 = t2
  t3 = t3
  s1 = s1
  s2 = s2
  s3 = s3
  s4 = s4
  s5 = s5
  None = None
  Routes = {inside, abroad}
  Places = {pa, pb, sea, out}
  Names = {n1, n2}
  Towns = {t1, t2, t3}
  Stations = {s1, s2, s3, s4, s5}
  KeyPoints <- MCKeyPoints
  Locality <- MCLocality
  Spain = {pa, pb, sea}
  Name <- MCName
  OnSale <- MCOnSale
  Price <- MCPrice
  Near <- MCNear
  Located = {s1, s2, s3, s5}
  MaxVisits = 2
INVARIANTS
  ListIsCheapest
  ListIsComplete
  PacedSearch
PROPERTIES
  SearchEnds
  PriceGroups
CHECK_DEADLOCK FALSE
