SPECIFICATION Spec
CONSTANTS
  a1 = a1
  a2 = a2
  g1 = g1
  p1 = p1
  None = None
  Accounts = {a1, g1}
  Ids <- MCIds
  IdOf <- MCIdOf
  Provider <- MCProvider
  Mail <- MCMail
  Slots = {s1, s2}
  s1 = s1
  s2 = s2
  MaxKills = 1
SYMMETRY SlotSymmetry
INVARIANTS
  TypeOK
  TabBarHasTown
  LoginMeansLoggedOut
  FlagIsBacked
  SameIdentity
CHECK_DEADLOCK FALSE
