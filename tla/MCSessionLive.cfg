SPECIFICATION Spec
CONSTANTS
  a1 = a1
  a2 = a2
  g1 = g1
  p1 = p1
  None = None
  Accounts = {a1, a2, p1}
  Ids <- MCIds
  IdOf <- MCIdOf
  Provider <- MCProvider
  Mail <- MCMail
  Slots = {s1}
  s1 = s1
  s2 = s2
  MaxKills = 1
PROPERTIES
  DeletionSettles
  DeletionLogsOut
CHECK_DEADLOCK FALSE
