SPECIFICATION Spec
CONSTANTS
  u1 = u1
  u2 = u2
  c1 = c1
  c2 = c2
  c3 = c3
  None = None
  Accounts = {u1, u2}
  OldKeys = {"ana", "bea"}
  OldKey <- MCOldKey
  ChildIds = {c1, c2, c3}
  Legacy <- MCLegacy
  Plain = {c3}
  MaxSignIns = 2
  MaxSaves = 1
  MaxKills = 1
INVARIANTS
  NothingLost
  OwnDataOnly
  FoundMeansMigrated
PROPERTY
  MigrationFinishes
CHECK_DEADLOCK FALSE
