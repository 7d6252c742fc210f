SPECIFICATION Spec
CONSTANTS
  t1 = t1
  t2 = t2
  x = x
  None = None
  Towns = {t1, t2}
  Strange = {x}
  MaxScreens = 5
  MaxChanges = 1
INVARIANTS
  RobbersAreKnown
  AlertOffersAnother
  SilenceIsExplained
PROPERTY
  HandlerIsAnswered
CHECK_DEADLOCK FALSE
