SPECIFICATION WalkSpec
CONSTANTS
  Interval = 3
  MaxLeg = 4
  MaxPoints = 4
  MaxSteps = 2
INVARIANTS
  Spaced
  Sampled
CHECK_DEADLOCK FALSE
