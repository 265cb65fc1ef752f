SPECIFICATION Spec
CONSTANTS
  Workers = {w1, w2}
  MaxAttempts = 2
  Budget <- SmallBudget
INVARIANTS
  StatusKnown
  OwnClockOnly
PROPERTIES
  IntermissionEnds
  ChainsEnd
CHECK_DEADLOCK FALSE
