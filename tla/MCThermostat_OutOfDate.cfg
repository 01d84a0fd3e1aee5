SPECIFICATION Spec
CONSTANTS
  Situations <- MCSituations
  Amounts <- MCAmounts
  Written <- MCWritten
  MaxEvents = 3
INVARIANT AlwaysInLimits
CHECK_DEADLOCK FALSE
