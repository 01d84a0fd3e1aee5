SPECIFICATION Spec
CONSTANTS
  Situations <- MCSituations
  Amounts <- MCAmounts
  Written <- MCWritten
  MaxEvents = 3
INVARIANT TypeOK
INVARIANT StaysInLimits
INVARIANT NoMoreThanAsked
CHECK_DEADLOCK FALSE
