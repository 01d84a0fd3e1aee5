SPECIFICATION Spec
CONSTANTS
  Last = 3
  Percentage <- MCPercentage
  HasLift = TRUE
  MaxCommands = 2
  MaxLocal = 1
  MaxOnTheWay = 1
INVARIANT QuietAtEndIsStopped
INVARIANT NotBeyondKnownEnd
PROPERTY SettlesAtEnd
CHECK_DEADLOCK FALSE
