SPECIFICATION Spec
CONSTANTS
  Devices <- MCDevices
  Beyond <- MCBeyond
INVARIANT ListedIsAnswered
INVARIANT ReportsReachAttribute
INVARIANT WritesReachAttribute
INVARIANT CommandsReachDevice
INVARIANT ChosenIsBest
INVARIANT StrictIsSound
CHECK_DEADLOCK FALSE
