SPECIFICATION Spec
CONSTANTS
  Devices <- MCDevices
  Beyond <- MCBeyond
INVARIANT ModeIsRefused
CHECK_DEADLOCK FALSE
