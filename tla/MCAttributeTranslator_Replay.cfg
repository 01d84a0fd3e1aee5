SPECIFICATION FairSpec
CONSTANTS
  Keys = {k1, k2}
  Ids = {1, 2}
  Attributes <- MCAttributes
  Top = 4
  Sent <- MCSent
  Written = {1}
  MaxEvents = 4
PROPERTY ReplaysAreCurrent
CHECK_DEADLOCK FALSE
