SPECIFICATION FairSpec
CONSTANTS
  Keys = {k1, k2}
  Ids = {1, 2}
  Attributes <- MCAttributes
  Top = 4
  Sent <- MCSent
  Written <- MCWritten
  MaxEvents = 4
INVARIANT TypeOK
INVARIANT LastReportStands
INVARIANT CurrentWhenQuiet
INVARIANT FreshIsEmpty
INVARIANT WriteReadsBack
INVARIANT SubscribersInformed
PROPERTY EventuallyKnown
CHECK_DEADLOCK FALSE
