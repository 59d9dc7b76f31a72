CONSTANTS
  Entry = {e1, e2}
  Key = {k1, k2}
  None = None
  LongThreshold = 2
  ErrorThreshold = 2
SPECIFICATION FairSpec
INVARIANTS
  ShownIsActive
  OnePoller
  OwnPace
  NoDoubleBatch
PROPERTIES
  ShownGoesForward
  ShowsTheEnd
CHECK_DEADLOCK FALSE
