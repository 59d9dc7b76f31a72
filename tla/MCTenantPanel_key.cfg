CONSTANTS
  Entry = {e1, e2}
  Key = {k1, k2}
  None = None
  LongThreshold = 2
  ErrorThreshold = 2
SPECIFICATION Spec
INVARIANT
  KeyNamesItsFiles
CHECK_DEADLOCK FALSE
