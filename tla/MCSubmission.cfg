CONSTANTS
  File = {f1, f2}
  MaxAttempts = 3
  MaxLate = 2
SPECIFICATION FairSpec
INVARIANTS
  TerminalMeansSettled
PROPERTIES
  TerminalIsFinal
  EventuallyEnds
