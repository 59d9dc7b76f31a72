SPECIFICATION FairSpec
CONSTANTS
  File = {f1, f2}
  Slots <- MCSlots
  Capacity = 1
  MaxTurns = 2
  MaxMarkTimeouts = 1
INVARIANTS StallIsCrunch
PROPERTIES TerminationsRun BatchCloses
