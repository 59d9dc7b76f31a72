CONSTANTS
  Handler = {h1, h2}
  Key = {k1}
  NoKey = NoKey
  Sub = {b1, b2}
  NoSub = NoSub
  Files = 2
  MaxFaults = 3
SPECIFICATION FairSpec
INVARIANTS
  OneBatchPerKey
  AcceptedIsStarted
  StartedIsWhole
  NoOrphans
PROPERTIES
  ImplementsBatches
  NeverStuck
CHECK_DEADLOCK FALSE
