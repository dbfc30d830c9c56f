SPECIFICATION FairSpec
CONSTANTS
  Keys = {k1, k2}
  Shown = {red}
  Meta = {m1}
  MaxEntries = 1
  Retention = 0
  MaxChangeBatches = 2
  MaxChangeOps = 3
  PruneEvery = 2
  MaxReport = 1
  MaxGeneration = 3
  MaxNow = 1
  EventCapacity = 1
CHECK_DEADLOCK FALSE
INVARIANTS
  ViewIsSomeRevision
  BaselineNotAhead
PROPERTIES
  FeedImplemented
  ClientCatchesUp
