SPECIFICATION Spec
CONSTANTS
  Dicts = {d1, d2, d3}
  NoDict = NoDict
  Threshold = 1
  MinInterval = 1
  FrameCapacity = 2
  MaxChunks = 2
  MaxNow = 3
  MaxRequests = 2
SYMMETRY Symmetric
CHECK_DEADLOCK FALSE
INVARIANT
  BulkTaskSurvives
