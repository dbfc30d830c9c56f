SPECIFICATION CacheSpec
CONSTANTS
  Keys = {k1, k2, k3}
  Shown = {red, blue}
  Meta = {m1, m2}
  MaxEntries = 2
  Retention = 1
  MaxChangeBatches = 2
  MaxChangeOps = 3
  PruneEvery = 2
  MaxReport = 2
  MaxGeneration = 3
  MaxNow = 2
SYMMETRY Symmetric
CHECK_DEADLOCK FALSE
INVARIANTS
  TypeOK
  PatchReproducesCache
  PatchSurvivesLag
  EveryChunkIndexed
  CapacityRespected
  ChangeLogBounded
PROPERTIES
  CleanupExpiresEverything
  OnlyStaleOrOldestRemoved
