INIT PartsInit
NEXT PartsNext
CONSTANTS
  Dicts = {d1, d2, d3}
  NoDict = NoDict
  Threshold = 1
  MinInterval = 1
  FrameCapacity = 1
  MaxChunks = 2
  MaxNow = 3
  MaxRequests = 2
  GameSources = {1, 2}
  ExternalSources = {3}
  PlayerObjects = {1}
  EntityObjects = {9}
  Names = {1, 2, 3, 4}
  Tabs <- MCTabs
  GameTakeoverDelay = 1
  SwitchThreshold = 0
  ObjectTimeout = 1
  ScopedLimit = 1
  ArbitrationMaxNow = 2
  Dimensions = {"d1", "d2"}
  MaxCoordinate = 3
  Colors = {"red", "blue"}
  Window = 1
  Observations <- MCObservations
  Recipients = {"r1", "r2"}
  Hellos <- MCHellos
  KnownChannels = {"movement", "unspecified"}
  CodecIds = {"a"}
  CodecValues = {1}
  Series = {"egress", "wire"}
  WireSeries = "wire"
  Actors = {"a", "b"}
  MessageTypes = {"patch"}
  WindowSeconds = 1
  Periods = {1, 4}
  BucketSizes = {1, 2, 4}
  LastSecond = 4
  MaxBytes = 2
  MaxRestarts = 1
  Realms = {"r1"}
  Datasets = {"d"}
  DefaultDataset = "d"
  Publishers = {"p1", "p2"}
  RealmOf <- MCRealmOf
  Graphs <- MCGraphs
  NormalName <- MCNormal
  MaxTime = 1
  StaleAfter = 0
SYMMETRY Symmetric
CHECK_DEADLOCK FALSE
INVARIANTS
  TypeOK
  CompressedWithInstalled
  GraceForPrevious
  StreamOrder
  GroupsAreComponents
  ChunksOfOneObservation
  PatchesLeadToProjection
  TrafficAccounted
  ViewsAreExact
  DirectoryIsSound
PROPERTIES
  SwitchesHaveReason
