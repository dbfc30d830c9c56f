INIT StateInit
NEXT StateNext
CONSTANTS
  Ids = {a}
  Positions = {here, there}
  Infos = {i1, i2}
  Unsent = Unsent
  Kinds <- PlayersAndMaps
  EventCapacity = 1
  MaxChanges = 3
  Good = Good
  Poor = Poor
  Players = {p, q}
  Labels = {Good, Poor}
  Quality <- Qualities
  UpdateInterval = 1
  MaxNow = 1
  MaxReport = 1
  MaxRevision = 3
  Clients = {"p"}
  ExternalClients = {"e"}
  WebMaps = {"w"}
  Rooms = {"r1", "r2"}
  DefaultRoom = "r2"
  NoRoom = "none"
  ObjectIds = {"o"}
  MarkedPlayers = {"o"}
  PermanentIds = {}
  GuardedIds = {}
  EntityTargets = {"o"}
  Timeout <- MCTimeout
  RefreshLead = 1
  RefreshCooldown = 2
  CongestionThreshold = 1
  ControlCapacity = 1
  DisconnectedLimit = 1
  MaxAge = 2
SYMMETRY Symmetric
CHECK_DEADLOCK FALSE
INVARIANTS
  InOrderIsExact
  RowsWereReal
  DeltasReplay
  ChangesAreBroadcast
PROPERTIES
  QuietSyncIsExact
