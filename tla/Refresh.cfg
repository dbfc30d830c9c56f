INIT MCInit
NEXT MCNext
CONSTANTS
  Clients = {p}
  ExternalClients = {}
  WebMaps = {}
  Rooms = {r1}
  DefaultRoom = r1
  NoRoom = NoRoom
  ObjectIds = {o1, o2}
  MarkedPlayers = {}
  PermanentIds = {}
  GuardedIds = {}
  EntityTargets = {}
  Timeout <- MCTimeout
  RefreshLead = 2
  RefreshCooldown = 3
  CongestionThreshold = 2
  ControlCapacity = 4
  DisconnectedLimit = 1
  MaxAge = 8
CHECK_DEADLOCK FALSE
PROPERTIES
  ExpiryIsAnnounced
