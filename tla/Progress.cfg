SPECIFICATION ProgressSpec
CONSTANTS
  Dicts = {d1, d2}
  NoDict = NoDict
  Threshold = 1
  MinInterval = 1
  FrameCapacity = 1
  MaxChunks = 2
  MaxNow = 3
  MaxRequests = 1
  StreamIds = {a}
  Positions = {here, there}
  Infos = {i1}
  Unsent = Unsent
  StreamCapacity = 1
  MaxChanges = 2
  Sessions = {s1, s2}
  SessionIds = {x}
  Rooms = {default}
  Default = default
  Nobody = Nobody
  NoRoom = NoRoom
  RelayCapacity = 2
  MaxReports = 1
CHECK_DEADLOCK FALSE
PROPERTIES
  OffersTakenUp
  PlayerConverges
  DroppedSessionsEnd
  GateOpensAgain
