INIT SessionsInit
NEXT SessionsNext
CONSTANTS
  Sessions = {s1, s2}
  Ids = {x, y}
  Rooms = {r, default}
  Default = default
  Nobody = Nobody
  NoRoom = NoRoom
  EventCapacity = 2
  MaxReports = 1
  Readers = {"s1", "s2", "s3"}
  Answers <- MCAnswers
  Limits = {2, 4}
  MaxChunkBytes = 2
  RelayCapacity = 1
  ControlPlaces = 1
  MaxHead = 2
  Tokens = {"t"}
  Workers = {"w1", "w2"}
  SessionTtl = 2
  EventTypes = {"a", "b"}
  PageLimits = {1, 2}
  Records = {1, 2}
  RoomOfRecord <- MCRoomOf
  MaxClock = 4
  MaxEvents = 4
  MaxDeletions = 2
  DataRooms = {"a", "b"}
  People = {"ann"}
  DataTables = {"audit_events", "tab_history_entries", "tab_history_heads"}
  MaxRows = 2
SYMMETRY Symmetric
CHECK_DEADLOCK FALSE
INVARIANTS
  PurgeIsWhole
  PurgedRoomsHoldNothing
  NoLeakedConnection
  NewestHeadIsTold
  AnswersAreWhole
  
  RemovalIsAnnounced
PROPERTIES
  EndedSessionsAreRefused
