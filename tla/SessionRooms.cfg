SPECIFICATION Spec
CONSTANTS
  Sessions = {s1, s2}
  Ids = {x, y}
  Rooms = {r, default}
  Default = default
  Nobody = Nobody
  NoRoom = NoRoom
  EventCapacity = 2
  MaxReports = 1
SYMMETRY Symmetric
CHECK_DEADLOCK FALSE
INVARIANTS
  RoomsStayApart
