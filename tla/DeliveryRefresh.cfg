SPECIFICATION Spec
CONSTANTS
  Ids = {a, b}
  Positions = {here, there}
  Infos = {i1, i2}
  Unsent = Unsent
  Kinds <- LossyWebMaps
  EventCapacity = 1
  MaxChanges = 2
CHECK_DEADLOCK FALSE
INVARIANTS
  RefreshBringsPositions
