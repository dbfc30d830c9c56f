SPECIFICATION Spec
CONSTANTS
  Ids = {a, b}
  Positions = {here}
  Infos = {i1}
  Unsent = Unsent
  Kinds <- WebMaps
  EventCapacity = 1
  MaxChanges = 3
CHECK_DEADLOCK FALSE
INVARIANTS
  PatchesFitTheClient
