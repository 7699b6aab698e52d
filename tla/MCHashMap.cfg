SPECIFICATION Spec
CONSTANTS
  Items = {1, 2, 3, 4, 5, 6, 7, 8}
  Hash <- mcHash
  MIN_CAP = 4
  GROW_PERCENT = 75
  SHRINK_PERCENT = 25
  Capacities = {0, 5}
INVARIANTS
  MapTypeOK
  DibWithinCount
  NoGaps
  RoomLeft
PROPERTY
  ImplementsDictionary
