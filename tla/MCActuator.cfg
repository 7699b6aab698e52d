SPECIFICATION Spec
CONSTANTS
  CHUNK_SIZE = 4
  PAGE = 2
  SHARE = 2
  Starts <- mcOne
  Sizes = {3, 4}
  Placements <- mcPlacements
  FreeLevels = {9, 17}
  MIN_SIZE = 4
  MIN_LIFETIME = 0
  Readings <- mcReadings
  HOTNESS = 150
  MAX_OBJECTS = 2
  MaxLive = 2
  PIPE_CAP = 1
  MaxTime = 2
INVARIANTS
  TypeOK
  DemotionSpacing
  NoEarlyDemotion
  OneOrderPerPeriod
  HottestFirst
  BurstLimit
  PromotionNearFree
  DemotedHasDram
