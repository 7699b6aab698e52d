SPECIFICATION SchedulerSpec
CONSTANTS
  MAX_OBJECTS = 2
  CHUNK_SIZE = 3
  PAGE = 1
  PIPE_CAP = 1
  MaxTime = 2
  Ranges <- mcRanges
  PartialUnmaps <- mcPartials
  Readings <- mcReadings
  HOTNESS = 150
  SHARE = 2
  Placements <- mcHalves
  FreeLevels = {8}
  MIN_SIZE = 0
  MIN_LIFETIME = 0
  ERR_CAP = 1
  MaxFail = 0
INVARIANTS
  SchedulerTypeOK
  OvertakenOnlyWhenOld
  DecisionReachesPages
