SPECIFICATION SchedulerSpec
CONSTANTS
  MAX_OBJECTS = 1
  CHUNK_SIZE = 3
  PAGE = 1
  PIPE_CAP = 1
  MaxTime = 2
  Ranges <- mcOne
  PartialUnmaps <- mcNone
  Readings <- mcReadings
  HOTNESS = 150
  SHARE = 2
  Placements <- mcHalves
  FreeLevels = {4}
  MIN_SIZE = 0
  MIN_LIFETIME = 0
  ERR_CAP = 1
  MaxFail = 1
PROPERTIES
  InsertionCompletes
  ActuatorStops
  ImplementsMbindService
