SPECIFICATION RecorderSpec
CONSTANTS
  MAX_OBJECTS = 3
  CHUNK_SIZE = 3
  PIPE_CAP = 2
  MaxTime = 2
  Ranges <- mcRanges
  PartialUnmaps <- mcNone
INVARIANT
  NoOverrun
