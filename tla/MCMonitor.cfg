SPECIFICATION Spec
CONSTANTS
  MAX_OBJECTS = 2
  CHUNK_SIZE = 2
  PIPE_CAP = 1
  MaxTime = 1
  Ranges <- mcOne
  PartialUnmaps <- mcNone
  Addrs = {1, 2}
  Sources <- mcSources
  Weights = {2}
  MaxSamples = 2
INVARIANTS
  TypeOK
  StoresOncePerAddress
  TlbWithinLoads
PROPERTY
  IdleObjectsCool
