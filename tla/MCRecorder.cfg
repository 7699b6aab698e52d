SPECIFICATION RecorderSpec
CONSTANTS
  MAX_OBJECTS = 6
  CHUNK_SIZE = 3
  PIPE_CAP = 2
  MaxTime = 2
  Ranges <- mcRanges
  PartialUnmaps <- mcNone
INVARIANTS
  RecorderTypeOK
  LedgerBalanced
  MappedBytesRecorded
  ScanSeesCompleteObjects
  OrderNamesItsObject
PROPERTIES
  ImplementsRegistry
