SPECIFICATION Spec
CONSTANTS
  app1 = app1
  app2 = app2
  other = other
  NCPU = 2
  RING = 2
  AppTasks = {app1,app2}
  OtherTasks = {other}
  Requests <- mcMixed
  Residues <- mcResidues
  Starts = {1}
  MIN_LEN = 1
  MaxCalls = 2
  MaxFail = 1
INVARIANTS
  TypeOK
  MappedIsRecorded
  NothingForeign
SYMMETRY mcThreads
