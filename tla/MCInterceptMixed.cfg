SPECIFICATION Spec
CONSTANTS
  app1 = app1
  app2 = app2
  other = other
  NCPU = 2
  RING = 20
  AppTasks = {app1}
  OtherTasks = {}
  Requests <- mcAll
  Residues <- mcSmall
  Starts = {1}
  MIN_LEN = 1
  MaxCalls = 3
  MaxFail = 0
INVARIANTS
  RecordedWasMapped
