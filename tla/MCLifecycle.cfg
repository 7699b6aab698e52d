SPECIFICATION Spec
CONSTANTS
  App = app
  Children = {child}
  MaxEvents = 2
  QUEUE_CAP = 1
INVARIANTS
  TypeOK
  SingleMbindThread
  MeasuredIsMoved
  NoSigpipeWhileAppLives
PROPERTIES
  StartupCompletes
  SignalEndsProcess
