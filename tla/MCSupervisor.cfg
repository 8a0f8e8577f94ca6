SPECIFICATION Spec
CONSTANTS
  MaxBackoff = 30
  ShortCap = 5
CHECK_DEADLOCK FALSE
INVARIANTS
  NothingLeftBehind
  SignalDiscipline
  BackoffLaw
PROPERTIES
  KeepsRestarting
  ImplementsContract
  CancelEndsRun
