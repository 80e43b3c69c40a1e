SPECIFICATION Spec
CONSTANTS
  N = 4
  MaxWakes = 1
INVARIANTS
  TypeOK
  Tracked
  EndsByReuseOnly
  StoppedClean
PROPERTIES
  StopReturns
CHECK_DEADLOCK FALSE
