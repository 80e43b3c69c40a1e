SPECIFICATION Spec
CONSTANTS
  Callers = {c1, c2}
  Jobs = {j1, j2, j3}
  None = None
INVARIANTS
  TypeOK
  Fifo
  DrainedAtExit
PROPERTIES
  JobsRun
  StopReturns
CHECK_DEADLOCK FALSE
