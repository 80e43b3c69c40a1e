SPECIFICATION Spec
CONSTANTS
  Clients = {c1, c2, c3}
  Windows = {w1}
  Nested = {c3}
  None = None
INVARIANTS
  TypeOK
  AdminIsConnected
  OwnersAlive
  IntruderScheduled
PROPERTIES
  ToldSessionsEnd
CHECK_DEADLOCK FALSE
