SPECIFICATION Spec
CONSTANTS
  Clients = {c1, c2}
  Windows = {w1}
  Nested = {}
  None = None
PROPERTY
  AdminAssignedOnce
CHECK_DEADLOCK FALSE
