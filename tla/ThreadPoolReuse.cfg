SPECIFICATION Spec
CONSTANTS
  N = 2
  MaxWakes = 1
INVARIANT
  NeverTerminates
CHECK_DEADLOCK FALSE
