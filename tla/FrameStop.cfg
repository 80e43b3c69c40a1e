CONSTANTS
    MaxScene = 2
    MaxOther = 1
    Cap = 2
SPECIFICATION Spec
PROPERTIES StopEnds
CHECK_DEADLOCK FALSE
