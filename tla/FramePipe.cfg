CONSTANTS
    MaxScene = 4
    MaxOther = 1
    Cap = 2
SPECIFICATION Spec
INVARIANTS TypeOK FramesInSync BacklogBounded NoLostPicture
PROPERTIES ShowsLatestFrame StopEndsOnSocket
CHECK_DEADLOCK FALSE
