SPECIFICATION FairSpec
CONSTANTS
    Config = TRUE
    MaxEvents = 1
    MaxStops = 1
    MaxInbox = 1
CHECK_DEADLOCK FALSE
INVARIANTS
    TypeOK
    StreamKept
    JoinsSafely
PROPERTIES
    
    PasteEnds
