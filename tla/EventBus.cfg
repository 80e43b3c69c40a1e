SPECIFICATION FairSpec
CONSTANTS
    child = child
    parent = parent
    general = general
    release = release
    preview = preview
    Objects <- MCObjects
    Up <- MCUp
    Tiers = {release, preview}
    Order <- MCOrder
    Shared = {}
    Nobody = general
    Events <- MCEvents
    Keys <- MCKeys
    Scripted <- MCScripted
    AtStart <- MCAtStart
    MaxSubs = 3
    MaxDepth = 2
CHECK_DEADLOCK FALSE
INVARIANTS
    TypeOK
    SegmentsNested
    LivingListed
PROPERTIES
    Delivers
    SignalsEnd
