SPECIFICATION Spec
CONSTANTS
    gate = gate
    hall = hall
    slot = slot
    term = term
    dtvt = dtvt
    pane = pane
    g1 = g1
    g2 = g2
    none = none
    Objects <- MCObjects
    Gate = gate
    Home <- MCHome
    AtStart <- MCAtStart
    First = term
    Endpoints <- MCEndpoints
    Relays <- MCRelays
    Defaults <- MCDefaults
    Veers <- MCVeers
    Movable <- MCMovable
    Places <- MCPlaces
    Gears <- MCGears
    Default = none
    MaxChanges = 2
INVARIANTS
    TypeOK
    CountUntilSevered
    LinksFollowTree
    KeystrokesArriveElsewhere
    LinkedIsLive
    ToldIsLive
    SoloIsSingle
    GoneLeaveNothing
SYMMETRY
    Twins
CONSTRAINT
    FewChains
