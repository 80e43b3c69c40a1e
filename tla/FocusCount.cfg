SPECIFICATION CountSpec
CONSTANTS
    gate = gate
    hall = hall
    slot = slot
    term = term
    dtvt = dtvt
    pane = pane
    g1 = g1
    g2 = g2
    none = none
    Objects <- CountObjects
    Gate = gate
    Home <- CountHome
    AtStart <- CountAtStart
    First = term
    Endpoints <- CountEndpoints
    Relays <- MCRelays
    Defaults <- CountDefaults
    Veers <- MCVeers
    Movable <- MCMovable
    Places <- CountPlaces
    Gears <- MCGears
    Default = none
    MaxChanges = 4
INVARIANTS
    CountIsActive
