\* Two devices, two addresses, one game in two versions; two requests at once.
SPECIFICATION Spec
CONSTANTS
    a1 = a1
    a2 = a2
    g1 = g1
    v1 = v1
    v2 = v2
    r1 = r1
    r2 = r2
    Unborn = Unborn
    Gone = Gone
    Nowhere = Nowhere
    Device <- TwoDevices
    Address <- TwoAddresses
    Game <- OneGame
    GameVersion <- TwoVersions
    NoVersion = NoVersion
    Req <- TwoRequests
    MaxStart = 3
SYMMETRY Symmetry
INVARIANTS
    TypeOK
    CountsAgree
    RecordsAgree
    GamesFollowList
PROPERTIES
    OnlyEmptyErased
\* once the bound on requests is reached there is nothing left to do
CHECK_DEADLOCK FALSE
