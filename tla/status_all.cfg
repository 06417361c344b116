\* Every handler, two at a time, four state changes and those of the client.
SPECIFICATION Spec
CONSTANTS
    d1 = d1
    r1 = r1
    r2 = r2
    NoReq = NoReq
    Device <- OneDevice
    Req <- TwoRequests
    Kinds <- AllKinds
    MaxVersion = 3
    MayCrash = TRUE
SYMMETRY Symmetry
INVARIANTS
    TypeOK
PROPERTIES
    OptimisticLocking
    BusyNotTaken
