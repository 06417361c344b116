\* Maintenance and the reports of the client; no crashes, liveness needs every step to be taken.
SPECIFICATION FairSpec
CONSTANTS
    d1 = d1
    r1 = r1
    r2 = r2
    NoReq = NoReq
    Device <- OneDevice
    Req <- TwoRequests
    Kinds <- AllKinds
    MaxVersion = 2
    MayCrash = FALSE
PROPERTIES
    MaintenanceEnds
