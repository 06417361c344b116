\* One device, two sessions.
SPECIFICATION Spec
CONSTANTS
    u1 = u1
    u2 = u2
    d1 = d1
    d2 = d2
    r1 = r1
    r2 = r2
    NoReq = NoReq
    NoToken = NoToken
    User <- TwoUsers
    Device <- OneDevice
    Req <- TwoRequests
    MaxRecord = 2
    MaxVersion = 7
    MaxCrash = 0
    MaxRaised = 0
    MaxForced = 0
    Faults <- NoFaults
SYMMETRY Symmetry
INVARIANTS
    OneUserPerDevice
