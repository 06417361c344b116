\* A worker that dies or a redis that raises, a device that is deleted: then the system may stop.
SPECIFICATION FairSpec
CONSTANTS
    u1 = u1
    u2 = u2
    d1 = d1
    d2 = d2
    r1 = r1
    r2 = r2
    NoReq = NoReq
    NoToken = NoToken
    User <- OneUser
    Device <- OneDevice
    Req <- TwoRequests
    MaxRecord = 1
    MaxVersion = 2
    MaxCrash = 1
    MaxRaised = 1
    MaxForced = 1
    Faults <- DeleteFaults
PROPERTIES
    UsesUserLock
    SilentSessionEnds
CHECK_DEADLOCK FALSE
