\* Two players, two devices, two sessions, bills that fail, logins that redis breaks off, a lock that works.
SPECIFICATION Spec
CONSTANTS
    u1 = u1
    u2 = u2
    d1 = d1
    d2 = d2
    r1 = r1
    r2 = r2
    NoReq = NoReq
    NoToken = NoToken
    User <- TwoUsers
    Device <- TwoDevices
    Req <- TwoRequests
    MaxRecord = 2
    MaxVersion = 3
    MaxCrash = 0
    MaxRaised = 1
    MaxForced = 0
    Faults <- BillFaults
SYMMETRY Symmetry
INVARIANTS
    TypeOK
    TokenResolves
    BilledAgainOnlyAfterRelogin
    BusyHasSession
