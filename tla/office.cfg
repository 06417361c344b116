\* The billing of a session of up to five minutes, recharges at any of its
\* seconds; a life of a key just above the margin; two requests for the others.
\* A scene stops when its requests are used up.
SPECIFICATION OfficeSpec
CONSTANTS
    Mode = 4
    Fees <- SmallFees
    Delay = 5
    Steps <- EverySecond
    MaxAge = 300
    MaxBalance = 10
    Lifetime = 13
    None = None
    r1 = r1
    r2 = r2
    Req <- MCReq
    w1 = w1
    w2 = w2
    m1 = m1
    m2 = m2
    Wechat <- MCWechat
    Mobile <- MCMobile
    Authorized = Authorized
    MaxText = 2
    a1 = a1
    a2 = a2
    a3 = a3
    Admin <- MCAdmin
    Founder = a1
    RoleId <- TwoRoles
    SuperAdmin = SuperAdmin
    manager = manager
    RoleName <- MCRoleName
    c1 = c1
    c2 = c2
    ChargeId <- MCChargeId
    standard = standard
    peak = peak
    RateName <- MCRateName
    Rate <- TwoRates
    d1 = d1
    Device <- MCDevice
    u1 = u1
    u2 = u2
    Username <- MCUsername
    site1 = site1
    site2 = site2
    Address <- MCAddress
    All = All
    MaxStart <- Starts
CHECK_DEADLOCK FALSE
INVARIANTS
    BilledWithinADay
    UnpaidBounded
    ForcedOnlyWhenSpent
    LapsesAfterTwoTries
    CodeLetsInOnce
    OneTextPerLimit
    SuperRemains
    LetInSomewhere
PROPERTIES
    RefusedKeepsPrice
