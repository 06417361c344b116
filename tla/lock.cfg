SPECIFICATION BothSpec
CONSTANTS
    p1 = p1
    p2 = p2
    t1 = t1
    Proc <- TwoRequests
    LockTimeout = 1
    MaxTime = 5
INVARIANTS
    ExclusiveUntilFouled
    OwnerInside
PROPERTIES
    NeverTakenOver
    ImplementsUserLock
    StaleKeyHeals
    RechargeRecorded
