\* Two payments, two sessions whose bills may exceed the balance; workers may die.
SPECIFICATION Spec
CONSTANTS
    t1 = t1
    t2 = t2
    r1 = r1
    r2 = r2
    Tx <- TwoTx
    Fee <- Fees
    Price = 1
    Cost <- Three
    Req <- TwoRequests
    MaxSession = 2
    MaxVersion = 4
    Faults <- Deaths
SYMMETRY Symmetry
INVARIANTS
    CreditedOnce
    AckedIsRecorded
    NeverOverCredited
    UsedIsSpent
    SettledStaysEnded
