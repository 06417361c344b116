\* A recharge between the snapshot and the commit of a bill is lost from the balance.
SPECIFICATION Spec
CONSTANTS
    t1 = t1
    t2 = t2
    r1 = r1
    r2 = r2
    Tx <- TwoTx
    Fee <- Fees
    Price = 1
    Cost <- OneCost
    Req <- TwoRequests
    MaxSession = 1
    MaxVersion = 4
    Faults <- NoFaults
SYMMETRY Symmetry
INVARIANTS
    PaidIsKept
