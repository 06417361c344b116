------------------------------ MODULE MCAccount ------------------------------
(* Account for TLC: the payments of one player, two requests. *)
EXTENDS Account, TLC

CONSTANTS t1, t2, r1, r2

TwoTx == {t1, t2}
Fees == [t \in Tx |-> IF t = t1 THEN 1 ELSE 3]
Three == {3}       \* of one, three or four that may have been paid
OneCost == {1}
TwoRequests == {r1, r2}

NoFaults == {}
Deaths == {"crash"}

Symmetry == Permutations(Req)
==============================================================================
