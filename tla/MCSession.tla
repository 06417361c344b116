------------------------------ MODULE MCSession ------------------------------
(* Session for TLC: up to two players and two devices, two requests. *)
EXTENDS Session, TLC

CONSTANTS u1, u2, d1, d2, r1, r2

OneUser == {u1}
TwoUsers == {u1, u2}
OneDevice == {d1}
TwoDevices == {d1, d2}
TwoRequests == {r1, r2}

NoFaults == {}
BillFaults == {"fail", "redis"}
DeleteFaults == {"delete", "redis"}

Symmetry == Permutations(Req) \cup Permutations(User) \cup Permutations(Device)
==============================================================================
