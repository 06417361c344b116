------------------------------ MODULE MCOffice ------------------------------
(* Office for TLC: two of most things, three administrators.               *)
EXTENDS Office, TLC

CONSTANTS r1, r2, w1, w2, m1, m2,
          a1, a2, a3, manager,
          c1, c2, standard, peak, d1,
          u1, u2, site1, site2

(* Billing: a price of four, so that 0.75 of a minute is a number, small   *)
(* payments around it, and every second of the first minutes               *)
EverySecond == {1}
SmallFees == {1, 4, 6}

MCReq == {r1, r2}
MCWechat == {w1, w2}
MCMobile == {m1, m2}
MCAdmin == {a1, a2, a3}
MCRoleName == {SuperAdmin, manager}
TwoRoles == {1, 2}
MCChargeId == {c1, c2}
MCRateName == {standard, peak}
TwoRates == {1, 2}
MCDevice == {d1}
MCUsername == {u1, u2}
MCAddress == {site1, site2}
Starts == [registration |-> 3, staff |-> 5, rates |-> 4, maintainers |-> 4]
=============================================================================
