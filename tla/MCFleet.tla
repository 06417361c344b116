------------------------------- MODULE MCFleet -------------------------------
(* Fleet for TLC: two devices, two addresses, one game, two requests. *)
EXTENDS Fleet, TLC

CONSTANTS a1, a2, g1, v1, v2, r1, r2

TwoDevices == {1, 2}
TwoAddresses == {a1, a2}
OneGame == {g1}
TwoVersions == {v1, v2}
TwoRequests == {r1, r2}

Symmetry == Permutations(Req) \cup Permutations(Address)
                \cup Permutations(GameVersion)
=============================================================================
