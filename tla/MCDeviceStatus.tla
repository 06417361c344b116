--------------------------- MODULE MCDeviceStatus ---------------------------
(* DeviceStatus for TLC: one device, two requests at a time. *)
EXTENDS DeviceStatus, TLC

CONSTANTS d1, r1, r2

OneDevice == {d1}
TwoRequests == {r1, r2}

AllKinds == Kind

Symmetry == Permutations(Req)
=============================================================================
