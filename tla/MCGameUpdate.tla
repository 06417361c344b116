---------------------------- MODULE MCGameUpdate ----------------------------
(* GameUpdate for TLC: one device, two requests at a time. *)
EXTENDS GameUpdate, TLC

CONSTANTS r1, r2

OneDevice == {1}
TwoRequests == {r1, r2}
=============================================================================
