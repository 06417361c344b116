----------------------------- MODULE MCBilling -----------------------------
(* Billing for TLC over a day, in steps of a minute. *)
EXTENDS Billing

EveryMinute == {60}
LargeFee == {6000}
============================================================================
