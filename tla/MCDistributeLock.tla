-------------------------- MODULE MCDistributeLock --------------------------
(***************************************************************************)
(* The lock and the account for TLC, where they are live.  A behaviour is  *)
(* one scene: two requests contending for one user's lock, or the payments *)
(* of one player; nothing of the other scene changes.                      *)
(***************************************************************************)
EXTENDS DistributeLock

CONSTANTS p1, p2, t1

VARIABLES scene, account, recharges, text, gen, sessions, heldBy, payment, req,
          credit, spent, settled, orphaned

TwoRequests == {p1, p2}

accountVars == <<account, recharges, text, gen, sessions, heldBy, payment, req,
                 credit, spent, settled, orphaned>>

A == INSTANCE Account WITH
        Tx <- {t1}, Fee <- [t \in {t1} |-> 1], Price <- 1, Cost <- {1}, Req <- Proc,
        MaxSession <- 1, MaxVersion <- 2, Faults <- {"foul", "crash"}, lockKey <- heldBy

BothInit == scene \in {"lock", "account"} /\ Init /\ A!Init

Locked == scene = "lock" /\ Next /\ UNCHANGED <<scene, accountVars>>
Accounted == scene = "account" /\ A!Next /\ UNCHANGED <<scene, vars>>

BothNext == Locked \/ Accounted

(* What is fair in one scene is never enabled in the other, but for Tick   *)
BothSpec ==
    /\ BothInit /\ [][BothNext]_<<scene, vars, accountVars>>
    /\ WF_vars(scene = "lock" /\ Tick)
    /\ \A p \in Proc : WF_vars(Acquire(p) \/ Release(p))
    /\ A!Fairness

(* A payment that WeChat notifies is recorded in the end.                  *)
RechargeRecorded == A!RechargeRecorded
=============================================================================
