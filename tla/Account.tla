------------------------------- MODULE Account -------------------------------
(***************************************************************************)
(* The account of one player: the row of table user (balance, recharged    *)
(* and used totals), the recharge rows, and the copy of the balance in the *)
(* charging text in redis.  WeChat notifies payments, possibly several     *)
(* times and at once; the bill of a session is written by do_offline.      *)
(*                                                                         *)
(* Both write the row with absolute values computed from the snapshot of   *)
(* their transaction; a recharge opens its snapshot before it asks WeChat  *)
(* for the order, outside any lock.  The player has one session at a time  *)
(* here (Session.tla shows when two get through).                          *)
(***************************************************************************)
EXTENDS Integers, FiniteSets, FiniteSetsExt

CONSTANTS Tx,            \* WeChat transactions
          Fee,           \* Fee[t]: what was paid, in cents
          Price,         \* a minute; a player with less is not let in
          Cost,          \* what a session may cost
          Req,
          MaxSession,    \* sessions of a run
          MaxVersion,    \* no new logout once the device has this version
          Faults         \* foul: the lock may fail; crash: workers may die

ASSUME AccountAssumption ==
    /\ Fee \in [Tx -> Nat]
    /\ Price \in Nat /\ Cost \subseteq Nat
    /\ "absent" \notin Req /\ "left" \notin Req
    /\ MaxSession \in Nat /\ MaxVersion \in Nat
    /\ Faults \subseteq {"foul", "crash"}

VARIABLES account,       \* the row of the player
          recharges,     \* transactions with a row in table recharge
          text,          \* the charging text, NoText when the keys are gone
          gen,           \* state_version of the device, as far as sessions move it
          sessions,      \* sessions opened so far; also the next record id
          lockKey,       \* "absent", "left" or the holder
          payment,       \* payment[t]: "none", "due" (WeChat notifies), "acked"
          req,
          credit, spent, settled,  \* ghosts: commits that added Fee[t], sum of
                                   \* the bills, use records billed, those of
          orphaned                 \* them whose logout died with the keys there

ghosts == <<credit, spent, settled, orphaned>>
vars == <<account, recharges, text, gen, sessions, lockKey, payment, req, ghosts>>

AccountRow == [balance : Nat, total : Nat, used : Nat]
NewAccount == [balance |-> 0, total |-> 0, used |-> 0]
Text == [id : Nat, balance : Nat]
NoText == [id |-> 0, balance |-> 0]

Label == {"idle", "find", "query", "create", "read", "lock", "failed",
          "syncRead", "syncWrite", "open", "recheck", "settle", "close",
          "leave", "end"}

(* snap, gen: the snapshot of the transaction, -1 before it is opened;     *)
(* text: the charging text in hand                                         *)
Idle == [kind |-> "none", pc |-> "idle", tx |-> "none", answer |-> "success",
         snap |-> NewAccount, gen |-> -1, text |-> NoText]

Request == [kind : {"none", "notify", "login", "logout"}, pc : Label,
            tx : Tx \cup {"none"}, answer : {"success", "failure"}, snap : AccountRow,
            gen : Nat \cup {-1}, text : Text]

TypeOK ==
    /\ account \in AccountRow
    /\ recharges \subseteq Tx
    /\ text \in Text
    /\ gen \in Nat /\ sessions \in Nat
    /\ lockKey \in {"absent", "left"} \cup Req
    /\ payment \in [Tx -> {"none", "due", "acked"}]
    /\ req \in [Req -> Request]
    /\ credit \in [Tx -> Nat] /\ spent \in Nat
    /\ settled \subseteq Nat /\ orphaned \subseteq Nat

Init ==
    /\ account = NewAccount
    /\ recharges = {}
    /\ text = NoText
    /\ gen = 0 /\ sessions = 0
    /\ lockKey = "absent"
    /\ payment = [t \in Tx |-> "none"]
    /\ req = [p \in Req |-> Idle]
    /\ credit = [t \in Tx |-> 0] /\ spent = 0
    /\ settled = {} /\ orphaned = {}

At(p, l) == req[p].pc = l
Goto(p, l) == req' = [req EXCEPT ![p].pc = l]
Finish(p) == req' = [req EXCEPT ![p] = Idle]
-----------------------------------------------------------------------------
(* WeChat and notify *)

Pay(t) ==
    /\ payment[t] = "none"
    /\ payment' = [payment EXCEPT ![t] = "due"]
    /\ UNCHANGED <<account, recharges, text, gen, sessions, lockKey, req, ghosts>>

(* WeChat posts a payment until it is acknowledged, at any pace, and a     *)
(* copy may still arrive later                                             *)
Notify(p, t) ==
    /\ At(p, "idle")
    /\ payment[t] # "none"
    /\ req' = [req EXCEPT ![p] = [Idle EXCEPT !.kind = "notify", !.tx = t, !.pc = "find"]]
    /\ UNCHANGED <<account, recharges, text, gen, sessions, lockKey, payment, ghosts>>

Acknowledge(t) == payment' = [payment EXCEPT ![t] = "acked"]

(* find_by_transaction_id, the first statement of the transaction *)
FindRecharge(p) ==
    /\ At(p, "find")
    /\ IF req[p].tx \in recharges
       THEN Finish(p) /\ Acknowledge(req[p].tx)
       ELSE /\ req' = [req EXCEPT ![p].snap = account, ![p].pc = "query"]
            /\ UNCHANGED payment
    /\ UNCHANGED <<account, recharges, text, gen, sessions, lockKey, ghosts>>

(* Mutation of QueryOrder: an order that cannot be queried is acknowledged *)
QueryOrder_ack(p) ==
    /\ At(p, "query")
    /\ \/ Goto(p, "create") /\ UNCHANGED payment
       \/ Finish(p) /\ Acknowledge(req[p].tx)
    /\ UNCHANGED <<account, recharges, text, gen, sessions, lockKey, ghosts>>

(* wx_pay.order_query, which may fail *)
QueryOrder(p) ==
    /\ At(p, "query")
    /\ Goto(p, "create") \/ Finish(p)
    /\ UNCHANGED <<account, recharges, text, gen, sessions, lockKey, payment, ghosts>>

Credited(p) ==
    LET s == req[p].snap
        fee == Fee[req[p].tx]
    IN  [account EXCEPT !.balance = s.balance + fee, !.total = s.total + fee]

(* Mutation of CreateRecharge: transaction_id is not unique *)
CreateRecharge_duplicate(p) ==
    LET t == req[p].tx IN
    /\ At(p, "create")
    /\ account' = Credited(p)
    /\ recharges' = recharges \cup {t}
    /\ credit' = [credit EXCEPT ![t] = @ + 1]
    /\ Finish(p) \/ Goto(p, "lock")
    /\ UNCHANGED <<text, gen, sessions, lockKey, payment, spent, settled, orphaned>>

(* RechargeService.create: the row of the player and the recharge row are  *)
(* committed together, or transaction_id is there already and neither is.  *)
(* The notice that follows may raise, which counts as a failure.           *)
CreateRecharge(p) ==
    LET t == req[p].tx IN
    /\ At(p, "create")
    /\ IF t \in recharges
       THEN Finish(p) /\ UNCHANGED <<account, recharges, credit>>
       ELSE /\ account' = Credited(p)
            /\ recharges' = recharges \cup {t}
            /\ credit' = [credit EXCEPT ![t] = @ + 1]
            /\ Finish(p) \/ Goto(p, "lock")
    /\ UNCHANGED <<text, gen, sessions, lockKey, payment, spent, settled, orphaned>>

(* online_recharge, under the lock of the player *)
SyncRead(p) ==
    /\ At(p, "syncRead")
    /\ req' = [req EXCEPT ![p].text = text,
                          ![p].pc = IF text = NoText THEN "leave" ELSE "syncWrite"]
    /\ UNCHANGED <<account, recharges, text, gen, sessions, lockKey, payment, ghosts>>

SyncWrite(p) ==
    /\ At(p, "syncWrite")
    /\ text' = [req[p].text EXCEPT !.balance = @ + Fee[req[p].tx]]
    /\ Goto(p, "leave")
    /\ UNCHANGED <<account, recharges, gen, sessions, lockKey, payment, ghosts>>
-----------------------------------------------------------------------------
(* do_online and do_offline, as far as they touch the account *)

(* a minute's money, no keys yet, and the version of the device lets one   *)
(* login through                                                           *)
StartLogin(p) ==
    /\ At(p, "idle")
    /\ account.balance >= Price
    /\ text = NoText
    /\ sessions < MaxSession
    /\ \A q \in Req : req[q].kind # "login"
    /\ sessions' = sessions + 1
    /\ req' = [req EXCEPT ![p] = [Idle EXCEPT !.kind = "login", !.pc = "read",
                               !.text = [NoText EXCEPT !.id = sessions']]]
    /\ UNCHANGED <<account, recharges, text, gen, lockKey, payment, ghosts>>

(* the charging text is put together, the balance included *)
ReadBalance(p) ==
    /\ At(p, "read")
    /\ req' = [req EXCEPT ![p].text.balance = account.balance, ![p].pc = "lock"]
    /\ UNCHANGED <<account, recharges, text, gen, sessions, lockKey, payment, ghosts>>

OpenSession(p) ==
    /\ At(p, "open")
    /\ text' = req[p].text
    /\ Goto(p, "leave")
    /\ UNCHANGED <<account, recharges, gen, sessions, lockKey, payment, ghosts>>

(* Of an administrator login_required has already opened the snapshot *)
StartLogout(p) ==
    /\ At(p, "idle")
    /\ text # NoText
    /\ gen < MaxVersion
    /\ \E by \in {"anonymous", "administrator"} :
          req' = [req EXCEPT ![p] = [Idle EXCEPT !.kind = "logout", !.pc = "lock",
                     !.text = text,
                     !.snap = IF by = "administrator" THEN account ELSE @,
                     !.gen = IF by = "administrator" THEN gen ELSE @]]
    /\ UNCHANGED <<account, recharges, text, gen, sessions, lockKey, payment, ghosts>>

Recheck(p) ==
    /\ At(p, "recheck")
    /\ req' = [req EXCEPT ![p].snap = IF req[p].gen = -1 THEN account ELSE @,
                          ![p].gen = IF @ = -1 THEN gen ELSE @,
                          ![p].pc = IF text = NoText THEN "leave" ELSE "settle"]
    /\ UNCHANGED <<account, recharges, text, gen, sessions, lockKey, payment, ghosts>>

(* Mutation of Charged: what could not be paid becomes the balance *)
Charged_shortfall(s, c) ==
    [account EXCEPT !.used = s.used + c,
                    !.balance = IF s.balance < c THEN c - s.balance ELSE s.balance - c]

(* the balance does not go below zero *)
Charged(s, c) ==
    [account EXCEPT !.used = s.used + c,
                    !.balance = IF s.balance < c THEN 0 ELSE s.balance - c]

Bill(p, c) ==
    /\ account' = Charged(req[p].snap, c)
    /\ spent' = spent + c
    /\ settled' = settled \cup {req[p].text.id}
    /\ gen' = gen + 1
    /\ Goto(p, "close")

(* The row of the device is held by a login that has not committed *)
DeviceHeld == \E q \in Req : req[q].kind = "login" /\ req[q].pc \in {"leave", "end"}

(* Mutation of Settle: the version of the device is not compared *)
Settle_unversioned(p) ==
    /\ At(p, "settle")
    /\ ~DeviceHeld
    /\ \E c \in Cost : Bill(p, c)
    /\ UNCHANGED <<recharges, text, sessions, lockKey, payment, credit, orphaned>>

(* cal_offline: a stale version, or an exception, and nothing is billed *)
Settle(p) ==
    /\ At(p, "settle")
    /\ ~DeviceHeld
    /\ \/ req[p].gen = gen /\ \E c \in Cost : Bill(p, c)
       \/ Goto(p, "leave") /\ UNCHANGED <<account, spent, settled, gen>>
    /\ UNCHANGED <<recharges, text, sessions, lockKey, payment, credit, orphaned>>

(* Mutation of CloseSession: the keys are left to expire by themselves *)
CloseSession_forget(p) ==
    /\ At(p, "close")
    /\ Goto(p, "leave")
    /\ UNCHANGED <<account, recharges, text, gen, sessions, lockKey, payment, ghosts>>

CloseSession(p) ==
    /\ At(p, "close")
    /\ text' = NoText
    /\ Goto(p, "leave")
    /\ UNCHANGED <<account, recharges, gen, sessions, lockKey, payment, ghosts>>
-----------------------------------------------------------------------------
(* The lock of the player, as UserLock promises it *)

Body(p) == CASE req[p].kind = "notify" -> "syncRead"
             [] req[p].kind = "login" -> "open"
             [] OTHER -> "recheck"

(* Mutation of EnterLock: nobody waits for the key to go away *)
EnterLock_barge(p) ==
    /\ At(p, "lock")
    /\ lockKey' = p
    /\ Goto(p, Body(p))
    /\ UNCHANGED <<account, recharges, text, gen, sessions, payment, ghosts>>

EnterLock(p) ==
    /\ At(p, "lock")
    /\ lockKey = "absent"
    /\ lockKey' = p
    /\ Goto(p, Body(p))
    /\ UNCHANGED <<account, recharges, text, gen, sessions, payment, ghosts>>

FailLock(p) ==
    /\ At(p, "lock")
    /\ lockKey = "left" \/ "foul" \in Faults
    /\ req' = [req EXCEPT ![p].answer = "failure", ![p].pc = "leave"]
    /\ UNCHANGED <<account, recharges, text, gen, sessions, lockKey, payment, ghosts>>

LeaveLock(p) ==
    LET after == IF "foul" \in Faults
                 THEN {"absent", IF lockKey = "absent" THEN "absent" ELSE "left"}
                 ELSE IF lockKey \in {p, "left"} THEN {"absent"} ELSE {lockKey}
    IN  /\ At(p, "leave")
        /\ lockKey' \in after
        /\ Goto(p, "end")
        /\ UNCHANGED <<account, recharges, text, gen, sessions, payment, ghosts>>

(* The answer, and the commit at teardown: only a login has left something *)
(* for it, the device.  A notify whose acquire() raised answers a failure. *)
Teardown(p) ==
    /\ At(p, "end")
    /\ Finish(p)
    /\ gen' = IF req[p].kind = "login" /\ req[p].answer = "success" THEN gen + 1 ELSE gen
    /\ IF req[p].kind = "notify" /\ req[p].answer = "success" THEN Acknowledge(req[p].tx)
       ELSE UNCHANGED payment
    /\ UNCHANGED <<account, recharges, text, sessions, lockKey, ghosts>>

Crash(p) ==
    /\ "crash" \in Faults
    /\ ~At(p, "idle")
    /\ lockKey' = IF lockKey = p THEN "left" ELSE lockKey
    /\ Finish(p)
    /\ orphaned' = IF At(p, "close") THEN orphaned \cup {req[p].text.id} ELSE orphaned
    /\ UNCHANGED <<account, recharges, text, gen, sessions, payment, credit, spent, settled>>

Serves(p, t) == req[p].tx = t
QueryAnswered(p) == QueryOrder(p) /\ req'[p].pc = "create"

Recharge(p) == \/ FindRecharge(p) \/ QueryOrder(p) \/ CreateRecharge(p)
               \/ SyncRead(p) \/ SyncWrite(p)
Online(p) == ReadBalance(p) \/ OpenSession(p)
Offline(p) == Recheck(p) \/ Settle(p) \/ CloseSession(p)
Lock(p) == EnterLock(p) \/ FailLock(p) \/ LeaveLock(p)
Step(p) == Recharge(p) \/ Online(p) \/ Offline(p) \/ Lock(p) \/ Teardown(p)

Next ==
    \/ \E t \in Tx : Pay(t) \/ \E p \in Req : Notify(p, t)
    \/ \E p \in Req : StartLogin(p) \/ StartLogout(p) \/ Step(p) \/ Crash(p)

Spec == Init /\ [][Next]_vars

(* WeChat keeps posting what is not acknowledged, workers finish what they *)
(* accepted, and neither a failed query nor the death of the worker meets  *)
(* every notification of a payment at the same place.                      *)
Fairness ==
    /\ \A p \in Req : WF_vars(Step(p)) /\ SF_vars(EnterLock(p))
    /\ \A t \in Tx : /\ SF_vars(payment[t] = "due" /\ \E p \in Req : Notify(p, t))
                     /\ SF_vars(\E p \in Req : Serves(p, t) /\ FindRecharge(p))
                     /\ SF_vars(\E p \in Req : Serves(p, t) /\ QueryAnswered(p))
                     /\ SF_vars(\E p \in Req : Serves(p, t) /\ CreateRecharge(p))

FairSpec == Spec /\ Fairness
-----------------------------------------------------------------------------
RechargeSum == MapThenSumSet(LAMBDA t : Fee[t], recharges)

(* However often and however concurrently WeChat notifies a payment, it is *)
(* added to the account once, by the transaction that wrote its recharge   *)
(* row (notify, RechargeService.create: transaction_id is unique).         *)
CreditedOnce == \A t \in Tx : credit[t] = IF t \in recharges THEN 1 ELSE 0

(* WeChat is told to stop posting only what has been recorded, whichever   *)
(* of the notify requests for it answers, and whatever fails after the     *)
(* commit.                                                                 *)
AckedIsRecorded == \A t \in Tx : payment[t] = "acked" => t \in recharges

(* No account shows more money than was ever paid, stale snapshots and     *)
(* repeated notifications included.                                        *)
NeverOverCredited == account.total <= RechargeSum /\ account.balance <= RechargeSum

(* Every bill is in the used total: a logout writes it from a snapshot     *)
(* that may be older than its lock, but no two logouts settle from the     *)
(* same one (cal_offline: the version of the device moves with each bill). *)
UsedIsSpent == account.used = spent

(* A session that was billed is over once the lock is free: no recharge    *)
(* and no second logout leaves its charging text behind, which the charging*)
(* thread would bill again (online_recharge and do_offline take the lock). *)
(* Except where the worker died between the bill and the keys: a logout    *)
(* that finds the key of a dead worker only clears it.                     *)
SettledStaysEnded ==
    lockKey = "absent" /\ text # NoText => text.id \notin settled \ orphaned

(* A payment that WeChat notifies is recorded in the end.                  *)
RechargeRecorded == \A t \in Tx : payment[t] = "due" ~> t \in recharges
-----------------------------------------------------------------------------
(* What the repository says and the code does not keep *)

(* doc/todolist:19: recharge and logout exclude each other, so that what   *)
(* was paid and not used is on the account                                 *)
PaidIsKept == account.balance + account.used >= account.total
=============================================================================
