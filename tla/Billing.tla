------------------------------- MODULE Billing -------------------------------
(***************************************************************************)
(* What a session costs.  The charging thread looks at every session once  *)
(* a minute and orders its end when the money is used up, by a post that   *)
(* is served a while later; whoever ends a session, the bill is worked out *)
(* by cal_offline from the times of the use record.                        *)
(* Both see whole seconds since the start: the driver stores ctime without *)
(* its fraction.  The price and the balance are those of the charging      *)
(* text; how it may differ from the account is the subject of Account.tla. *)
(***************************************************************************)
EXTENDS CostTime

CONSTANTS Mode,        \* charge_mode: cents for a minute
          Fees,        \* what a recharge may add
          Delay,       \* by how much the charging thread may be late, and how
                       \* long its order may take
          Steps,       \* by how much time may pass at once
          MaxAge,      \* no session is longer
          MaxBalance   \* nobody pays in more

ASSUME BillingAssumption ==
    /\ Mode \in Nat \ {0} /\ Delay \in Nat /\ MaxAge \in Nat /\ MaxBalance \in Nat
    /\ Fees \subseteq Nat /\ Steps \subseteq Nat

VARIABLES online,      \* there is a charging text
          age,         \* seconds since ctime of the record
          due,         \* seconds until the charging thread looks again, or
                       \* gives its order up
          balance,     \* balance_account
          order,       \* of the charging thread: "none", "sent", or "topped"
                       \* when the player has paid since it was sent
          missed,      \* an order for this session has failed
          bill         \* of the last session

vars == <<online, age, due, balance, order, missed, bill>>

SLEEP_TIME == 60
Day == 24 * 60 * 60

(* by: the player, or what the order of the charging thread had become *)
Bill == [minutes : Nat, seconds : Nat, unpaid : Nat, by : {"player", "sent", "topped"}]
NoBill == [minutes |-> 0, seconds |-> 0, unpaid |-> 0, by |-> "player"]

TypeOK ==
    /\ online \in BOOLEAN /\ missed \in BOOLEAN
    /\ age \in Nat /\ due \in Nat /\ balance \in Nat
    /\ order \in {"none", "sent", "topped"}
    /\ bill \in Bill

Init ==
    /\ online = FALSE /\ missed = FALSE
    /\ age = 0 /\ balance = 0
    /\ due = 0 /\ order = "none"
    /\ bill = NoBill

Recharge(f) ==
    /\ balance + f <= MaxBalance
    /\ balance' = balance + f
    /\ order' = IF order = "none" THEN "none" ELSE "topped"
    /\ UNCHANGED <<online, age, due, missed, bill>>

(* less than the price of a minute does not let in *)
Login ==
    /\ ~online /\ balance >= Mode
    /\ online' = TRUE /\ age' = 0 /\ missed' = FALSE
    /\ \E d \in 0 .. SLEEP_TIME + Delay : due' = d
    /\ bill' = NoBill
    /\ UNCHANGED <<balance, order>>

Tick(d) ==
    /\ online
    /\ d <= due /\ age + d <= MaxAge
    /\ age' = age + d /\ due' = due - d
    /\ UNCHANGED <<online, balance, order, missed, bill>>

(* (end_time - ctime).seconds leaves the days of the difference out *)
Seconds == age % Day

(* cal_offline *)
Settle(by) ==
    LET minutes == cal_cost_time(Seconds)
        money == minutes * Mode
    IN  /\ online
        /\ online' = FALSE /\ order' = "none"
        /\ balance' = IF balance < money THEN 0 ELSE balance - money
        /\ bill' = [minutes |-> minutes, seconds |-> age, by |-> by,
                    unpaid |-> IF balance < money THEN money - balance ELSE 0]
        /\ age' = 0 /\ due' = 0
        /\ UNCHANGED missed

(* Mutation of UsedUp: half a minute more than what was paid for *)
UsedUp_late == 4 * (cal_cost_time(age) * Mode - balance) >= 7 * Mode

(* Mutation of UsedUp: the minute that has begun must be paid for twice *)
UsedUp_early == 4 * (cal_cost_time(age) * Mode - balance) >= -3 * Mode

(* cost_money - balance_account >= 0.75 * charge_mode *)
UsedUp == 4 * (cal_cost_time(age) * Mode - balance) >= 3 * Mode

NextPass == \E w \in 0 .. Delay : due' = SLEEP_TIME + w

(* do_charging *)
Scan ==
    /\ online /\ order = "none" /\ due = 0
    /\ \/ UsedUp /\ order' = "sent" /\ due' = Delay
       \/ ~UsedUp /\ NextPass /\ UNCHANGED order
    /\ UNCHANGED <<online, age, balance, missed, bill>>

(* do_offline_order: the post is served, or fails or runs out of time *)
Forced == order # "none" /\ Settle(order)

OrderFailed ==
    /\ online /\ order # "none"
    /\ order' = "none" /\ missed' = TRUE
    /\ NextPass
    /\ UNCHANGED <<online, age, balance, bill>>

Next ==
    \/ \E f \in Fees : Recharge(f)
    \/ \E d \in Steps : Tick(d)
    \/ Login \/ Settle("player") \/ Scan \/ Forced \/ OrderFailed

Spec == Init /\ [][Next]_vars
-----------------------------------------------------------------------------
(* A session of less than a day is charged by the rule of doc/需求管理.txt, *)
(* at every second it may end and whoever ends it (cal_offline,            *)
(* cal_cost_time).                                                         *)
BilledWithinADay == bill.seconds < Day => FollowsRule(bill.minutes, bill.seconds)

(* Between a look of the charging thread and the service of the order it   *)
(* sends at the next one                                                   *)
Late == 2 * Delay
Passes == 1 + (Late + 59) \div 60

(* Unless an order failed, a session that runs out of money leaves less    *)
(* than 0.75 of a minute and the minutes between two looks of the charging *)
(* thread unpaid, wherever in the minute the thread looks and whatever is  *)
(* paid in meanwhile (do_charging against cal_offline).                    *)
UnpaidBounded == ~missed => 4 * bill.unpaid < (3 + 4 * Passes) * Mode

(* The charging thread ends only sessions that have used more than was     *)
(* paid when it sent the order: its clock never runs ahead of the one the  *)
(* bill is made from.                                                      *)
ForcedOnlyWhenSpent == bill.by = "sent" /\ bill.seconds < Day => bill.unpaid > 0
-----------------------------------------------------------------------------
(* What the repository says and the code does not keep *)

(* doc/需求管理.txt:34: after the first minute every minute that has begun  *)
(* is charged                                                              *)
BilledByTheRule == FollowsRule(bill.minutes, bill.seconds)
=============================================================================
