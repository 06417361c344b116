--------------------------- MODULE Billing_proofs ---------------------------
(***************************************************************************)
(* The rounding rule for every number of seconds, and what it means for    *)
(* the bills of every session: every price, every payment, every delay of  *)
(* the charging thread.                                                    *)
(***************************************************************************)
EXTENDS Billing, TLAPS

(* cal_cost_time charges nothing under half a minute and every minute that *)
(* has begun from there on.                                                *)
THEOREM CostTimeFollowsRule ==
    \A s \in Nat : cal_cost_time(s) \in Nat /\ FollowsRule(cal_cost_time(s), s)
BY DEF cal_cost_time, FollowsRule

(* Looking a pass later costs a bounded number of minutes more *)
LEMMA CostOfAPass ==
    ASSUME NEW a \in Nat, a >= 30, NEW w \in 0 .. Late
    PROVE  cal_cost_time(a + SLEEP_TIME + w) <= cal_cost_time(a) + Passes
<1> DEFINE b == a + SLEEP_TIME + w
           m == cal_cost_time(a)
           n == cal_cost_time(b)
<1>1. a \in Nat /\ b \in Nat /\ b = a + 60 + w /\ w \in Nat /\ w <= Late
      /\ Late \in Nat
  BY BillingAssumption DEF SLEEP_TIME, Late
<1>2. m \in Nat /\ n \in Nat /\ a <= 60 * m /\ 60 * (n - 1) < b
  BY <1>1, CostTimeFollowsRule DEF FollowsRule
<1>3. Passes \in Nat /\ Late <= 60 * (Passes - 1)
  BY <1>1 DEF Passes
<1> HIDE DEF m, n, b
<1>4. n <= m + Passes
  BY <1>1, <1>2, <1>3
<1>5. QED
  BY <1>4 DEF m, n, b

LEMMA CostGrows ==
    ASSUME NEW a \in Nat, NEW b \in Nat, a <= b
    PROVE  cal_cost_time(a) <= cal_cost_time(b)
BY DEF cal_cost_time
-----------------------------------------------------------------------------
LEMMA NothingBilled ==
    /\ NoBill.seconds = 0 /\ NoBill.minutes = 0 /\ FollowsRule(0, 0)
    /\ NoBill \in Bill
<1>1. FollowsRule(0, 0)
  BY DEF FollowsRule
<1>2. QED
  BY <1>1 DEF NoBill, Bill

LEMMA BilledInductive ==
    TypeOK /\ BilledWithinADay /\ [Next]_vars => TypeOK' /\ BilledWithinADay'
<1> SUFFICES ASSUME TypeOK, BilledWithinADay, [Next]_vars
             PROVE  TypeOK' /\ BilledWithinADay'
  OBVIOUS
<1> USE BillingAssumption DEF TypeOK
<1>1. ASSUME NEW by \in {"player", "sent", "topped"}, Settle(by)
      PROVE  TypeOK' /\ BilledWithinADay'
  <2> DEFINE m == cal_cost_time(Seconds)
             c == m * Mode
  <2>1. Seconds \in Nat /\ (age < Day => Seconds = age)
    BY DEF Seconds, Day
  <2>2. m \in Nat /\ FollowsRule(m, Seconds)
    BY <2>1, CostTimeFollowsRule
  <2> HIDE DEF m
  <2>3. c \in Nat
    BY <2>2
  <2> HIDE DEF c
  <2>4. /\ online' = FALSE /\ order' = "none"
        /\ balance' = IF balance < c THEN 0 ELSE balance - c
        /\ bill' = [minutes |-> m, seconds |-> age, by |-> by,
                    unpaid |-> IF balance < c THEN c - balance ELSE 0]
        /\ age' = 0 /\ due' = 0 /\ UNCHANGED missed
    BY <1>1 DEF Settle, m, c
  <2>5. bill'.minutes = m /\ bill'.seconds = age
    BY <2>4
  <2>6. BilledWithinADay'
    BY <2>1, <2>2, <2>5 DEF BilledWithinADay
  <2>7. balance' \in Nat /\ (IF balance < c THEN c - balance ELSE 0) \in Nat
    BY <2>3, <2>4
  <2>8. bill' \in Bill
    BY <2>2, <2>4, <2>7 DEF Bill
  <2>9. QED
    BY <2>4, <2>6, <2>7, <2>8
<1>2. ASSUME NEW f \in Fees, Recharge(f) PROVE TypeOK' /\ BilledWithinADay'
  BY <1>2 DEF Recharge, BilledWithinADay
<1>3. ASSUME NEW d \in Steps, Tick(d) PROVE TypeOK' /\ BilledWithinADay'
  BY <1>3 DEF Tick, BilledWithinADay
<1>4. CASE Login
  <2>1. due' \in Nat
    BY <1>4 DEF Login, SLEEP_TIME
  <2>2. /\ online' \in BOOLEAN /\ missed' \in BOOLEAN /\ age' \in Nat /\ balance' \in Nat
        /\ bill' = NoBill /\ order' = order
    BY <1>4 DEF Login
  <2>3. BilledWithinADay'
    BY <2>2, NothingBilled DEF BilledWithinADay
  <2>4. QED
    BY <2>1, <2>2, <2>3, NothingBilled
<1>5. CASE Settle("player")
  BY <1>1, <1>5
<1>6. NextPass => due' \in Nat
  BY DEF NextPass, SLEEP_TIME
<1>9. CASE Scan
  BY <1>6, <1>9 DEF Scan, BilledWithinADay
<1>10. CASE Forced
  BY <1>1, <1>10 DEF Forced
<1>11. CASE OrderFailed
  BY <1>6, <1>11 DEF OrderFailed, BilledWithinADay
<1>7. CASE UNCHANGED vars
  BY <1>7 DEF vars, BilledWithinADay
<1>8. QED
  BY <1>2, <1>3, <1>4, <1>5, <1>7, <1>9, <1>10, <1>11 DEF Next

(* Every session of less than a day is billed by the rule, for every       *)
(* price, payment and pace of the charging thread.                         *)
THEOREM BilledByRuleWithinADay == Spec => [](TypeOK /\ BilledWithinADay)
<1>1. Init => TypeOK /\ BilledWithinADay
  <2>1. Init => TypeOK
    <3>1. Init => online \in BOOLEAN /\ missed \in BOOLEAN
      BY DEF Init
    <3>2. Init => /\ age \in Nat /\ due \in Nat /\ balance \in Nat
                  /\ order \in {"none", "sent", "topped"} /\ bill \in Bill
      BY NothingBilled DEF Init
    <3>3. QED
      BY <3>1, <3>2 DEF TypeOK
  <2>2. Init => BilledWithinADay
    BY NothingBilled DEF Init, BilledWithinADay
  <2>3. QED
    BY <2>1, <2>2
<1>2. QED
  BY <1>1, BilledInductive, PTL DEF Spec
-----------------------------------------------------------------------------
(* What may be owed, in quarters of a cent *)
Limit == (3 + 4 * Passes) * Mode

(* How old the session may be when the next order of the charging thread   *)
(* is served                                                               *)
Horizon == age + due + (IF order = "none" THEN Delay ELSE 0)

(* A session has paid for its first minute, and what it will cost by then  *)
(* stays under the limit.                                                  *)
DebtInv ==
    /\ online => balance >= Mode
    /\ online /\ ~missed => 4 * (cal_cost_time(Horizon) * Mode - balance) < Limit
    /\ ~online => order = "none"
    /\ UnpaidBounded

LEMMA MoneyGrows ==
    ASSUME NEW m \in Nat, NEW n \in Nat, NEW k \in Nat, n <= m + k
    PROVE  n * Mode <= m * Mode + k * Mode
<1>1. PICK d \in Nat : m + k = n + d
  BY SMT
<1>2. (n + d) * Mode = n * Mode + d * Mode /\ (m + k) * Mode = m * Mode + k * Mode
      /\ d * Mode >= 0
  BY BillingAssumption
<1>3. QED
  BY <1>1, <1>2, BillingAssumption

LEMMA LimitSplit ==
    /\ Passes \in Nat /\ Limit \in Nat /\ Limit > 0
    /\ Passes * Mode \in Nat /\ Limit = 3 * Mode + 4 * (Passes * Mode)
BY BillingAssumption DEF Limit, Passes, Late

(* The first pass comes before the money of the first minute is far gone *)
LEMMA FirstPass ==
    ASSUME NEW a \in Nat, a < 30, NEW w \in 0 .. Late, NEW b \in Nat, b >= Mode
    PROVE  4 * (cal_cost_time(a + SLEEP_TIME + w) * Mode - b) < Limit
<1> DEFINE n == cal_cost_time(a + SLEEP_TIME + w)
<1>1. w \in Nat /\ a + SLEEP_TIME + w \in Nat /\ 30 + SLEEP_TIME + w \in Nat
      /\ a + SLEEP_TIME + w <= 30 + SLEEP_TIME + w
  BY BillingAssumption DEF SLEEP_TIME, Late
<1>2. n <= cal_cost_time(30 + SLEEP_TIME + w)
  BY <1>1, CostGrows
<1>3. cal_cost_time(30 + SLEEP_TIME + w) <= cal_cost_time(30) + Passes
  BY CostOfAPass
<1>4. cal_cost_time(30) = 1
  BY DEF cal_cost_time
<1>5. n \in Nat /\ cal_cost_time(30 + SLEEP_TIME + w) \in Nat
  BY <1>1, CostTimeFollowsRule
<1> HIDE DEF n
<1>6. n <= 1 + Passes
  BY <1>2, <1>3, <1>4, <1>5, LimitSplit
<1>7. n * Mode <= 1 * Mode + Passes * Mode
  BY <1>5, <1>6, LimitSplit, MoneyGrows
<1>8. n * Mode \in Int
  BY <1>5, BillingAssumption
<1> DEFINE x == n * Mode
           y == Passes * Mode
<1>9. x <= Mode + y /\ x \in Int /\ y \in Nat /\ Limit = 3 * Mode + 4 * y
  BY <1>7, <1>8, LimitSplit, BillingAssumption
<1> HIDE DEF x, y
<1>10. 4 * (x - b) < Limit
  BY <1>9, BillingAssumption
<1>11. QED
  BY <1>10 DEF x, n

LEMMA BeforeFirstPass ==
    ASSUME NEW a, a = 0, NEW d \in 0 .. SLEEP_TIME + Late, NEW b \in Nat, b >= Mode
    PROVE  4 * (cal_cost_time(a + d) * Mode - b) < Limit
<1> DEFINE h == 0 + SLEEP_TIME + Late
           n == cal_cost_time(a + d)
           m == cal_cost_time(h)
<1>1. a + d \in Nat /\ h \in Nat /\ a + d <= h
  BY BillingAssumption DEF SLEEP_TIME, Late
<1>2. n \in Nat /\ m \in Nat /\ n <= m + 0
  BY <1>1, CostTimeFollowsRule, CostGrows
<1>3. Late \in 0 .. Late
  BY BillingAssumption DEF Late
<1>4. 4 * (m * Mode - b) < Limit
  BY <1>3, FirstPass
<1> HIDE DEF n, m, h
<1>5. n * Mode <= m * Mode + 0 * Mode /\ n * Mode \in Nat /\ m * Mode \in Nat
  BY <1>2, MoneyGrows, BillingAssumption
<1>6. QED
  <2>1. 4 * (n * Mode - b) < Limit
    BY <1>4, <1>5, LimitSplit, BillingAssumption
  <2>2. QED
    BY <2>1 DEF n

LEMMA LateEnough ==
    ASSUME NEW d \in Nat, d <= SLEEP_TIME + Delay
    PROVE  d + Delay \in 0 .. SLEEP_TIME + Late
BY BillingAssumption DEF Late, SLEEP_TIME

LEMMA DebtInductive == TypeOK /\ DebtInv /\ [Next]_vars => DebtInv'
<1> SUFFICES ASSUME TypeOK, DebtInv, [Next]_vars PROVE DebtInv'
  OBVIOUS
<1> USE BillingAssumption DEF TypeOK
<1> DEFINE h == cal_cost_time(Horizon) * Mode
<1>0. Horizon \in Nat /\ cal_cost_time(Horizon) \in Nat /\ h \in Nat
      /\ (online /\ ~missed => 4 * (h - balance) < Limit)
  <2>1. Horizon \in Nat
    BY DEF Horizon
  <2>2. cal_cost_time(Horizon) \in Nat
    BY <2>1, CostTimeFollowsRule
  <2>3. QED
    BY <2>1, <2>2 DEF DebtInv
<1> HIDE DEF h
<1>1. ASSUME NEW by, Settle(by) PROVE DebtInv'
  <2> DEFINE c == cal_cost_time(Seconds) * Mode
  <2>1. Seconds \in Nat /\ Seconds <= Horizon
    BY DEF Seconds, Day, Horizon
  <2>2. cal_cost_time(Seconds) \in Nat
        /\ cal_cost_time(Seconds) <= cal_cost_time(Horizon) + 0
    BY <1>0, <2>1, CostTimeFollowsRule, CostGrows
  <2>3. c <= h + 0 * Mode /\ c \in Nat
    BY <1>0, <2>2, MoneyGrows DEF h
  <2>4. /\ online /\ online' = FALSE /\ order' = "none" /\ missed' = missed
        /\ bill'.unpaid = IF balance < c THEN c - balance ELSE 0
    BY <1>1 DEF Settle
  <2> HIDE DEF c
  <2>5. ~missed => 4 * bill'.unpaid < Limit
    BY <1>0, <2>3, <2>4, LimitSplit
  <2>6. QED
    BY <2>4, <2>5 DEF DebtInv, UnpaidBounded, Limit
<1>2. ASSUME NEW f \in Fees, Recharge(f) PROVE DebtInv'
  <2>1. f \in Nat /\ balance' = balance + f /\ UNCHANGED <<online, age, due, missed, bill>>
        /\ (order' = "none" <=> order = "none")
    BY <1>2 DEF Recharge
  <2>2. Horizon' = Horizon
    BY <2>1 DEF Horizon
  <2>3. online /\ ~missed => 4 * (h - (balance + f)) < Limit
    BY <1>0, <2>1, LimitSplit
  <2>4. QED
    BY <2>1, <2>2, <2>3 DEF DebtInv, UnpaidBounded, Limit, h
<1>3. ASSUME NEW d \in Steps, Tick(d) PROVE DebtInv'
  <2>1. Horizon' = Horizon
    BY <1>3 DEF Tick, Horizon
  <2>2. QED
    BY <1>3, <2>1 DEF Tick, DebtInv, UnpaidBounded, Limit
<1>4. CASE Login
  <2>1. /\ online' = TRUE /\ balance' = balance /\ balance >= Mode /\ age' = 0
        /\ bill' = NoBill /\ order' = "none"
        /\ due' \in Nat /\ due' <= SLEEP_TIME + Delay
    BY <1>4 DEF Login, DebtInv, SLEEP_TIME
  <2>2. Horizon' = age' + (due' + Delay)
    BY <2>1 DEF Horizon
  <2>3. due' + Delay \in 0 .. SLEEP_TIME + Late
    BY <2>1, LateEnough
  <2>4. 4 * (cal_cost_time(age' + (due' + Delay)) * Mode - balance) < Limit
    BY <2>1, <2>3, BeforeFirstPass
  <2>5. 4 * NoBill.unpaid < Limit
    BY LimitSplit DEF NoBill
  <2>6. QED
    BY <2>1, <2>2, <2>4, <2>5 DEF DebtInv, UnpaidBounded, Limit
<1>5. CASE Settle("player")
  BY <1>1, <1>5
<1>6. CASE Scan
  <2>1. online /\ order = "none" /\ due = 0 /\ balance >= Mode
        /\ UNCHANGED <<online, age, balance, missed, bill>>
    BY <1>6 DEF Scan, DebtInv
  <2>2. CASE UsedUp /\ order' = "sent" /\ due' = Delay
    <3>1. Horizon' = Horizon
      BY <2>1, <2>2 DEF Horizon
    <3>2. QED
      BY <2>1, <2>2, <3>1 DEF DebtInv, UnpaidBounded, Limit
  <2>3. CASE ~UsedUp /\ NextPass /\ UNCHANGED order
    <3>1. PICK v \in 0 .. Delay : due' = SLEEP_TIME + v
      BY <2>3 DEF NextPass
    <3> DEFINE w == v + Delay
    <3>2. w \in 0 .. Late
      BY DEF Late
    <3> HIDE DEF w
    <3>3. Horizon' = age + SLEEP_TIME + w /\ w \in Nat
      BY <2>1, <2>3, <3>1, <3>2 DEF Horizon, SLEEP_TIME, w
    <3>4. 4 * (cal_cost_time(age + SLEEP_TIME + w) * Mode - balance) < Limit
      <4>1. CASE age < 30
        <5>1. age \in Nat /\ balance \in Nat
          OBVIOUS
        <5> HIDE DEF TypeOK
        <5>2. QED
          BY <2>1, <3>2, <4>1, <5>1, FirstPass
      <4>2. CASE age >= 30
        <5> DEFINE n == cal_cost_time(age + SLEEP_TIME + w)
                   m == cal_cost_time(age)
                   x == n * Mode
                   y == m * Mode
                   z == Passes * Mode
        <5>1. n \in Nat /\ m \in Nat
          BY <3>3, CostTimeFollowsRule DEF SLEEP_TIME
        <5>2. n <= m + Passes
          BY <3>2, <4>2, CostOfAPass
        <5> HIDE DEF n, m
        <5>3. x <= y + z /\ x \in Int /\ y \in Int /\ z \in Nat
          BY <5>1, <5>2, LimitSplit, MoneyGrows
        <5>4. 4 * (y - balance) < 3 * Mode
          BY <2>3, <5>3 DEF UsedUp, m
        <5>5. Limit = 3 * Mode + 4 * z
          BY LimitSplit
        <5> HIDE DEF x, y, z
        <5>6. 4 * (x - balance) < Limit
          BY <5>3, <5>4, <5>5
        <5>7. QED
          BY <5>6 DEF x, n
      <4>3. QED
        BY <4>1, <4>2
    <3>5. QED
      BY <2>1, <2>3, <3>3, <3>4 DEF DebtInv, UnpaidBounded, Limit
  <2>4. QED
    BY <1>6, <2>2, <2>3 DEF Scan
<1>7. CASE Forced
  BY <1>1, <1>7 DEF Forced
<1>8. CASE OrderFailed
  BY <1>8 DEF OrderFailed, DebtInv, UnpaidBounded
<1>9. CASE UNCHANGED vars
  BY <1>9 DEF vars, DebtInv, UnpaidBounded, Limit, Horizon
<1>10. QED
  BY <1>2, <1>3, <1>4, <1>5, <1>6, <1>7, <1>8, <1>9 DEF Next

(* What a session can leave unpaid is bounded for every price, payment and *)
(* delay of the charging thread, as long as no forced logout fails.        *)
THEOREM DebtBounded == Spec => []UnpaidBounded
<1>1. Init => DebtInv
  BY LimitSplit DEF Init, DebtInv, UnpaidBounded, Limit, NoBill
<1>2. DebtInv => UnpaidBounded
  BY DEF DebtInv
<1>3. QED
  BY <1>1, <1>2, DebtInductive, BilledByRuleWithinADay, PTL DEF Spec
-----------------------------------------------------------------------------
(* While an order is on its way and nobody pays, what was used up stays so *)
SpentInv ==
    /\ ~online => order = "none"
    /\ order = "sent" => cal_cost_time(age) * Mode > balance
    /\ ForcedOnlyWhenSpent

LEMMA SpentInductive == TypeOK /\ SpentInv /\ [Next]_vars => SpentInv'
<1> SUFFICES ASSUME TypeOK, SpentInv, [Next]_vars PROVE SpentInv'
  OBVIOUS
<1> USE BillingAssumption DEF TypeOK
<1> DEFINE c == cal_cost_time(age) * Mode
<1>0. cal_cost_time(age) \in Nat /\ c \in Nat
  BY CostTimeFollowsRule
<1>1. ASSUME NEW by, Settle(by), by = "sent" => order = "sent" PROVE SpentInv'
  <2> DEFINE m == cal_cost_time(Seconds) * Mode
  <2>1. /\ online' = FALSE /\ order' = "none"
        /\ bill'.by = by /\ bill'.seconds = age
        /\ bill'.unpaid = IF balance < m THEN m - balance ELSE 0
    BY <1>1 DEF Settle
  <2>2. age < Day => Seconds = age
    BY DEF Seconds, Day
  <2>3. ASSUME by = "sent", age < Day PROVE bill'.unpaid > 0
    <3>1. m = c
      BY <2>2, <2>3
    <3>2. c > balance
      BY <1>1, <2>3 DEF SpentInv
    <3> HIDE DEF m, c
    <3>3. QED
      BY <1>0, <2>1, <3>1, <3>2
  <2>4. QED
    BY <2>1, <2>3 DEF SpentInv, ForcedOnlyWhenSpent
<1>2. ASSUME NEW d \in Steps, Tick(d) PROVE SpentInv'
  <2>1. /\ age' = age + d /\ age' \in Nat /\ d \in Nat
        /\ UNCHANGED <<online, order, balance, bill>>
    BY <1>2 DEF Tick
  <2>2. cal_cost_time(age') \in Nat /\ cal_cost_time(age) <= cal_cost_time(age') + 0
    BY <2>1, CostGrows, CostTimeFollowsRule
  <2>3. c <= cal_cost_time(age') * Mode + 0 * Mode
    BY <1>0, <2>2, MoneyGrows
  <2> DEFINE n == cal_cost_time(age') * Mode
  <2>4. n \in Nat
    BY <2>2
  <2>5. order = "sent" => n > balance
    <3>1. order = "sent" => c > balance
      BY DEF SpentInv
    <3> HIDE DEF c, n
    <3>2. QED
      BY <1>0, <2>3, <2>4, <3>1 DEF n
  <2>6. QED
    BY <2>1, <2>5 DEF SpentInv, ForcedOnlyWhenSpent
<1>3. CASE Scan
  <2>1. UNCHANGED <<online, age, balance, bill>> /\ online
    BY <1>3 DEF Scan
  <2>2. UsedUp => c > balance
    <3>1. UsedUp => 4 * (c - balance) >= 3 * Mode
      BY DEF UsedUp
    <3> HIDE DEF c
    <3>2. QED
      BY <1>0, <3>1
  <2>3. order' = "sent" => UsedUp
    BY <1>3 DEF Scan
  <2>4. QED
    BY <2>1, <2>2, <2>3 DEF SpentInv, ForcedOnlyWhenSpent
<1>4. CASE Login
  BY <1>4 DEF Login, SpentInv, ForcedOnlyWhenSpent, NoBill
<1>5. ASSUME NEW f \in Fees, Recharge(f) PROVE SpentInv'
  BY <1>5 DEF Recharge, SpentInv, ForcedOnlyWhenSpent
<1>6. CASE OrderFailed
  BY <1>6 DEF OrderFailed, SpentInv, ForcedOnlyWhenSpent
<1>7. CASE UNCHANGED vars
  BY <1>7 DEF vars, SpentInv, ForcedOnlyWhenSpent
<1>8. CASE Settle("player")
  BY <1>1, <1>8
<1>9. CASE Forced
  BY <1>1, <1>9 DEF Forced
<1>10. QED
  BY <1>2, <1>3, <1>4, <1>5, <1>6, <1>7, <1>8, <1>9 DEF Next

(* The charging thread throws out nobody who has money left for the        *)
(* minutes he is billed, for every price, payment and delay.               *)
THEOREM NobodyThrownOutEarly == Spec => []ForcedOnlyWhenSpent
<1>1. Init => SpentInv
  BY DEF Init, SpentInv, ForcedOnlyWhenSpent, NoBill
<1>2. SpentInv => ForcedOnlyWhenSpent
  BY DEF SpentInv
<1>3. QED
  BY <1>1, <1>2, SpentInductive, BilledByRuleWithinADay, PTL DEF Spec
=============================================================================
