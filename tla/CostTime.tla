------------------------------ MODULE CostTime ------------------------------
(* From the seconds of a session to the minutes that are charged. *)
EXTENDS Integers

(* Mutation of cal_cost_time: a minute that has begun is not charged *)
cal_cost_time_floor(seconds) ==
    IF seconds < 30 THEN 0 ELSE IF seconds < 60 THEN 1 ELSE seconds \div 60

cal_cost_time(seconds) ==
    LET s == IF seconds < 30 THEN 0 ELSE IF seconds < 60 THEN 60 ELSE seconds
    IN  s \div 60 + (IF s % 60 # 0 THEN 1 ELSE 0)

(* The rule of the product: nothing up to half a minute, then every minute *)
(* that has begun.                                                         *)
FollowsRule(minutes, seconds) ==
    IF seconds < 30 THEN minutes = 0
                    ELSE 60 * (minutes - 1) < seconds /\ seconds <= 60 * minutes
=============================================================================
