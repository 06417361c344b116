------------------------ MODULE DistributeLock_proofs ------------------------
(* Proofs about DistributeLock, for any set of requests, any timeout and   *)
(* any clock bound.                                                        *)
EXTENDS DistributeLock, TLAPS

(* The lock module keeps its types: the expiry times are natural numbers   *)
(* and the bookkeeping names a request or nobody.                          *)
THEOREM LockTypeOK == Spec => []TypeOK
<1>1. Init => TypeOK
  BY TimesAssumption DEF TimesAssumption, Init, TypeOK, Time, Label, NoKey
<1>2. TypeOK /\ [Next]_vars => TypeOK'
  <2> SUFFICES ASSUME TypeOK, [Next]_vars PROVE TypeOK'
    OBVIOUS
  <2> USE TimesAssumption DEF TimesAssumption, TypeOK, Time, Label, NoKey, Goto
  <2>1. CASE Tick
    BY <2>1 DEF Tick
  <2>2. ASSUME NEW p \in Proc, NewLock(p) PROVE TypeOK'
    BY <2>2 DEF NewLock
  <2>3. ASSUME NEW p \in Proc, Acquire(p) PROVE TypeOK'
    BY <2>3 DEF Acquire, ReadClock, SetnxWins, SetnxLoses, KeyAlive,
                KeyVanished, KeyExpired
  <2>4. ASSUME NEW p \in Proc, Release(p) PROVE TypeOK'
    BY <2>4 DEF Release, ReleaseInTime, ReleaseLate, DeleteKey
  <2>5. ASSUME NEW p \in Proc, Crash(p) PROVE TypeOK'
    BY <2>5 DEF Crash
  <2>6. CASE UNCHANGED vars
    BY <2>6 DEF vars
  <2>7. QED
    BY <2>1, <2>2, <2>3, <2>4, <2>5, <2>6 DEF Next
<1>3. QED
  BY <1>1, <1>2, PTL DEF Spec

(* While no key was deleted under its owner's feet, the request inside is  *)
(* the one that stored the key, and its own lock_time is what is stored.   *)
(* OwnerInside is inductive given the types, and a key exists (expiries    *)
(* are positive), which is what keeps SETNX from succeeding.               *)
LockTimePositive == \A p \in Proc : pc[p] \in {"setnx", "inside"} => lockTime[p] > 0

LEMMA LockInductive ==
    ASSUME TypeOK, LockTimePositive, OwnerInside, [Next]_vars
    PROVE  LockTimePositive' /\ OwnerInside'
<1> USE TimesAssumption, OwnerAssumption
    DEF TimesAssumption, OwnerAssumption, TypeOK, Time, Label, NoKey, Goto,
        LockTimePositive, OwnerInside, Inside
<1>1. CASE Tick
  BY <1>1 DEF Tick
<1>2. ASSUME NEW p \in Proc, NewLock(p)
      PROVE  LockTimePositive' /\ OwnerInside'
  BY <1>2 DEF NewLock
<1>3. ASSUME NEW p \in Proc, Acquire(p)
      PROVE  LockTimePositive' /\ OwnerInside'
  <2>1. CASE ReadClock(p)
    BY <2>1 DEF ReadClock
  <2>2. CASE SetnxWins(p)
    BY <2>2 DEF SetnxWins
  <2>3. CASE SetnxLoses(p) \/ KeyAlive(p) \/ KeyVanished(p) \/ KeyExpired(p)
    BY <2>3 DEF SetnxLoses, KeyAlive, KeyVanished, KeyExpired
  <2>4. QED
    BY <1>3, <2>1, <2>2, <2>3 DEF Acquire
<1>4. ASSUME NEW p \in Proc, Release(p)
      PROVE  LockTimePositive' /\ OwnerInside'
  <2>1. CASE ReleaseInTime(p) \/ ReleaseLate(p)
    BY <2>1 DEF ReleaseInTime, ReleaseLate
  <2>2. CASE DeleteKey(p)
    BY <2>2 DEF DeleteKey
  <2>3. QED
    BY <1>4, <2>1, <2>2 DEF Release
<1>5. ASSUME NEW p \in Proc, Crash(p)
      PROVE  LockTimePositive' /\ OwnerInside'
  BY <1>5 DEF Crash
<1>6. CASE UNCHANGED vars
  BY <1>6 DEF vars
<1>7. QED
  BY <1>1, <1>2, <1>3, <1>4, <1>5, <1>6 DEF Next

(* The owner of the key is the request inside, until a foreign DEL. *)
THEOREM LockOwnerInside == Spec => [](LockTimePositive /\ OwnerInside)
<1>1. Init => LockTimePositive /\ OwnerInside
  BY DEF Init, LockTimePositive, OwnerInside, Inside
<1>2. TypeOK /\ LockTimePositive /\ OwnerInside /\ [Next]_vars
        => (LockTimePositive /\ OwnerInside)'
  BY LockInductive
<1>3. QED
  BY <1>1, <1>2, LockTypeOK, PTL DEF Spec

(* At most one request is in the critical section until some other request *)
(* deletes the key of the one inside, whatever the clock and crashes do.   *)
THEOREM LockExclusive == Spec => []ExclusiveUntilFouled
<1>1. OwnerInside => ExclusiveUntilFouled
  BY DEF OwnerInside, ExclusiveUntilFouled, MutualExclusion
<1>2. QED
  BY <1>1, LockOwnerInside, PTL

(* An expired lock is never taken over in place. *)
THEOREM LockNeverTakenOver == Spec => NeverTakenOver
<1>1. TypeOK /\ [Next]_vars => [lockKey # NoKey => lockKey' \in {lockKey, NoKey}]_vars
  <2> SUFFICES ASSUME TypeOK, [Next]_vars, lockKey # NoKey
               PROVE  lockKey' \in {lockKey, NoKey}
    OBVIOUS
  <2> QED
    BY DEF Next, vars, Tick, NewLock, Acquire, ReadClock, SetnxWins,
           SetnxLoses, KeyAlive, KeyVanished, KeyExpired, Release,
           ReleaseInTime, ReleaseLate, DeleteKey, Crash
<1>2. QED
  BY <1>1, LockTypeOK, PTL DEF Spec, NeverTakenOver
-----------------------------------------------------------------------------
LEMMA PhaseOfLabels ==
    /\ PhaseOf("idle") = "out"
    /\ PhaseOf("loop") = "waiting"
    /\ PhaseOf("setnx") = "waiting"
    /\ PhaseOf("get") = "waiting"
    /\ PhaseOf("inside") = "inside"
    /\ PhaseOf("raised") = "failed"
    /\ PhaseOf("delete") = "leaving"
BY DEF PhaseOf

(* Every step of the redis protocol is a step of UserLock or a stutter. *)
THEOREM LockRefinement == Spec => ImplementsUserLock
<1>1. Init => UL!Init
  BY PhaseOfLabels DEF Init, UL!Init
<1>2. TypeOK /\ LockTimePositive /\ [Next]_vars => [UL!Next]_(UL!uvars)
  <2> SUFFICES ASSUME TypeOK, LockTimePositive, [Next]_vars
               PROVE  UL!Next \/ UNCHANGED UL!uvars
    OBVIOUS
  <2> USE PhaseOfLabels DEF UL!uvars, Goto, TypeOK
  <2>1. CASE Tick
    BY <2>1 DEF Tick
  <2>2. ASSUME NEW p \in Proc, NewLock(p) PROVE UL!Ask(p)
    BY <2>2 DEF NewLock, UL!Ask
  <2>3. ASSUME NEW p \in Proc,
               ReadClock(p) \/ SetnxLoses(p) \/ KeyAlive(p)
        PROVE  UNCHANGED UL!uvars
    BY <2>3 DEF ReadClock, SetnxLoses, KeyAlive
  <2>4. ASSUME NEW p \in Proc, SetnxWins(p) PROVE UL!Enter(p)
    <3>1. lockTime[p] # NoKey
      BY <2>4 DEF LockTimePositive, SetnxWins, NoKey
    <3>2. QED
      BY <2>4, <3>1 DEF SetnxWins, UL!Enter
  <2>5. ASSUME NEW p \in Proc, KeyVanished(p) \/ KeyExpired(p) PROVE UL!Fail(p)
    BY <2>5 DEF KeyVanished, KeyExpired, UL!Fail
  <2>6. ASSUME NEW p \in Proc, ReleaseInTime(p) PROVE UL!Leave(p)
    BY <2>6 DEF ReleaseInTime, UL!Leave
  <2>7. ASSUME NEW p \in Proc, ReleaseLate(p) \/ Crash(p) PROVE UL!Abandon(p)
    BY <2>7 DEF ReleaseLate, Crash, UL!Abandon, Label
  <2>8. ASSUME NEW p \in Proc, DeleteKey(p) PROVE UL!Remove(p)
    BY <2>8 DEF DeleteKey, UL!Remove
  <2>9. CASE UNCHANGED vars
    BY <2>9 DEF vars
  <2>10. QED
    BY <2>1, <2>2, <2>3, <2>4, <2>5, <2>6, <2>7, <2>8, <2>9
       DEF Next, Acquire, Release, UL!Next
<1>3. QED
  BY <1>1, <1>2, LockTypeOK, LockOwnerInside, PTL DEF Spec, ImplementsUserLock, UL!Spec
=============================================================================
