--------------------------- MODULE DistributeLock ---------------------------
(***************************************************************************)
(* The redis lock of exts/distributed_lock.py, as its three callers use    *)
(* it:                                                                     *)
(*      try: lock.acquire(); <critical section>                            *)
(*      finally: lock.release()                                            *)
(* for one lock key.  Each redis command is one atomic step; the clock may *)
(* advance, and a worker may die, between any two of them.                 *)
(*                                                                         *)
(* Times are whole seconds, as int(time.time()) makes them.                *)
(***************************************************************************)
EXTENDS Naturals

CONSTANTS Proc,          \* requests (threads of any gunicorn worker)
          LockTimeout,   \* lock_timeout of __init__: 3 in the code
          MaxTime        \* the clock stops here (a bound of the model)

ASSUME TimesAssumption == LockTimeout \in Nat /\ MaxTime \in Nat

NoKey == 0               \* GET answers None
NoOwner == "nobody"

ASSUME OwnerAssumption == NoOwner \notin Proc

VARIABLES clock,         \* time.time(), from 1 so that no time equals NoKey
          lockKey,       \* the value stored under lock#..., or NoKey
          lockTime,      \* lockTime[p]: self.lock_time of p's lock object
          now,           \* now[p]: the local variable now
          pc,            \* pc[p]: the next statement of p
          owner,         \* history: who stored the present key
          foulers        \* history: who deleted the key of a request inside

vars == <<clock, lockKey, lockTime, now, pc, owner, foulers>>

Time == Nat \ {0}
Label == {"idle", "loop", "setnx", "get", "inside", "raised", "delete"}

TypeOK ==
    /\ clock \in Time
    /\ lockKey \in Nat
    /\ lockTime \in [Proc -> Nat]
    /\ now \in [Proc -> Nat]
    /\ pc \in [Proc -> Label]
    /\ owner \in Proc \cup {NoOwner}
    /\ foulers \in SUBSET Proc

Init ==
    /\ clock = 1
    /\ lockKey = NoKey
    /\ lockTime = [p \in Proc |-> LockTimeout + 1]
    /\ now = [p \in Proc |-> 0]
    /\ pc = [p \in Proc |-> "idle"]
    /\ owner = NoOwner
    /\ foulers = {}

Goto(p, l) == pc' = [pc EXCEPT ![p] = l]

(* A new lock object; lock_time = lock_timeout + 1 *)
NewLock(p) ==
    /\ pc[p] = "idle"
    /\ Goto(p, "loop")
    /\ lockTime' = [lockTime EXCEPT ![p] = LockTimeout + 1]
    /\ UNCHANGED <<clock, lockKey, now, owner, foulers>>

(* The head of the loop: now, and the expiry this attempt would store *)
ReadClock(p) ==
    /\ pc[p] = "loop"
    /\ now' = [now EXCEPT ![p] = clock]
    /\ lockTime' = [lockTime EXCEPT ![p] = clock + LockTimeout + 1]
    /\ Goto(p, "setnx")
    /\ UNCHANGED <<clock, lockKey, owner, foulers>>

(* Mutation of SetnxWins: SET instead of SETNX *)
SetnxWins_set(p) ==
    /\ pc[p] = "setnx"
    /\ lockKey' = lockTime[p]
    /\ owner' = p
    /\ Goto(p, "inside")
    /\ UNCHANGED <<clock, lockTime, now, foulers>>

(* Mutation of SetnxWins: the time of the attempt is stored, not the expiry *)
SetnxWins_now(p) ==
    /\ pc[p] = "setnx"
    /\ lockKey = NoKey
    /\ lockKey' = now[p]
    /\ owner' = p
    /\ Goto(p, "inside")
    /\ UNCHANGED <<clock, lockTime, now, foulers>>

SetnxWins(p) ==
    /\ pc[p] = "setnx"
    /\ lockKey = NoKey
    /\ lockKey' = lockTime[p]
    /\ owner' = p
    /\ Goto(p, "inside")
    /\ UNCHANGED <<clock, lockTime, now, foulers>>

SetnxLoses(p) ==
    /\ pc[p] = "setnx"
    /\ lockKey # NoKey
    /\ Goto(p, "get")
    /\ UNCHANGED <<clock, lockKey, lockTime, now, owner, foulers>>

(* The key is alive: sleep and try again *)
KeyAlive(p) ==
    /\ pc[p] = "get"
    /\ lockKey # NoKey
    /\ now[p] <= lockKey
    /\ Goto(p, "loop")
    /\ UNCHANGED <<clock, lockKey, lockTime, now, owner, foulers>>

(* int(None): the key vanished between SETNX and GET *)
KeyVanished(p) ==
    /\ pc[p] = "get"
    /\ lockKey = NoKey
    /\ Goto(p, "raised")
    /\ UNCHANGED <<clock, lockKey, lockTime, now, owner, foulers>>

(* Mutation of KeyExpired: the takeover the code was meant to perform *)
KeyExpired_getset(p) ==
    /\ pc[p] = "get"
    /\ lockKey # NoKey
    /\ now[p] > lockKey
    /\ lockKey' = lockTime[p]
    /\ owner' = p
    /\ Goto(p, "inside")
    /\ UNCHANGED <<clock, lockTime, now, foulers>>

(* Mutation of KeyExpired: the error is swallowed and the loop goes on *)
KeyExpired_retry(p) ==
    /\ pc[p] = "get"
    /\ lockKey # NoKey
    /\ now[p] > lockKey
    /\ Goto(p, "loop")
    /\ UNCHANGED <<clock, lockKey, lockTime, now, owner, foulers>>

(* The key expired: the takeover calls getset, which RedisClient lacks *)
KeyExpired(p) ==
    /\ pc[p] = "get"
    /\ lockKey # NoKey
    /\ now[p] > lockKey
    /\ Goto(p, "raised")
    /\ UNCHANGED <<clock, lockKey, lockTime, now, owner, foulers>>

(* release(), from the finally block whether or not acquire() succeeded *)
ReleaseInTime(p) ==
    /\ pc[p] \in {"inside", "raised"}
    /\ clock < lockTime[p]
    /\ Goto(p, "delete")
    /\ UNCHANGED <<clock, lockKey, lockTime, now, owner, foulers>>

(* Mutation of ReleaseLate: the late release deletes the key as well *)
ReleaseLate_deletes(p) ==
    /\ pc[p] \in {"inside", "raised"}
    /\ clock >= lockTime[p]
    /\ lockKey' = NoKey
    /\ Goto(p, "idle")
    /\ UNCHANGED <<clock, lockTime, now, owner, foulers>>

ReleaseLate(p) ==
    /\ pc[p] \in {"inside", "raised"}
    /\ clock >= lockTime[p]
    /\ Goto(p, "idle")
    /\ UNCHANGED <<clock, lockKey, lockTime, now, owner, foulers>>

(* DEL takes away whatever key is there *)
DeleteKey(p) ==
    /\ pc[p] = "delete"
    /\ lockKey' = NoKey
    /\ owner' = NoOwner
    /\ foulers' = IF owner # NoOwner /\ pc[owner] = "inside"
                  THEN foulers \cup {p} ELSE foulers
    /\ Goto(p, "idle")
    /\ UNCHANGED <<clock, lockTime, now>>

(* The worker is killed; nothing in redis changes *)
Crash(p) ==
    /\ pc[p] # "idle"
    /\ Goto(p, "idle")
    /\ UNCHANGED <<clock, lockKey, lockTime, now, owner, foulers>>

Tick ==
    /\ clock < MaxTime
    /\ clock' = clock + 1
    /\ UNCHANGED <<lockKey, lockTime, now, pc, owner, foulers>>

Acquire(p) == ReadClock(p) \/ SetnxWins(p) \/ SetnxLoses(p)
              \/ KeyAlive(p) \/ KeyVanished(p) \/ KeyExpired(p)
Release(p) == ReleaseInTime(p) \/ ReleaseLate(p) \/ DeleteKey(p)

Next == Tick \/ \E p \in Proc : NewLock(p) \/ Acquire(p) \/ Release(p) \/ Crash(p)

Spec == Init /\ [][Next]_vars

(* A started request keeps running and time passes; nobody has to start a *)
(* request, and nobody has to crash.                                      *)
Fairness == WF_vars(Tick) /\ \A p \in Proc : WF_vars(Acquire(p) \/ Release(p))

FairSpec == Spec /\ Fairness
-----------------------------------------------------------------------------
Inside(p) == pc[p] = "inside"

(* At most one request is in the critical section: not kept by the code by  *)
(* itself, see the next property.                                          *)
MutualExclusion == \A p, q \in Proc : Inside(p) /\ Inside(q) => p = q

(* The only way two requests ever share the section is a DEL issued by     *)
(* someone else while the owner was still inside: expiry, late releases    *)
(* and crashes alone never let a second caller in.                         *)
ExclusiveUntilFouled == foulers = {} => MutualExclusion

(* As long as nobody's key was deleted, the request inside is the one that *)
(* stored the key, and the key stored is the expiry its release compares.  *)
OwnerInside ==
    foulers = {} => \A p \in Proc : Inside(p) => owner = p /\ lockKey = lockTime[p]

(* A stored key is never replaced by another value: since getset does not  *)
(* exist, an expired lock is not taken over but only ever deleted.         *)
NeverTakenOver == [][lockKey # NoKey => lockKey' \in {lockKey, NoKey}]_vars

(* A key nobody will delete (its owner died or released late) *)
Stale == lockKey # NoKey /\ \A p \in Proc : pc[p] \in {"idle", "loop", "setnx", "get"}

(* A stale key heals: if some request is waiting for it and the clock of   *)
(* the model can pass its expiry, the key goes away, at the cost of that   *)
(* request failing.                                                        *)
StaleKeyHeals ==
    \A p \in Proc :
        (Stale /\ pc[p] = "loop" /\ lockKey < MaxTime)
            ~> (lockKey = NoKey \/ pc[p] = "idle")
-----------------------------------------------------------------------------
(* Refinement: the clock, the stored expiry and the bookkeeping disappear *)
PhaseOf(l) == CASE l = "idle" -> "out"
                [] l \in {"loop", "setnx", "get"} -> "waiting"
                [] l = "inside" -> "inside"
                [] l = "raised" -> "failed"
                [] l = "delete" -> "leaving"

UL == INSTANCE UserLock WITH key <- IF lockKey = NoKey THEN "absent" ELSE "present",
                             phase <- [p \in Proc |-> PhaseOf(pc[p])]

(* What the lock promises its callers, without clocks *)
ImplementsUserLock == UL!Spec
=============================================================================
