------------------------------ MODULE UserLock ------------------------------
(***************************************************************************)
(* What the lock of exts/distributed_lock.py really promises to the three  *)
(* handlers that use it (do_online, do_offline and online_recharge): a     *)
(* caller enters only when the redis key is absent, but the call may also  *)
(* fail, and a caller that failed, finished or died says nothing about     *)
(* whose key it takes away when it leaves.  There is no clock here.        *)
(* DistributeLock implements this module.                                  *)
(***************************************************************************)
CONSTANT Proc            \* the requests that may ask for the lock

VARIABLES key,           \* is the redis key there?
          phase          \* phase[p]: where request p stands

uvars == <<key, phase>>

Phase == {"out", "waiting", "inside", "failed", "leaving"}

TypeOK == key \in {"absent", "present"} /\ phase \in [Proc -> Phase]

Init == key = "absent" /\ phase = [p \in Proc |-> "out"]

Ask(p) ==
    /\ phase[p] = "out"
    /\ phase' = [phase EXCEPT ![p] = "waiting"]
    /\ UNCHANGED key

(* acquire() returned: the key was absent and is now set *)
Enter(p) ==
    /\ phase[p] = "waiting"
    /\ key = "absent"
    /\ key' = "present"
    /\ phase' = [phase EXCEPT ![p] = "inside"]

(* acquire() raised, the body of the try block is skipped *)
Fail(p) ==
    /\ phase[p] = "waiting"
    /\ phase' = [phase EXCEPT ![p] = "failed"]
    /\ UNCHANGED key

(* release() was called from the finally block, by an owner or by a caller *)
(* whose acquire() failed, and decided to delete                           *)
Leave(p) ==
    /\ phase[p] \in {"inside", "failed"}
    /\ phase' = [phase EXCEPT ![p] = "leaving"]
    /\ UNCHANGED key

(* release() came too late and leaves the key behind; or the worker died *)
Abandon(p) ==
    /\ phase[p] # "out"
    /\ phase' = [phase EXCEPT ![p] = "out"]
    /\ UNCHANGED key

(* the key is deleted, whoever set it *)
Remove(p) ==
    /\ phase[p] = "leaving"
    /\ key' = "absent"
    /\ phase' = [phase EXCEPT ![p] = "out"]

Next == \E p \in Proc : \/ Ask(p) \/ Enter(p) \/ Fail(p)
                        \/ Leave(p) \/ Abandon(p) \/ Remove(p)

Spec == Init /\ [][Next]_uvars
=============================================================================
