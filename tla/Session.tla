------------------------------- MODULE Session -------------------------------
(***************************************************************************)
(* A session: the redis keys that say who plays on which device, the use   *)
(* record it will be billed on, the row of the device, and the lock of the *)
(* player.  do_online opens it, do_offline closes it, and the charging     *)
(* thread closes the sessions of silent clients and of players out of      *)
(* money by posting to /windows/logout.  Every redis write and every       *)
(* transaction is a step, so that another request, or the death of the     *)
(* worker, can come between.                                               *)
(***************************************************************************)
EXTENDS DeviceRow, Sequences, FiniteSets

CONSTANTS User,
          NoToken,       \* no session token
          MaxRecord,     \* use records a run creates
          MaxVersion,    \* no user or administrator logs out and no self check
                         \* ends once a row has this version
          MaxCrash,      \* workers that die in a run, or logouts that redis
                         \* breaks off between two keys
          MaxRaised,     \* only the logins of the first MaxRaised records are
                         \* broken off by redis
          MaxForced,     \* logouts the charging thread orders in a run
          Faults         \* what else may go wrong: see Fault

(* delete: the device may be deleted; fail: the bill may raise and be      *)
(* rolled back; redis: a command that writes the keys may raise            *)
Fault == {"delete", "fail", "redis"}

ASSUME SessionAssumption ==
    /\ MaxRecord \in Nat /\ MaxVersion \in Nat /\ MaxCrash \in Nat
    /\ MaxRaised \in Nat /\ MaxForced \in Nat
    /\ Faults \subseteq Fault
    /\ NoToken \notin User \X Device
    /\ IsFiniteSet(Req) /\ "absent" \notin Req /\ "left" \notin Req

Token == User \X Device                 \* the text user#device of a record key

VARIABLES recordKey,     \* recordKey[t]: use record in the charging text, 0: no key
          userKey,       \* userKey[u]: token, the session of the user
          deviceKey,     \* deviceKey[d]: token, also under the device's code
          onlineKey,     \* tokens whose keep-alive key has not expired
          lockKey,       \* lockKey[u]: "absent", the holder, or "left" behind
          record,        \* record[r]: token, the use records in MySQL
          billed,        \* billed[r]: how often r was settled
          order,         \* the logout the charging thread is about to post
          req,           \* req[p]: the request p serves
          crashes, forced,
          unopened       \* history: devices the last login that made them busy
                         \* left without a charging text

keyVars == <<recordKey, userKey, deviceKey, onlineKey>>
recVars == <<record, billed>>
countVars == <<crashes, forced, unopened>>
vars == <<rowVars, keyVars, lockKey, recVars, order, req, countVars>>

Label == {"idle", "checked", "lock", "failed",
          "state", "setRecord", "setUser", "setDevice",
          "recheck", "bill", "settle", "delRecord", "delUser", "delDevice",
          "leave", "end"}

(* rec: the use record of the charging text in hand; seen: the device row  *)
Idle == [kind |-> "login", pc |-> "idle", tok |-> NoToken, rec |-> 0, seen |-> NoRow]

Request == [kind : {"login", "logout"}, pc : Label, tok : Token \cup {NoToken},
            rec : 0..MaxRecord, seen : Row \cup {NoRow}]

TypeOK ==
    /\ RowTypeOK
    /\ recordKey \in [Token -> 0..MaxRecord]
    /\ userKey \in [User -> Token \cup {NoToken}]
    /\ deviceKey \in [Device -> Token \cup {NoToken}]
    /\ onlineKey \subseteq Token
    /\ lockKey \in [User -> {"absent", "left"} \cup Req]
    /\ record \in Seq(Token) /\ Len(record) <= MaxRecord
    /\ DOMAIN billed = DOMAIN record /\ \A r \in DOMAIN billed : billed[r] \in Nat
    /\ order \in Token \cup {NoToken}
    /\ req \in [Req -> Request]
    /\ crashes \in 0..MaxCrash /\ forced \in 0..MaxForced
    /\ unopened \subseteq Device

Init ==
    /\ RowInit
    /\ recordKey = [t \in Token |-> 0]
    /\ userKey = [u \in User |-> NoToken]
    /\ deviceKey = [d \in Device |-> NoToken]
    /\ onlineKey = {}
    /\ lockKey = [u \in User |-> "absent"]
    /\ record = << >> /\ billed = << >>
    /\ order = NoToken
    /\ req = [p \in Req |-> Idle]
    /\ crashes = 0 /\ forced = 0 /\ unopened = {}

UserOf(p) == req[p].tok[1]
DeviceOf(p) == req[p].tok[2]
At(p, l) == req[p].pc = l
Goto(p, l) == req' = [req EXCEPT ![p].pc = l]
-----------------------------------------------------------------------------
(* The lock of the user.  Its holder needs less than the four seconds the  *)
(* key lives, unless it dies: DistributeLock and Account have the late one *)

(* What the holder does first *)
Body(p) == IF req[p].kind = "login" THEN "state" ELSE "recheck"

(* Mutation of EnterLock: nobody waits for the key to go away *)
EnterLock_barge(p) ==
    /\ At(p, "lock")
    /\ lockKey' = [lockKey EXCEPT ![UserOf(p)] = p]
    /\ Goto(p, Body(p))
    /\ UNCHANGED <<rowVars, keyVars, recVars, order, countVars>>

EnterLock(p) ==
    /\ At(p, "lock")
    /\ lockKey[UserOf(p)] = "absent"
    /\ lockKey' = [lockKey EXCEPT ![UserOf(p)] = p]
    /\ Goto(p, Body(p))
    /\ UNCHANGED <<rowVars, keyVars, recVars, order, countVars>>

(* acquire() raises: the key of a dead holder has expired, and getset is   *)
(* missing                                                                 *)
FailLock(p) ==
    /\ At(p, "lock")
    /\ lockKey[UserOf(p)] = "left"
    /\ Goto(p, "failed")
    /\ UNCHANGED <<rowVars, keyVars, lockKey, recVars, order, countVars>>

(* the finally block is entered all the same *)
GiveUp(p) ==
    /\ At(p, "failed")
    /\ Goto(p, "leave")
    /\ UNCHANGED <<rowVars, keyVars, lockKey, recVars, order, countVars>>

(* release() deletes the key, a caller that failed that of the dead holder *)
LeaveLock(p) ==
    LET u == UserOf(p) IN
    /\ At(p, "leave")
    /\ lockKey' = IF lockKey[u] \in {p, "left"}
                  THEN [lockKey EXCEPT ![u] = "absent"] ELSE lockKey
    /\ Goto(p, "end")
    /\ UNCHANGED <<rowVars, keyVars, recVars, order, countVars>>
-----------------------------------------------------------------------------
(* qr_code_online and do_online *)

(* MaxRecord, counting the records about to be created *)
RoomForRecord == Len(record) + Cardinality({q \in Req : At(q, "checked")}) < MaxRecord

(* Every look at redis and at the row before do_online is called; whether  *)
(* the device is online and the player has money may come out either way   *)
MayLogin(u, d) ==
    /\ RoomForRecord
    /\ recordKey[<<u, d>>] = 0
    /\ deviceKey[d] = NoToken
    /\ userKey[u] = NoToken
    /\ row[d].state = "free" /\ row[d].upd \in {"wait", "finish"}

CheckLogin(p, u, d) ==
    /\ At(p, "idle")
    /\ MayLogin(u, d)
    /\ req' = [req EXCEPT ![p] = [Idle EXCEPT !.tok = <<u, d>>, !.pc = "checked"]]
    /\ UNCHANGED <<rowVars, keyVars, lockKey, recVars, order, countVars>>

(* Mutation of CreateRecord: the id of the next record *)
CreateRecord_next(p) ==
    LET r == row[DeviceOf(p)] IN
    /\ At(p, "checked")
    /\ record' = Append(record, req[p].tok)
    /\ billed' = Append(billed, 0)
    /\ req' = [req EXCEPT ![p].rec = Len(record') + 1, ![p].seen = r,
                          ![p].pc = IF r = NoRow THEN "end" ELSE "lock"]
    /\ UNCHANGED <<rowVars, keyVars, lockKey, order, countVars>>

(* UseRecord.create commits, which expires the instance of the device; it  *)
(* is read again while the charging text is put together                   *)
CreateRecord(p) ==
    LET r == row[DeviceOf(p)] IN
    /\ At(p, "checked")
    /\ record' = Append(record, req[p].tok)
    /\ billed' = Append(billed, 0)
    /\ req' = [req EXCEPT ![p].rec = Len(record'), ![p].seen = r,
                          ![p].pc = IF r = NoRow THEN "end" ELSE "lock"]
    /\ UNCHANGED <<rowVars, keyVars, lockKey, order, countVars>>

SetBusy(p) ==
    LET d == DeviceOf(p) IN
    /\ At(p, "state")
    /\ CanWrite(p, d)
    /\ \/ UpdateStatus(p, d, req[p].seen.ver, "busy") /\ Goto(p, "setRecord")
       \/ /\ ~VersionMatches(d, req[p].seen.ver)
          /\ Goto(p, "leave")
          /\ UNCHANGED dirty
    /\ UNCHANGED <<row, keyVars, lockKey, recVars, order, countVars>>

SetRecordKey(p) ==
    /\ At(p, "setRecord")
    /\ recordKey' = [recordKey EXCEPT ![req[p].tok] = req[p].rec]
    /\ unopened' = unopened \ {DeviceOf(p)}
    /\ Goto(p, "setUser")
    /\ UNCHANGED <<rowVars, userKey, deviceKey, onlineKey, lockKey, recVars, order,
                   crashes, forced>>

SetUserKey(p) ==
    /\ At(p, "setUser")
    /\ userKey' = [userKey EXCEPT ![UserOf(p)] = req[p].tok]
    /\ Goto(p, "setDevice")
    /\ UNCHANGED <<rowVars, recordKey, deviceKey, onlineKey, lockKey, recVars, order, countVars>>

(* device_key, device_code_key and the keep-alive key *)
SetDeviceKeys(p) ==
    /\ At(p, "setDevice")
    /\ deviceKey' = [deviceKey EXCEPT ![DeviceOf(p)] = req[p].tok]
    /\ onlineKey' = onlineKey \cup {req[p].tok}
    /\ Goto(p, "leave")
    /\ UNCHANGED <<rowVars, recordKey, userKey, lockKey, recVars, order, countVars>>

(* A redis command raises once the row is BUSY: the SETEX of the cached     *)
(* state or one of the SETs of the keys.  do_online catches it and answers  *)
(* success all the same, so the teardown commits the row, with no key or    *)
(* with those set so far.  A keep-alive key not set is one that expired.    *)
LoginRaises(p) ==
    /\ "redis" \in Faults /\ req[p].rec <= MaxRaised
    /\ req[p].pc \in {"setRecord", "setUser", "setDevice"}
    /\ unopened' = IF At(p, "setRecord") THEN unopened \cup {DeviceOf(p)} ELSE unopened
    /\ Goto(p, "leave")
    /\ UNCHANGED <<rowVars, keyVars, lockKey, recVars, order, crashes, forced>>
-----------------------------------------------------------------------------
(* do_offline, reached with a token: the user's own, the client's (which   *)
(* keeps the one it was given), an administrator's or the charging thread's *)

(* the charging text is read before the lock is asked for *)
ReadCharging(p, t, seen) ==
    /\ At(p, "idle")
    /\ recordKey[t] # 0
    /\ req' = [req EXCEPT ![p] = [Idle EXCEPT !.kind = "logout", !.tok = t,
                  !.rec = recordKey[t], !.seen = seen, !.pc = "lock"]]

(* For an administrator login_required has loaded the admin row, which     *)
(* opened the snapshot: the device will be seen as it is now               *)
AskLogout(p, t) ==
    /\ row[t[2]].ver < MaxVersion
    /\ \E seen \in {NoRow, row[t[2]]} : ReadCharging(p, t, seen)
    /\ UNCHANGED <<rowVars, keyVars, lockKey, recVars, order, countVars>>

DeviceRead(p) == IF req[p].seen = NoRow THEN row[DeviceOf(p)] ELSE req[p].seen

(* Mutation of Recheck: the session is not looked up again *)
Recheck_skip(p) ==
    LET r == DeviceRead(p) IN
    /\ At(p, "recheck")
    /\ req' = [req EXCEPT ![p].seen = r, ![p].pc = IF r = NoRow THEN "leave" ELSE "bill"]
    /\ UNCHANGED <<rowVars, keyVars, lockKey, recVars, order, countVars>>

(* Is there still a session?  If so cal_offline reads the device; a device *)
(* that is gone raises                                                     *)
Recheck(p) ==
    LET r == DeviceRead(p) IN
    /\ At(p, "recheck")
    /\ req' = [req EXCEPT ![p].seen = r,
                   ![p].pc = IF recordKey[req[p].tok] = 0 \/ r = NoRow THEN "leave"
                             ELSE "bill"]
    /\ UNCHANGED <<rowVars, keyVars, lockKey, recVars, order, countVars>>

(* With every update finished the device goes to its self check and is     *)
(* locked, else it is free.  A stale version leaves the CHECK behind, and  *)
(* the commit at teardown keeps it.                                        *)
SetReleased(p) ==
    LET d == DeviceOf(p)
        s == req[p].seen
        tested == [Latest(d) EXCEPT !.upd = IF s.upd = "finish" THEN "check" ELSE @]
    IN  /\ At(p, "bill")
        /\ CanWrite(p, d)
        /\ IF VersionMatches(d, s.ver)
           THEN /\ Put(p, d, [tested EXCEPT !.ver = @ + 1,
                               !.state = IF s.upd = "finish" THEN "lock" ELSE "free"])
                /\ Goto(p, "settle")
           ELSE /\ IF Latest(d) # NoRow /\ s.upd = "finish" THEN Put(p, d, tested)
                   ELSE UNCHANGED dirty
                /\ Goto(p, "leave")
        /\ UNCHANGED <<row, keyVars, lockKey, recVars, order, countVars>>

(* Mutation of Settle: a bill that failed closes the session all the same *)
Settle_anyway(p) ==
    /\ At(p, "settle")
    /\ \/ Commit(p) /\ billed' = [billed EXCEPT ![req[p].rec] = @ + 1] /\ Goto(p, "delRecord")
       \/ "fail" \in Faults /\ Rollback(p) /\ Goto(p, "delRecord") /\ UNCHANGED billed
    /\ UNCHANGED <<keyVars, lockKey, record, order, countVars>>

(* the record, the player's balance and the device are written and         *)
(* committed together, or the bill raises and all of it is rolled back     *)
Settle(p) ==
    /\ At(p, "settle")
    /\ \/ Commit(p) /\ billed' = [billed EXCEPT ![req[p].rec] = @ + 1] /\ Goto(p, "delRecord")
       \/ "fail" \in Faults /\ Rollback(p) /\ Goto(p, "leave") /\ UNCHANGED billed
    /\ UNCHANGED <<keyVars, lockKey, record, order, countVars>>

DelRecordKey(p) ==
    /\ At(p, "delRecord")
    /\ recordKey' = [recordKey EXCEPT ![req[p].tok] = 0]
    /\ Goto(p, "delUser")
    /\ UNCHANGED <<rowVars, userKey, deviceKey, onlineKey, lockKey, recVars, order, countVars>>

(* Mutation of DelUserKey: the key of the user is left to the next login *)
DelUserKey_forget(p) ==
    /\ At(p, "delUser")
    /\ Goto(p, "delDevice")
    /\ UNCHANGED <<rowVars, keyVars, lockKey, recVars, order, countVars>>

DelUserKey(p) ==
    /\ At(p, "delUser")
    /\ userKey' = [userKey EXCEPT ![UserOf(p)] = NoToken]
    /\ Goto(p, "delDevice")
    /\ UNCHANGED <<rowVars, recordKey, deviceKey, onlineKey, lockKey, recVars, order, countVars>>

(* device_key, device_code_key and the keep-alive key *)
DelDeviceKeys(p) ==
    /\ At(p, "delDevice")
    /\ deviceKey' = [deviceKey EXCEPT ![DeviceOf(p)] = NoToken]
    /\ onlineKey' = onlineKey \ {req[p].tok}
    /\ Goto(p, "leave")
    /\ UNCHANGED <<rowVars, recordKey, userKey, lockKey, recVars, order, countVars>>

(* One of the deletions raises: the bill is committed, the handler answers  *)
(* that it failed, and the keys not yet deleted stay, as after a death      *)
LogoutRaises(p) ==
    /\ "redis" \in Faults /\ crashes < MaxCrash
    /\ req[p].pc \in {"delRecord", "delUser", "delDevice"}
    /\ crashes' = crashes + 1
    /\ Goto(p, "leave")
    /\ UNCHANGED <<rowVars, keyVars, lockKey, recVars, order, forced, unopened>>
-----------------------------------------------------------------------------
Teardown(p) ==
    /\ At(p, "end")
    /\ Commit(p)
    /\ req' = [req EXCEPT ![p] = Idle]
    /\ UNCHANGED <<keyVars, lockKey, recVars, order, countVars>>

(* the worker dies; a lock it holds stays until it expires *)
Crash(p) ==
    /\ crashes < MaxCrash
    /\ ~At(p, "idle")
    /\ crashes' = crashes + 1
    /\ Rollback(p)
    /\ lockKey' = [u \in User |-> IF lockKey[u] = p THEN "left" ELSE lockKey[u]]
    /\ req' = [req EXCEPT ![p] = Idle]
    /\ UNCHANGED <<keyVars, recVars, order, forced, unopened>>

(* Mutation of Sweep: a session without a keep-alive key is passed over *)
Sweep_onlineOnly(t) ==
    /\ order = NoToken
    /\ recordKey[t] # 0
    /\ t \in onlineKey /\ forced < MaxForced
    /\ order' = t
    /\ forced' = forced + 1
    /\ UNCHANGED <<rowVars, keyVars, lockKey, recVars, req, crashes, unopened>>

(* do_charging: no keep-alive key, or out of money.  MaxForced bounds the   *)
(* latter only: a silent session is always seen                            *)
Sweep(t) ==
    /\ order = NoToken
    /\ recordKey[t] # 0
    /\ \/ t \notin onlineKey /\ UNCHANGED forced
       \/ t \in onlineKey /\ forced < MaxForced /\ forced' = forced + 1
    /\ order' = t
    /\ UNCHANGED <<rowVars, keyVars, lockKey, recVars, req, crashes, unopened>>

(* do_offline_order: the post reaches a worker, or finds no session there, *)
(* or is given up after ten seconds                                        *)
Deliver(p) ==
    /\ order # NoToken
    /\ ReadCharging(p, order, NoRow)
    /\ order' = NoToken
    /\ UNCHANGED <<rowVars, keyVars, lockKey, recVars, countVars>>

OrderLost ==
    /\ order # NoToken
    /\ order' = NoToken
    /\ UNCHANGED <<rowVars, keyVars, lockKey, recVars, req, countVars>>

(* /keepalive, and the TTL of its key *)
KeepAlive(t) ==
    /\ recordKey[t] # 0
    /\ onlineKey' = onlineKey \cup {t}
    /\ UNCHANGED <<rowVars, recordKey, userKey, deviceKey, lockKey, recVars, order, req, countVars>>

KeepAliveLost(t) ==
    /\ t \in onlineKey
    /\ onlineKey' = onlineKey \ {t}
    /\ UNCHANGED <<rowVars, recordKey, userKey, deviceKey, lockKey, recVars, order, req, countVars>>

(* Between two sessions, as DeviceStatus has it step by step: the client   *)
(* reports its self check or its update finished, which unlocks the device *)
SelfCheckDone(d) ==
    LET r == row[d] IN
    /\ r.upd \in {"check", "wait"} /\ (r.state = "lock" => r.ver < MaxVersion)
    /\ dirty[d] = Clean
    /\ row' = [row EXCEPT ![d] = [r EXCEPT !.upd = "finish",
                                  !.state = IF @ = "lock" THEN "free" ELSE @,
                                  !.ver = IF r.state = "lock" THEN @ + 1 ELSE @]]
    /\ UNCHANGED <<dirty, keyVars, lockKey, recVars, order, req, countVars>>

(* a game of the device has a newer version *)
UpdateWaits(d) ==
    /\ row[d].upd = "finish"
    /\ dirty[d] = Clean
    /\ row' = [row EXCEPT ![d].upd = "wait"]
    /\ UNCHANGED <<dirty, keyVars, lockKey, recVars, order, req, countVars>>

(* delete_device: refused only when online and not free; an offline device *)
(* may be busy                                                             *)
DeleteDevice(d) ==
    /\ "delete" \in Faults
    /\ row[d] # NoRow
    /\ dirty[d] = Clean
    /\ row' = [row EXCEPT ![d] = NoRow]
    /\ UNCHANGED <<dirty, keyVars, lockKey, recVars, order, req, countVars>>

Lock(p) == EnterLock(p) \/ FailLock(p) \/ GiveUp(p) \/ LeaveLock(p)
Login(p) == \/ CreateRecord(p) \/ SetBusy(p)
            \/ SetRecordKey(p) \/ SetUserKey(p) \/ SetDeviceKeys(p)
Logout(p) == \/ Recheck(p) \/ SetReleased(p) \/ Settle(p)
             \/ DelRecordKey(p) \/ DelUserKey(p) \/ DelDeviceKeys(p)
Step(p) == Lock(p) \/ Login(p) \/ Logout(p) \/ Teardown(p)
Raises(p) == LoginRaises(p) \/ LogoutRaises(p)

Maintain(d) == SelfCheckDone(d) \/ UpdateWaits(d) \/ DeleteDevice(d)

Next ==
    \/ \E p \in Req : \/ \E t \in Token : CheckLogin(p, t[1], t[2]) \/ AskLogout(p, t)
                      \/ Step(p) \/ Raises(p) \/ Crash(p) \/ Deliver(p)
    \/ \E t \in Token : Sweep(t) \/ KeepAlive(t) \/ KeepAliveLost(t)
    \/ OrderLost
    \/ \E d \in Device : Maintain(d)

Spec == Init /\ [][Next]_vars

(* Workers finish what they accepted; a request spinning on the lock gets  *)
(* its turn; the charging thread passes every silent session again and     *)
(* again, its posts come back after ten seconds and are not all lost.      *)
(* The rest of the world (users, clients, administrators) owes nothing.    *)
Fairness ==
    /\ \A p \in Req : WF_vars(Step(p)) /\ SF_vars(EnterLock(p))
    /\ WF_vars(OrderLost)
    /\ \A t \in Token : /\ SF_vars(Sweep(t) /\ t \notin onlineKey)
                        /\ SF_vars(order = t /\ \E p \in Req : Deliver(p))

FairSpec == Spec /\ Fairness
-----------------------------------------------------------------------------
Session(t) == recordKey[t] # 0

(* While nobody is inside the lock of a user, each token stored for the    *)
(* user or for a device still leads to a charging text: whoever asks with  *)
(* it (the player, the client, an administrator) can end the session.      *)
(* do_online and do_offline set and delete the keys in the same order,     *)
(* under the lock.                                                         *)
TokenResolves ==
    \A u \in User : lockKey[u] = "absent" =>
        /\ userKey[u] # NoToken => Session(userKey[u])
        /\ \A d \in Device : deviceKey[d] = <<u, d>> => Session(<<u, d>>)

(* A use record is settled twice only if the same player came back to the  *)
(* same device in between (the look at the record key under the lock, in   *)
(* do_offline, catches every other late logout).                           *)
BilledAgainOnlyAfterRelogin ==
    \A r \in DOMAIN record : billed[r] > 1 =>
        \E s \in DOMAIN record : s > r /\ record[s] = record[r]

(* A busy device is held by a session that can be ended, between any two   *)
(* steps: a login commits the row once its keys are there, a logout deletes *)
(* them once its row is committed, also when a login lost the version or    *)
(* some of its keys, a bill was rolled back or a worker died.  Excepted is   *)
(* the device whose login redis broke off before the charging text was      *)
(* written (windows/impl.py:197): that row is committed busy, and nobody    *)
(* can end what never began.                                               *)
BusyHasSession ==
    \A d \in Device \ unopened :
        row[d].state = "busy" => \E u \in User : Session(<<u, d>>)

(* The two handlers ask of the lock what UserLock promises and nothing     *)
(* more, whatever the lock does to them.                                   *)
LockPhase(p, u) ==
    LET l == req[p].pc IN
    IF l \in {"idle", "checked", "end"} \/ UserOf(p) # u THEN "out"
    ELSE IF l = "lock" THEN "waiting"
    ELSE IF l = "failed" THEN "failed"
    ELSE IF l = "leave" THEN "leaving"
    ELSE "inside"

LockOf(u) == INSTANCE UserLock WITH
    Proc <- Req,
    key <- IF lockKey[u] = "absent" THEN "absent" ELSE "present",
    phase <- [p \in Req |-> LockPhase(p, u)]

UsesUserLock ==
    /\ \A u \in User : LockOf(u)!Init
    /\ [][\A u \in User : [LockOf(u)!Next]_(LockOf(u)!uvars)]_vars

(* A session whose client stays silent is ended by the charging thread,    *)
(* over lost orders, refused logouts, locks of the dead and a dying worker *)
(* (settings.py:30), unless its device has been deleted: then nobody can.  *)
SilentSessionEnds ==
    \A t \in Token :
        <>[](t \notin onlineKey) => []<>(~Session(t) \/ row[t[2]] = NoRow)
-----------------------------------------------------------------------------
(* What the repository says and the code does not keep *)

(* common.py:54: a device in use is not given to another user *)
OneUserPerDevice ==
    \A d \in Device : Cardinality({u \in User : Session(<<u, d>>)}) <= 1
=============================================================================
