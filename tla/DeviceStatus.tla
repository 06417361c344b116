----------------------------- MODULE DeviceStatus -----------------------------
(***************************************************************************)
(* Every handler that writes the state, the update state or the heartbeat  *)
(* of a device, each split where another request can come in between: at   *)
(* its first read, at each UPDATE, at each redis write and at the commit.  *)
(* The copy of the update state in redis is only read to answer a query    *)
(* and is left out.  The session of the device is reduced to "some record  *)
(* key points at it"; Session.tla has the keys themselves.                 *)
(***************************************************************************)
EXTENDS DeviceRow

CONSTANTS Kinds,         \* the handlers a run lets in
          MaxVersion,    \* no new request once a row has this version
          MayCrash       \* may workers die?

Kind == {"login", "logout", "check", "maintain", "lock", "unlock",
         "ing", "finish", "update", "delete"}

ASSUME KindsAssumption == Kinds \subseteq Kind /\ MaxVersion \in Nat
                            /\ MayCrash \in BOOLEAN /\ Device # {}

VARIABLES statusCache,   \* statusCache[d]: redis copy of state, or "none"
          beat,          \* beat[d]: the heartbeat key exists, the device is online
          seated,        \* seated[d]: a record key points at the device
          req            \* req[p]: the request p serves

vars == <<row, dirty, statusCache, beat, seated, req>>

Label == {"idle", "read", "reread", "state", "stateCache", "upd",
          "games", "seat", "settle", "unseat", "fill", "transfer", "recheck",
          "refill", "drop", "dropRow", "end"}

(* seen: the ORM instance of the device as the request knows it;           *)
(* from: its state when the version it will compare was read;              *)
(* to, uto: the state and update state about to be written                 *)
Idle == [kind |-> "login", pc |-> "idle", dev |-> CHOOSE d \in Device : TRUE,
         seen |-> NoRow, from |-> "none", to |-> "none", uto |-> "none"]

Request == [kind : Kind, pc : Label, dev : Device, seen : Row \cup {NoRow},
            from : DeviceState \cup {"none"}, to : DeviceState \cup {"none"},
            uto : UpdateState \cup {"none"}]

TypeOK ==
    /\ RowTypeOK
    /\ statusCache \in [Device -> DeviceState \cup {"none"}]
    /\ beat \in [Device -> BOOLEAN]
    /\ seated \in [Device -> BOOLEAN]
    /\ req \in [Req -> Request]

Init ==
    /\ RowInit
    /\ statusCache = [d \in Device |-> "none"]
    /\ beat = [d \in Device |-> TRUE]
    /\ seated = [d \in Device |-> FALSE]
    /\ req = [p \in Req |-> Idle]

At(p, k, l) == req[p].kind = k /\ req[p].pc = l
Done(r) == [r EXCEPT !.pc = "end", !.seen = NoRow, !.to = "none", !.uto = "none"]
Finish(p) == req' = [req EXCEPT ![p] = Done(@)]
Goto(p, l) == IF l = "end" THEN Finish(p) ELSE req' = [req EXCEPT ![p].pc = l]

(* The first SELECT: r becomes the instance the request works with *)
Load(p, r, l) == req' = [req EXCEPT ![p].seen = r, ![p].from = r.state, ![p].pc = l]
LoadFor(p, r, l, s) ==
    req' = [req EXCEPT ![p].seen = r, ![p].from = r.state, ![p].to = s, ![p].pc = l]

Start(p, k, d) ==
    /\ req[p].pc = "idle"
    /\ k \in Kinds
    /\ row[d].ver < MaxVersion \/ k = "check"
    /\ req' = [req EXCEPT ![p] = [Idle EXCEPT !.kind = k, !.dev = d, !.pc = "read"]]
    /\ UNCHANGED <<rowVars, statusCache, beat, seated>>
-----------------------------------------------------------------------------
(* The two writes of DeviceService, each an UPDATE and then a SETEX        *)

(* What follows set_device_status in each handler *)
AfterState(p) ==
    LET k == req[p].kind IN
    CASE k = "login" -> "seat"
      [] k = "logout" -> "settle"
      [] k = "check" -> "recheck"
      [] k = "ing" -> "upd"
      [] k = "finish" -> IF req[p].seen.upd = "ing" THEN "games" ELSE "upd"
      [] OTHER -> "end"

(* rowcount > 0.  Flask-SQLAlchemy also refreshes the instance in memory *)
StateWritten(p) ==
    LET d == req[p].dev IN
    /\ req[p].pc = "state"
    /\ CanWrite(p, d)
    /\ UpdateStatus(p, d, req[p].seen.ver, req[p].to)
    /\ req' = [req EXCEPT ![p].seen.state = req[p].to, ![p].seen.ver = @ + 1,
                          ![p].pc = "stateCache"]
    /\ UNCHANGED <<row, statusCache, beat, seated>>

(* rowcount = 0: status_transfer ignores it, everyone else gives up *)
StateRefused(p) ==
    LET d == req[p].dev IN
    /\ req[p].pc = "state"
    /\ CanWrite(p, d)
    /\ ~VersionMatches(d, req[p].seen.ver)
    /\ IF req[p].kind = "check"
       THEN req' = [req EXCEPT ![p].seen.state = req[p].to, ![p].seen.ver = @ + 1,
                               ![p].pc = "recheck"]
       ELSE Finish(p)
    /\ UNCHANGED <<rowVars, statusCache, beat, seated>>

StateCached(p) ==
    /\ req[p].pc = "stateCache"
    /\ statusCache' = [statusCache EXCEPT ![req[p].dev] = req[p].to]
    /\ Goto(p, AfterState(p))
    /\ UNCHANGED <<row, dirty, beat, seated>>

UpdWritten(p) ==
    LET d == req[p].dev IN
    /\ req[p].pc = "upd"
    /\ CanWrite(p, d)
    /\ UpdateUpdateState(p, d, req[p].uto)
    /\ Goto(p, IF req[p].kind = "logout" THEN "state" ELSE "end")
    /\ UNCHANGED <<row, statusCache, beat, seated>>

UpdRefused(p) ==
    LET d == req[p].dev IN
    /\ req[p].pc = "upd"
    /\ CanWrite(p, d)
    /\ Latest(d) = NoRow
    /\ Finish(p)
    /\ UNCHANGED <<rowVars, statusCache, beat, seated>>
-----------------------------------------------------------------------------
(* qr_code_online: the checks, on the first snapshot *)
LoginRefused(d) ==
    \/ seated[d] \/ row[d] = NoRow \/ row[d].state # "free" \/ ~beat[d]
    \/ row[d].upd \in {"ing", "check"}

LoginRead(p) ==
    /\ At(p, "login", "read")
    /\ IF LoginRefused(req[p].dev) THEN Finish(p)
       ELSE Load(p, row[req[p].dev], "reread")
    /\ UNCHANGED <<rowVars, statusCache, beat, seated>>

(* UseRecord.create committed and expired the instance: it is loaded again, *)
(* version included, and nothing is checked again                           *)
LoginReread(p) ==
    LET r == row[req[p].dev] IN
    /\ At(p, "login", "reread")
    /\ IF r = NoRow THEN Finish(p) ELSE LoadFor(p, r, "state", "busy")
    /\ UNCHANGED <<rowVars, statusCache, beat, seated>>

(* the five session keys *)
LoginSeat(p) ==
    /\ At(p, "login", "seat")
    /\ seated' = [seated EXCEPT ![req[p].dev] = TRUE]
    /\ Finish(p)
    /\ UNCHANGED <<rowVars, statusCache, beat>>

(* One of the redis writes of do_online raises, after the UPDATE: that is   *)
(* caught, the login is answered as a success, and what it wrote is        *)
(* committed with it: a busy device that nobody sits at.                   *)
LoginRaises(p) ==
    /\ At(p, "login", "stateCache") \/ At(p, "login", "seat")
    /\ Finish(p)
    /\ UNCHANGED <<rowVars, statusCache, beat, seated>>

(* do_offline holds the user's lock from the look at the record key to the *)
(* deletion of the keys: logouts of one session do not overlap             *)
InLogout(p, d) == /\ req[p].kind = "logout" /\ req[p].dev = d
                  /\ req[p].pc \notin {"idle", "read", "end"}

LogoutRead(p) ==
    LET d == req[p].dev IN
    /\ At(p, "logout", "read")
    /\ \A q \in Req : ~InLogout(q, d)
    /\ IF ~seated[d] \/ row[d] = NoRow THEN Finish(p)
       ELSE req' = [req EXCEPT ![p].seen = row[d], ![p].from = row[d].state,
                ![p].to = IF row[d].upd = "finish" THEN "lock" ELSE "free",
                ![p].uto = "check",
                ![p].pc = IF row[d].upd = "finish" THEN "upd" ELSE "state"]
    /\ UNCHANGED <<rowVars, statusCache, beat, seated>>

(* set_device_status raises in redis: cal_offline rolls the row back *)
LogoutRaises(p) ==
    /\ At(p, "logout", "stateCache")
    /\ Rollback(p)
    /\ Finish(p)
    /\ UNCHANGED <<statusCache, beat, seated>>

(* the bill is written and committed, or raises and is rolled back *)
LogoutSettle(p) ==
    /\ At(p, "logout", "settle")
    /\ \/ Commit(p) /\ Goto(p, "unseat")
       \/ Rollback(p) /\ Finish(p)
    /\ UNCHANGED <<statusCache, beat, seated>>

LogoutUnseat(p) ==
    /\ At(p, "logout", "unseat")
    /\ seated' = [seated EXCEPT ![req[p].dev] = FALSE]
    /\ Finish(p)
    /\ UNCHANGED <<rowVars, statusCache, beat>>
-----------------------------------------------------------------------------
(* check_connect: the status comes from redis, and from the row on a miss *)
CheckHit(p) ==
    LET d == req[p].dev IN
    /\ At(p, "check", "read")
    /\ statusCache[d] # "none"
    /\ beat' = [beat EXCEPT ![d] = TRUE]
    /\ Goto(p, IF statusCache[d] = "maintain" THEN "transfer" ELSE "end")
    /\ UNCHANGED <<rowVars, statusCache, seated>>

CheckMiss(p) ==
    LET d == req[p].dev IN
    /\ At(p, "check", "read")
    /\ statusCache[d] = "none"
    /\ IF row[d] = NoRow THEN Finish(p) ELSE Load(p, row[d], "fill")
    /\ UNCHANGED <<rowVars, statusCache, beat, seated>>

CheckFill(p) ==
    LET d == req[p].dev IN
    /\ At(p, "check", "fill")
    /\ statusCache' = [statusCache EXCEPT ![d] = req[p].seen.state]
    /\ beat' = [beat EXCEPT ![d] = TRUE]
    /\ Goto(p, IF req[p].seen.state = "maintain" THEN "transfer" ELSE "end")
    /\ UNCHANGED <<row, dirty, seated>>

(* Mutation of CheckTransfer: an updating device is left as it is *)
CheckTransfer_skip(p) ==
    LET d == req[p].dev
        r == IF req[p].seen = NoRow THEN row[d] ELSE req[p].seen IN
    /\ At(p, "check", "transfer")
    /\ IF r = NoRow \/ r.upd \in {"ing", "check"} THEN Goto(p, "recheck")
       ELSE LoadFor(p, r, "state", "free")
    /\ UNCHANGED <<rowVars, statusCache, beat, seated>>

(* status_transfer: whatever state the row is in by now *)
CheckTransfer(p) ==
    LET d == req[p].dev
        r == IF req[p].seen = NoRow THEN row[d] ELSE req[p].seen IN
    /\ At(p, "check", "transfer")
    /\ IF r = NoRow THEN Goto(p, "recheck")
       ELSE LoadFor(p, r, "state", IF r.upd \in {"ing", "check"} THEN "lock" ELSE "free")
    /\ UNCHANGED <<rowVars, statusCache, beat, seated>>

(* the second get_device_status of check_connect *)
CheckAgain(p) ==
    LET d == req[p].dev IN
    /\ At(p, "check", "recheck")
    /\ Goto(p, IF statusCache[d] # "none" \/ req[p].seen = NoRow THEN "end" ELSE "refill")
    /\ UNCHANGED <<rowVars, statusCache, beat, seated>>

CheckRefill(p) ==
    /\ At(p, "check", "refill")
    /\ statusCache' = [statusCache EXCEPT ![req[p].dev] = req[p].seen.state]
    /\ Finish(p)
    /\ UNCHANGED <<row, dirty, beat, seated>>
-----------------------------------------------------------------------------
(* Mutation of MaintainRead: nobody asks whether the device is in use *)
MaintainRead_anyState(p) ==
    LET d == req[p].dev IN
    /\ At(p, "maintain", "read")
    /\ IF row[d] = NoRow \/ ~beat[d] THEN Finish(p)
       ELSE LoadFor(p, row[d], "state", "maintain")
    /\ UNCHANGED <<rowVars, statusCache, beat, seated>>

(* maintain_login: online and not busy *)
MaintainRead(p) ==
    LET d == req[p].dev IN
    /\ At(p, "maintain", "read")
    /\ IF row[d] = NoRow \/ ~beat[d] \/ row[d].state = "busy" THEN Finish(p)
       ELSE LoadFor(p, row[d], "state", "maintain")
    /\ UNCHANGED <<rowVars, statusCache, beat, seated>>

(* lock_device with lock = true: online and free; with false: locked *)
LockRead(p) ==
    LET d == req[p].dev IN
    /\ At(p, "lock", "read")
    /\ IF beat[d] /\ row[d].state = "free" THEN LoadFor(p, row[d], "state", "lock")
       ELSE Finish(p)
    /\ UNCHANGED <<rowVars, statusCache, beat, seated>>

UnlockRead(p) ==
    LET d == req[p].dev IN
    /\ At(p, "unlock", "read")
    /\ IF beat[d] /\ row[d].state = "lock" THEN LoadFor(p, row[d], "state", "free")
       ELSE Finish(p)
    /\ UNCHANGED <<rowVars, statusCache, beat, seated>>

(* modify_device_game_state with update_state = ing *)
IngRead(p) ==
    LET r == row[req[p].dev] IN
    /\ At(p, "ing", "read")
    /\ IF r.upd = "check" \/ r.state \notin {"free", "lock"} THEN Finish(p)
       ELSE req' = [req EXCEPT ![p].seen = r, ![p].from = r.state, ![p].to = "lock",
                               ![p].uto = "ing",
                               ![p].pc = IF r.state = "free" THEN "state" ELSE "upd"]
    /\ UNCHANGED <<rowVars, statusCache, beat, seated>>

(* modify_device_game_state with update_state = finish *)
FinishRead(p) ==
    LET r == row[req[p].dev] IN
    /\ At(p, "finish", "read")
    /\ IF r = NoRow \/ r.upd = "finish" THEN Finish(p)
       ELSE req' = [req EXCEPT ![p].seen = r, ![p].from = r.state, ![p].to = "free",
                               ![p].uto = "finish",
                               ![p].pc = IF r.state = "lock" THEN "state"
                                         ELSE IF r.upd = "ing" THEN "games" ELSE "upd"]
    /\ UNCHANGED <<rowVars, statusCache, beat, seated>>

(* update_device_game commits, the unlocked row included *)
FinishGames(p) ==
    /\ At(p, "finish", "games")
    /\ Commit(p)
    /\ Goto(p, "upd")
    /\ UNCHANGED <<statusCache, beat, seated>>

(* DeviceGameService.update: finished, and some game has a newer version *)
UpdateRead(p) ==
    LET r == row[req[p].dev] IN
    /\ At(p, "update", "read")
    /\ \/ Finish(p)                               \* every game is current
       \/ /\ r.upd = "finish"
          /\ req' = [req EXCEPT ![p].seen = r, ![p].from = r.state,
                                ![p].uto = "wait", ![p].pc = "upd"]
    /\ UNCHANGED <<rowVars, statusCache, beat, seated>>

(* delete_device: refused only when online and not free *)
DeleteRead(p) ==
    LET d == req[p].dev IN
    /\ At(p, "delete", "read")
    /\ IF row[d] = NoRow \/ (beat[d] /\ row[d].state # "free") THEN Finish(p)
       ELSE Load(p, row[d], "drop")
    /\ UNCHANGED <<rowVars, statusCache, beat, seated>>

DeleteCaches(p) ==
    LET d == req[p].dev IN
    /\ At(p, "delete", "drop")
    /\ statusCache' = [statusCache EXCEPT ![d] = "none"]
    /\ beat' = [beat EXCEPT ![d] = FALSE]
    /\ Goto(p, "dropRow")
    /\ UNCHANGED <<row, dirty, seated>>

DeleteRow(p) ==
    LET d == req[p].dev IN
    /\ At(p, "delete", "dropRow")
    /\ CanWrite(p, d)
    /\ row' = [row EXCEPT ![d] = NoRow]
    /\ Finish(p)
    /\ UNCHANGED <<dirty, statusCache, beat, seated>>
-----------------------------------------------------------------------------
(* SQLALCHEMY_COMMIT_ON_TEARDOWN, also after a handled error *)
Teardown(p) ==
    /\ req[p].pc = "end"
    /\ Commit(p)
    /\ req' = [req EXCEPT ![p] = Idle]
    /\ UNCHANGED <<statusCache, beat, seated>>

(* the worker dies: its transaction is rolled back, redis keeps what it has *)
Crash(p) ==
    /\ MayCrash
    /\ req[p].pc # "idle"
    /\ Rollback(p)
    /\ req' = [req EXCEPT ![p] = Idle]
    /\ UNCHANGED <<statusCache, beat, seated>>

(* keep_device_heart from keep_alive, and the TTLs of the redis keys *)
Heartbeat(d) ==
    /\ beat' = [beat EXCEPT ![d] = TRUE]
    /\ UNCHANGED <<rowVars, statusCache, seated, req>>

HeartbeatLost(d) ==
    /\ beat' = [beat EXCEPT ![d] = FALSE]
    /\ UNCHANGED <<rowVars, statusCache, seated, req>>

StatusExpires(d) ==
    /\ statusCache[d] # "none"
    /\ statusCache' = [statusCache EXCEPT ![d] = "none"]
    /\ UNCHANGED <<row, dirty, beat, seated, req>>

Writes(p) == \/ StateWritten(p) \/ StateRefused(p) \/ StateCached(p)
             \/ UpdWritten(p) \/ UpdRefused(p)
Login(p) == LoginRead(p) \/ LoginReread(p) \/ LoginSeat(p)
Logout(p) == LogoutRead(p) \/ LogoutSettle(p) \/ LogoutUnseat(p)
Check(p) == \/ CheckHit(p) \/ CheckMiss(p) \/ CheckFill(p)
            \/ CheckTransfer(p) \/ CheckAgain(p) \/ CheckRefill(p)
Admin(p) == \/ MaintainRead(p) \/ LockRead(p) \/ UnlockRead(p)
            \/ UpdateRead(p) \/ DeleteRead(p) \/ DeleteCaches(p) \/ DeleteRow(p)
Client(p) == IngRead(p) \/ FinishRead(p) \/ FinishGames(p)

Step(p) == \/ Writes(p) \/ Login(p) \/ Logout(p) \/ Check(p)
           \/ Admin(p) \/ Client(p) \/ Teardown(p)

Environment(d) == Heartbeat(d) \/ HeartbeatLost(d) \/ StatusExpires(d)

Next == \/ \E p \in Req : \/ \E k \in Kinds, d \in Device : Start(p, k, d)
                          \/ Step(p) \/ LoginRaises(p) \/ LogoutRaises(p)
                          \/ Crash(p)
        \/ \E d \in Device : Environment(d)

Spec == Init /\ [][Next]_vars

(* A request that was accepted is served to its end, the client of a device *)
(* keeps posting /check (it does so until somebody logs in), and redis      *)
(* honours the TTL of the status copy.                                      *)
Fairness ==
    /\ \A p \in Req : WF_vars(Step(p))
    /\ \A d \in Device : /\ SF_vars(\E p \in Req : Start(p, "check", d))
                         /\ WF_vars(StatusExpires(d))

FairSpec == Spec /\ Fairness
-----------------------------------------------------------------------------
(* A commit that changed the state of d, and the request that made it *)
StateCommit(d) == row'[d] # NoRow /\ row'[d].state # row[d].state
Committer(d) == req[dirty[d].by]

(* Optimistic locking: whatever else is going on, a request replaces the   *)
(* state it had in hand when it read the version, never a later one        *)
(* (set_device_status compares state_version).                             *)
OptimisticLocking ==
    [][\A d \in Device : StateCommit(d) => Committer(d).from = row[d].state]_vars

(* Nobody but a logout, or the client reporting in, takes a device away    *)
(* from its player: maintenance, lock, unlock and both update reports      *)
(* checked the state, and the version kept it.                             *)
BusyNotTaken ==
    [][\A d \in Device :
          StateCommit(d) /\ row[d].state = "busy"
             => Committer(d).kind \in {"logout", "check"}]_vars

(* A device under maintenance goes back into service once its client       *)
(* reports in (check_connect), even if the redis copy was wrong for a time.*)
MaintenanceEnds ==
    \A d \in Device : row[d].state = "maintain" ~> row[d].state # "maintain"
==============================================================================
