------------------------------ MODULE GameUpdate ------------------------------
(***************************************************************************)
(* The update of the games of a device, from the publication of a version  *)
(* to the mark that the device has it.  Administrators and a daily job ask *)
(* a device to update, its client polls, reports that it has begun, loads  *)
(* what the list says and reports that it has finished.  What the client   *)
(* is told is the redis copy of the update state.  A request is split      *)
(* wherever another one can come in between; logins, logouts and the       *)
(* publication, whose steps are in DeviceStatus and Fleet, are one step.   *)
(***************************************************************************)
EXTENDS DeviceRow, FiniteSetsExt

CONSTANTS Newest,        \* bound: the versions are 0..Newest
          MaxVersion,    \* bound: nobody logs in once a row has this version
          MaxUpsets,     \* bound: administrators asking for an update, deaths of
                         \* workers, timeouts and failed bills, all told
          JobTries       \* try_times of update_game_all_by_http

ASSUME UpdateAssumption == /\ Device \subseteq Nat /\ Device # {}
                           /\ {Newest, MaxVersion, MaxUpsets} \subseteq Nat
                           /\ JobTries \in Nat \ {0}

VARIABLES newest,        \* newest[d]: newest_version of the game
          current,       \* current[d]: current_version of the game
          installed,     \* installed[d]: what is on the disk of the device
          updCache,      \* updCache[d]: redis copy of update_state, or "none"
          client,        \* client[d]: what the program on the device is at
          job,           \* the daily job: tries left, the request it waits for
          req,           \* req[p]: the request p serves
          upsets,        \* how many of them there were
          blurred,       \* history: devices whose copy may be wrong
          overtaken      \* history: devices with a report that lags behind

gameVars == <<newest, current, installed>>
history == <<upsets, blurred, overtaken>>
vars == <<rowVars, gameVars, updCache, client, job, req, history>>

Version == 0..Newest
Kind == {"poll", "ing", "list", "finish", "update", "all"}
Label == {"idle", "fill", "state", "games", "upd", "cache", "end"}

(* rows, new, lag: the snapshot; todo: devices to go through; to, uto: the *)
(* states about to be written; ok, told, new: the answer                   *)
Nothing == [kind |-> "poll", pc |-> "idle", dev |-> Min(Device),
            rows |-> [d \in Device |-> NoRow], new |-> 0, lag |-> {}, todo |-> {},
            to |-> "none", uto |-> "none", ok |-> FALSE, told |-> "none"]

Request == [kind : Kind, pc : Label, dev : Device, rows : [Device -> Row \cup {NoRow}],
            new : Version, lag : SUBSET Device, todo : SUBSET Device,
            to : DeviceState \cup {"none"}, uto : UpdateState \cup {"none"},
            ok : BOOLEAN, told : UpdateState \cup {"none"}]

(* at: what the client does next, or waits for if on is a request *)
Client == [at : {"poll", "ing", "list", "load", "finish"}, on : Req \cup {NoReq},
           want : Version]
Job == [left : 0..(JobTries - 1), on : Req \cup {NoReq}]

TypeOK ==
    /\ RowTypeOK
    /\ newest \in [Device -> Version]
    /\ current \in [Device -> Version]
    /\ installed \in [Device -> Version]
    /\ updCache \in [Device -> UpdateState \cup {"none"}]
    /\ client \in [Device -> Client]
    /\ job \in Job
    /\ req \in [Req -> Request]
    /\ upsets \in 0..MaxUpsets
    /\ blurred \subseteq Device
    /\ overtaken \subseteq Device

Polling == [at |-> "poll", on |-> NoReq, want |-> 0]

Init ==
    /\ RowInit
    /\ newest = [d \in Device |-> 0]
    /\ current = [d \in Device |-> 0]
    /\ installed = [d \in Device |-> 0]
    /\ updCache = [d \in Device |-> "none"]
    /\ client = [d \in Device |-> Polling]
    /\ job = [left |-> 0, on |-> NoReq]
    /\ req = [p \in Req |-> Nothing]
    /\ upsets = 0
    /\ blurred = {}
    /\ overtaken = {}

Answer(r, ok, told) ==
    [Nothing EXCEPT !.kind = r.kind, !.dev = r.dev, !.pc = "end", !.ok = ok, !.told = told]
Set(p, r) == req' = [req EXCEPT ![p] = r]

(* devices request p reads or writes the update state of *)
Uses(p) == IF req[p].pc = "idle" \/ req[p].kind = "list" THEN {}
           ELSE IF req[p].kind = "all" THEN Device
           ELSE {req[p].dev}
Meeting == {d \in Device : \E p, q \in Req : p # q /\ d \in Uses(p) \cap Uses(q)}

(* a report of the client of d that is not answered yet *)
Reports(d) == {p \in Req : req[p].pc # "idle" /\ req[p].kind = "finish" /\ req[p].dev = d}
-----------------------------------------------------------------------------
(* What each handler makes of the first SELECTs; r has the kind and device *)

(* get_device_game_state: redis first *)
PollReads(r) ==
    IF updCache[r.dev] # "none" THEN Answer(r, TRUE, updCache[r.dev])
    ELSE [r EXCEPT !.pc = "fill", !.told = row[r.dev].upd]

(* Mutation of IngReads: a device that is locked already is refused *)
IngReads_freeOnly(r) ==
    LET w == row[r.dev] IN
    IF w.upd = "check" \/ w.state # "free" THEN Answer(r, FALSE, "none")
    ELSE [r EXCEPT !.rows[r.dev] = w, !.to = "lock", !.uto = "ing", !.pc = "state"]

(* modify_device_game_state, update_state = ing *)
IngReads(r) ==
    LET w == row[r.dev] IN
    IF w.upd = "check" \/ w.state \notin {"free", "lock"} THEN Answer(r, FALSE, "none")
    ELSE [r EXCEPT !.rows[r.dev] = w, !.to = "lock", !.uto = "ing",
                   !.pc = IF w.state = "free" THEN "state" ELSE "upd"]

(* get_device_game_list *)
ListReads(r) == [Answer(r, TRUE, "none") EXCEPT !.new = newest[r.dev]]

(* Mutation of Unlocked: the end of a self-check marks the games, too *)
Unlocked_marks(w) == "games"

(* The next write of the report, once the device is unlocked or was not locked *)
Unlocked(w) == IF w.upd = "ing" THEN "games" ELSE "upd"

(* Mutation of FinishReads: the end of a self-check does not unlock *)
FinishReads_locked(r) ==
    LET w == row[r.dev] IN
    IF w.upd = "finish" THEN Answer(r, TRUE, "none")
    ELSE [r EXCEPT !.rows[r.dev] = w, !.new = newest[r.dev], !.uto = "finish",
                   !.to = "free",
                   !.pc = IF w.state = "lock" /\ w.upd = "ing" THEN "state" ELSE Unlocked(w)]

(* modify_device_game_state, update_state = finish *)
FinishReads(r) ==
    LET w == row[r.dev] IN
    IF w.upd = "finish" THEN Answer(r, TRUE, "none")
    ELSE [r EXCEPT !.rows[r.dev] = w, !.new = newest[r.dev], !.uto = "finish",
                   !.to = "free", !.pc = IF w.state = "lock" THEN "state" ELSE Unlocked(w)]

(* DeviceGameService.update of the devices of todo, in the snapshot: the next *)
(* one that has finished and whose games are not the newest                   *)
Asking(r) ==
    LET due == {d \in r.todo : r.rows[d].upd = "finish" /\ d \in r.lag}
        d == Min(due)
    IN  IF due = {} THEN Answer(r, TRUE, "none")
        ELSE [r EXCEPT !.dev = d, !.todo = {e \in @ : e > d}, !.pc = "upd"]

UpdateReads(r, ds) ==
    Asking([r EXCEPT !.rows = row, !.todo = ds, !.uto = "wait",
                     !.lag = {d \in Device : current[d] # newest[d]}])

FirstReads(k, d) ==
    LET r == [Nothing EXCEPT !.kind = k, !.dev = d] IN
    CASE k = "poll" -> PollReads(r)
      [] k = "ing" -> IngReads(r)
      [] k = "list" -> ListReads(r)
      [] k = "finish" -> FinishReads(r)
      [] k = "update" -> UpdateReads(r, {d})
      [] k = "all" -> UpdateReads(r, Device)

Begin(p, k, d) ==
    /\ req[p].pc = "idle"
    /\ Set(p, FirstReads(k, d))
    /\ UNCHANGED <<rowVars, gameVars, updCache>>
-----------------------------------------------------------------------------
(* set_device_status: the version in hand is compared *)
WriteState(p) ==
    LET r == req[p]
        w == r.rows[r.dev]
    IN
    /\ r.pc = "state"
    /\ CanWrite(p, r.dev)
    /\ \/ /\ UpdateStatus(p, r.dev, w.ver, r.to)
          /\ Set(p, [r EXCEPT !.pc = IF r.kind = "ing" THEN "upd" ELSE Unlocked(w)])
       \/ /\ ~VersionMatches(r.dev, w.ver)
          /\ Set(p, Answer(r, FALSE, "none"))
          /\ UNCHANGED dirty
    /\ UNCHANGED <<row, gameVars, updCache>>

(* update_device_game: the newest version of the snapshot becomes the      *)
(* current one; the commit takes the unlocked row along                    *)
MarkGames(p) ==
    LET r == req[p] IN
    /\ r.pc = "games"
    /\ current' = [current EXCEPT ![r.dev] = r.new]
    /\ Commit(p)
    /\ Set(p, [r EXCEPT !.pc = "upd"])
    /\ UNCHANGED <<newest, installed, updCache>>

(* set_update_state: an UPDATE without a version, then SETEX, both before  *)
(* the commit                                                              *)
WriteUpd(p) ==
    LET r == req[p] IN
    /\ r.pc = "upd"
    /\ CanWrite(p, r.dev)
    /\ UpdateUpdateState(p, r.dev, r.uto)
    /\ Set(p, [r EXCEPT !.pc = "cache"])
    /\ UNCHANGED <<row, gameVars, updCache>>

(* Mutation of CacheUpd: the copy is left to expire *)
CacheUpd_skip(p) ==
    LET r == req[p] IN
    /\ r.pc = "cache"
    /\ Set(p, IF r.kind = "all" THEN Asking(r) ELSE Answer(r, TRUE, "none"))
    /\ UNCHANGED <<rowVars, gameVars, updCache>>

CacheUpd(p) ==
    LET r == req[p] IN
    /\ r.pc = "cache"
    /\ updCache' = [updCache EXCEPT ![r.dev] = r.uto]
    /\ Set(p, IF r.kind = "all" THEN Asking(r) ELSE Answer(r, TRUE, "none"))
    /\ UNCHANGED <<rowVars, gameVars>>

(* get_update_state after a miss *)
FillCache(p) ==
    LET r == req[p] IN
    /\ r.pc = "fill"
    /\ updCache' = [updCache EXCEPT ![r.dev] = r.told]
    /\ Set(p, Answer(r, TRUE, r.told))
    /\ UNCHANGED <<rowVars, gameVars>>

Work(p) == WriteState(p) \/ MarkGames(p) \/ WriteUpd(p) \/ CacheUpd(p) \/ FillCache(p)

(* What the program on the device makes of an answer: it begins an update  *)
(* it is asked for, loads again what it had begun, ends a self-check       *)
React(c, r) ==
    LET then(s) == [Polling EXCEPT !.at = s] IN
    CASE c.at = "poll" /\ r.told = "wait" -> then("ing")
      [] c.at = "poll" /\ r.told = "ing" -> then("list")
      [] c.at = "poll" /\ r.told = "check" -> then("finish")
      [] c.at = "ing" /\ r.ok -> then("list")
      [] c.at = "list" /\ r.ok -> [then("load") EXCEPT !.want = r.new]
      [] OTHER -> Polling

(* the answer r of p goes to whoever still waits for it *)
Deliver(p, r) ==
    /\ client' = [d \in Device |-> IF client[d].on = p THEN React(client[d], r)
                                   ELSE client[d]]
    /\ job' = IF job.on # p THEN job
              ELSE [left |-> IF r.ok THEN 0 ELSE job.left, on |-> NoReq]

(* the commit at teardown, and the answer *)
End(p) ==
    /\ req[p].pc = "end"
    /\ Commit(p)
    /\ Set(p, Nothing)
    /\ Deliver(p, req[p])
    /\ UNCHANGED <<gameVars, updCache>>
-----------------------------------------------------------------------------
(* The client of d: one request at a time *)
Send(p, d) ==
    /\ client[d].on = NoReq
    /\ client[d].at # "load"
    /\ Begin(p, client[d].at, d)
    /\ client' = [client EXCEPT ![d].on = p]
    /\ UNCHANGED job

Load(d) ==
    /\ client[d].at = "load"
    /\ installed' = [installed EXCEPT ![d] = client[d].want]
    /\ client' = [client EXCEPT ![d] = [Polling EXCEPT !.at = "finish"]]
    /\ UNCHANGED <<rowVars, newest, current, updCache, job, req>>

(* Mutation of TryUpdate: times <= try_times *)
TryUpdate_onceMore(p) ==
    /\ job.on = NoReq
    /\ Begin(p, "all", Min(Device))
    /\ job' = [left |-> IF job.left = 0 THEN JobTries ELSE job.left - 1, on |-> p]
    /\ UNCHANGED client

(* update_game_all_by_http, at the time of the day or after a failed try *)
TryUpdate(p) ==
    /\ job.on = NoReq
    /\ Begin(p, "all", Min(Device))
    /\ job' = [left |-> (IF job.left = 0 THEN JobTries ELSE job.left) - 1, on |-> p]
    /\ UNCHANGED client

(* device_game_update of an administrator, and deploy_device_game *)
AskUpdate(p, d) == Begin(p, "update", d) /\ UNCHANGED <<client, job>>

(* device_game_add *)
Publish(d) ==
    /\ newest[d] < Newest
    /\ newest' = [newest EXCEPT ![d] = @ + 1]
    /\ UNCHANGED <<rowVars, current, installed, updCache, client, job, req>>

(* qr_code_online *)
Login(d) ==
    /\ dirty[d] = Clean
    /\ row[d].state = "free"
    /\ row[d].upd \notin {"ing", "check"}
    /\ row[d].ver < MaxVersion
    /\ row' = [row EXCEPT ![d].state = "busy", ![d].ver = @ + 1]
    /\ UNCHANGED <<dirty, gameVars, updCache, client, job, req>>

(* cal_offline *)
Logout(d) ==
    /\ dirty[d] = Clean
    /\ row[d].state = "busy"
    /\ IF row[d].upd = "finish"
       THEN /\ row' = [row EXCEPT ![d] = [state |-> "lock", ver |-> @.ver + 1, upd |-> "check"]]
            /\ updCache' = [updCache EXCEPT ![d] = "check"]
       ELSE /\ row' = [row EXCEPT ![d].state = "free", ![d].ver = @ + 1]
            /\ UNCHANGED updCache
    /\ UNCHANGED <<dirty, gameVars, client, job, req>>

(* a day has passed *)
CacheExpires(d) ==
    /\ updCache[d] # "none"
    /\ updCache' = [updCache EXCEPT ![d] = "none"]
    /\ UNCHANGED <<rowVars, gameVars, client, job, req>>
-----------------------------------------------------------------------------
(* Faults.  The worker dies: its UPDATEs are rolled back, redis keeps what *)
(* it has, and whoever waits sees the request fail                         *)
Crash(p) ==
    /\ req[p].pc # "idle"
    /\ Rollback(p)
    /\ Set(p, Nothing)
    /\ Deliver(p, Answer(req[p], FALSE, "none"))
    /\ blurred' = blurred \cup {d \in Device : dirty[d].by = p}
    /\ UNCHANGED <<gameVars, updCache, overtaken>>

(* the client gives an answer up, or restarts; the request is served still *)
GiveUp(d) ==
    /\ client[d] # Polling
    /\ client' = [client EXCEPT ![d] = Polling]
    /\ overtaken' = IF Reports(d) = {} THEN overtaken ELSE overtaken \cup {d}
    /\ UNCHANGED <<rowVars, gameVars, updCache, job, req, blurred>>

(* the five minutes of requests.get are over *)
JobTimeout ==
    /\ job.on # NoReq
    /\ job' = [job EXCEPT !.on = NoReq]
    /\ UNCHANGED <<rowVars, gameVars, updCache, client, req, blurred, overtaken>>

(* the bill raises after set_update_state: the row is rolled back *)
LogoutFails(d) ==
    /\ dirty[d] = Clean
    /\ row[d].state = "busy"
    /\ row[d].upd = "finish"
    /\ updCache' = [updCache EXCEPT ![d] = "check"]
    /\ blurred' = blurred \cup {d}
    /\ UNCHANGED <<rowVars, gameVars, client, job, req, overtaken>>

Fault ==
    \/ \E p \in Req : Crash(p)
    \/ \E d \in Device : GiveUp(d) \/ LogoutFails(d)
    \/ JobTimeout
-----------------------------------------------------------------------------
Happens(d) ==
    \/ Load(d) \/ Publish(d) \/ Login(d) \/ Logout(d) \/ CacheExpires(d)
    \/ \E p \in Req : Send(p, d)

Serve(p) == (Work(p) /\ UNCHANGED <<client, job>>) \/ End(p)

(* History: two requests had the update state of d in hand, or a logout    *)
(* came while one had                                                      *)
Meets(d) ==
    \/ d \in Meeting'
    \/ row'[d].upd = "check" /\ row[d].upd # "check" /\ \E p \in Req : d \in Uses(p)

(* The client has its list: what it reports now is the newest version,     *)
(* unless an old report is still on its way or a version comes out         *)
Fresh(d) == /\ client[d].at = "list" /\ client'[d].at = "load"
            /\ client'[d].want = newest[d]
            /\ Reports(d) = {}
Late(d) == client[d].at \in {"list", "load", "finish"} /\ newest'[d] # newest[d]

(* Nothing is left of that: the copy has expired, nobody is at work, and   *)
(* the client begins anew                                                  *)
Settled(d) == /\ updCache[d] = "none"
              /\ client[d] = Polling
              /\ \A p \in Req : d \notin Uses(p)

Noted ==
    /\ blurred' = {d \in Device : Meets(d) \/ (d \in blurred /\ ~Settled(d)')}
    /\ overtaken' = {d \in Device : Late(d) \/ (d \in overtaken /\ ~Fresh(d))}

Calm == Noted /\ UNCHANGED upsets

Upset ==
    /\ upsets < MaxUpsets
    /\ upsets' = upsets + 1
    /\ \/ (\E p \in Req, d \in Device : AskUpdate(p, d)) /\ Noted
       \/ Fault

Next ==
    \/ (\E d \in Device : Happens(d)) /\ Calm
    \/ (\E p \in Req : Serve(p) \/ TryUpdate(p)) /\ Calm
    \/ Upset

Spec == Init /\ [][Next]_vars

(* Requests are served, the client goes on asking and loading, the daily   *)
(* job comes again, players leave and redis honours its TTLs               *)
Fairness ==
    /\ \A p \in Req : WF_vars(Serve(p) /\ Calm)
    /\ \A d \in Device : /\ SF_vars((\E p \in Req : Send(p, d)) /\ Calm)
                         /\ WF_vars(Load(d) /\ Calm)
                         /\ SF_vars(Logout(d) /\ Calm)
                         /\ WF_vars(CacheExpires(d) /\ Calm)
    /\ SF_vars((\E p \in Req : TryUpdate(p)) /\ Calm)

FairSpec == Spec /\ Fairness
-----------------------------------------------------------------------------
(* A report marks the version the client has on its disk, although         *)
(* update_device_game takes whatever is the newest by then: unless that    *)
(* came out after the list the client went by, the report is one it had    *)
(* given up, or two requests met over the update state.                    *)
MarkedIsInstalled ==
    [][\A d \in Device : current'[d] # current[d]
          => current'[d] = installed[d] \/ d \in overtaken \cup blurred']_vars

(* While nobody is at work on a device, the copy of its update state in    *)
(* redis is the one of the row ("kept strictly consistent", says           *)
(* get_device_status of both copies).  Where two requests met over it, a   *)
(* worker died between its UPDATE and its commit, or a bill failed after   *)
(* the SETEX, the copy may be wrong; but it is right again from the time   *)
(* it expires with nobody at work.                                         *)
CopyFollowsRow ==
    \A d \in Device \ blurred :
        (\A p \in Req : d \notin Uses(p)) => updCache[d] \in {row[d].upd, "none"}

(* A device that lacks a version is asked, loads and reports in the end:   *)
(* whatever reports were lost, late or refused, however wrong the copy.    *)
NewVersionMarked ==
    \A d \in Device : current[d] # newest[d] ~> current[d] = newest[d]

(* An update gives the device it locked back, or ends while the device is  *)
(* locked.  The latter, after which nothing unlocks it until a version     *)
(* comes out, is only where two requests met over the device.              *)
Shut(w) == w.state = "lock" /\ w.upd = "finish"
UpdateUnlocks ==
    /\ \A d \in Device : row[d].state = "lock" ~> row[d].state # "lock" \/ Shut(row[d])
    /\ [][\A d \in Device : Shut(row'[d]) /\ ~Shut(row[d]) => d \in blurred]_vars
=============================================================================
