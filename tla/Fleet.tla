-------------------------------- MODULE Fleet --------------------------------
(***************************************************************************)
(* The handlers that deploy, move and delete devices, delete addresses,    *)
(* publish and withdraw games.  A step is a transaction that writes, or    *)
(* the SELECTs that follow one: they open the next transaction, and see    *)
(* what was committed by then.                                             *)
(***************************************************************************)
EXTENDS AddressRow, GameRow, Functions

CONSTANTS Req,           \* requests being served
          MaxStart       \* bound: how many requests are accepted

ASSUME BoundAssumption == MaxStart \in Nat

VARIABLES req,           \* req[p]: the request p serves
          started,       \* how many were accepted
          raced,         \* history: addresses two requests had in hand at once
          racedDevices,  \* history: devices with the same fate
          racedGames     \* history: and games

history == <<raced, racedDevices, racedGames>>
vars == <<addressVars, gameVars, req, started, history>>

Kind == {"deploy", "drop", "erase", "publish", "withdraw"}
Label == {"idle", "create", "look", "device", "uncount", "recount", "count",
          "move", "games", "add", "next", "record", "undeploy", "undeployed",
          "drop", "erase",
          "list", "info", "version", "devices", "tell", "told",
          "unlist", "unlisted", "remove", "removed", "versions"}

(* dev, addr, game, ver: what the request is about; old, n, oldNum: where   *)
(* the device was and the two counts; list: rows of game_list to go; todo: *)
(* devices to go; row: a game_list id; seen: the game rows of dev; found:  *)
(* the version rows seen                                                   *)
Idle == [kind |-> "deploy", pc |-> "idle", dev |-> Min(Device),
         addr |-> Nowhere, old |-> Nowhere, n |-> 0, oldNum |-> 0,
         list |-> {}, todo |-> {}, game |-> CHOOSE g \in Game : TRUE,
         ver |-> NoVersion, row |-> 0, seen |-> NoGames, found |-> {}]

Request == [kind : Kind, pc : Label, dev : Device, addr : Address \cup {Nowhere},
            old : Address \cup {Unborn, Nowhere}, n : Nat, oldNum : Nat,
            list : SUBSET ListEntry, todo : SUBSET Device, game : Game,
            ver : GameVersion \cup {NoVersion}, row : Nat,
            seen : [Game -> GameVersion \cup {NoVersion}],
            found : SUBSET (Game \X GameVersion)]

TypeOK ==
    /\ AddressTypeOK
    /\ listed \in [Game -> SUBSET ListRow]
    /\ lastId \in Nat
    /\ versions \subseteq Game \X GameVersion
    /\ games \in [Device -> [Game -> GameVersion \cup {NoVersion}]]
    /\ req \in [Req -> Request]
    /\ started \in 0..MaxStart
    /\ raced \subseteq Address
    /\ racedDevices \subseteq Device
    /\ racedGames \subseteq Game

(* Devices counted at their addresses, games published and told *)
Settled ==
    /\ sites = {place[d] : d \in Alive}
    /\ num = [a \in Address |-> Cardinality(DevicesAt(a))]
    /\ logged = [d \in Device |-> IF d \in Alive THEN place[d] ELSE Nowhere]
    /\ versions = UNION {{<<g, r.ver>> : r \in listed[g]} : g \in Game}

Init ==
    /\ place \in [Device -> Address \cup {Unborn}]
    /\ lastId = Cardinality(Game)
    /\ \E pub \in [Game -> GameVersion \cup {NoVersion}], id \in Injection(Game, 1..lastId) :
          /\ listed = [g \in Game |-> {[id |-> id[g], ver |-> v] : v \in {pub[g]} \ {NoVersion}}]
          /\ games = [d \in Device |-> IF place[d] = Unborn THEN NoGames ELSE pub]
    /\ Settled
    /\ req = [p \in Req |-> Idle]
    /\ started = 0
    /\ raced = {}
    /\ racedDevices = {}
    /\ racedGames = {}

Set(p, r) == req' = [req EXCEPT ![p] = r]
Finish(p) == Set(p, Idle)
Goto(p, l) == Set(p, [req[p] EXCEPT !.pc = l])
Read(p, r) == Set(p, r) /\ UNCHANGED <<addressVars, gameVars>>

(* A transaction that MySQL accepts leads on, one it refuses to the end *)
TryAddress(p, may, Write, r) ==
    /\ IF may THEN Write /\ Set(p, r) ELSE UNCHANGED addressVars /\ Finish(p)
    /\ UNCHANGED gameVars

TryGame(p, may, Write, r) ==
    /\ IF may THEN Write /\ Set(p, r) ELSE UNCHANGED gameVars /\ Finish(p)
    /\ UNCHANGED addressVars

(* A request answered after its first SELECTs changes nothing and is left  *)
(* out                                                                     *)
Begin(p, r) ==
    /\ req[p].pc = "idle"
    /\ r.pc # "idle"
    /\ started < MaxStart
    /\ started' = started + 1
    /\ Read(p, r)
-----------------------------------------------------------------------------
(* deploy_device.  Its SELECTs up to the first commit share one snapshot   *)

(* Mutation of Located: the old count is decremented, zero or not *)
Located_uncount(r) ==
    LET b == place[r.dev]
        k == IF b \in Address THEN num[b] ELSE 0
    IN  IF b \in {Gone, Nowhere, r.addr} THEN Idle
        ELSE [r EXCEPT !.old = b, !.oldNum = k, !.n = num[r.addr],
                       !.pc = IF b = Unborn THEN "device" ELSE "uncount"]

(* Where the device is, and the branch to take *)
Located(r) ==
    LET b == place[r.dev]
        k == IF b \in Address THEN num[b] ELSE 0
    IN  IF b \in {Gone, Nowhere, r.addr} THEN Idle
        ELSE [r EXCEPT !.old = b, !.oldNum = k, !.n = num[r.addr],
                       !.pc = IF b = Unborn THEN "device"
                              ELSE IF k > 0 THEN "uncount" ELSE "move"]

(* A deleted device that is deployed again is another row, with an id of   *)
(* its own: here a device that is gone does not come back                  *)
Deploy(p, d, a) ==
    LET r == [Idle EXCEPT !.kind = "deploy", !.dev = d, !.addr = a] IN
    /\ place[d] # Gone
    /\ Begin(p, IF a \in sites THEN Located(r) ELSE [r EXCEPT !.pc = "create"])

CreateAddress(p) ==
    LET a == req[p].addr IN
    /\ req[p].pc = "create"
    /\ TryAddress(p, a \notin sites, InsertAddress(a), [req[p] EXCEPT !.pc = "look"])

(* address.id, expired by the commit, raises when the row has gone *)
Look(p) ==
    /\ req[p].pc = "look"
    /\ Read(p, IF req[p].addr \in sites THEN Located(req[p]) ELSE Idle)

CreateDevice(p) ==
    LET r == req[p] IN
    /\ r.pc = "device"
    /\ TryAddress(p, MayInsert(r.dev, r.addr), InsertDevice(r.dev, r.addr),
                  [r EXCEPT !.pc = "recount"])

(* address_old.add_device_num(-1) *)
Uncount(p) ==
    LET r == req[p] IN
    /\ r.pc = "uncount"
    /\ TryAddress(p, r.old \in sites, SaveNum(r.old, r.oldNum - 1),
                  [r EXCEPT !.oldNum = 0, !.pc = "recount"])

(* the address expired with the commit: its count is loaded again *)
Recount(p) ==
    LET r == req[p] IN
    /\ r.pc = "recount"
    /\ Read(p, IF r.addr \in sites
               THEN [r EXCEPT !.n = num[r.addr],
                              !.pc = IF r.old = Unborn THEN "count" ELSE "move"]
               ELSE Idle)

Count(p) ==
    LET r == req[p] IN
    /\ r.pc = "count"
    /\ TryAddress(p, r.addr \in sites, SaveNum(r.addr, r.n + 1),
                  [r EXCEPT !.n = 0, !.pc = "games"])

(* Mutation of Move: it is not written down *)
Move_unrecorded(p) ==
    LET r == req[p] IN
    /\ r.pc = "move"
    /\ TryAddress(p, MayMove(r.dev, r.addr), MoveDevice(r.dev, r.addr, r.n + 1), Idle)

(* device.address_id = address.id and address.add_device_num(1), one commit *)
Move(p) ==
    LET r == req[p] IN
    /\ r.pc = "move"
    /\ TryAddress(p, MayMove(r.dev, r.addr), MoveDevice(r.dev, r.addr, r.n + 1),
                  [r EXCEPT !.n = 0, !.pc = "record"])

(* deploy_device_game: l is the part of the list still to add; an instance *)
(* whose row has gone raises.  The update it asks for in the end is in     *)
(* DeviceStatus                                                            *)
Adding(r, l) ==
    IF r.dev \notin Alive THEN Idle
    ELSE IF l = {}
         THEN [r EXCEPT !.pc = "record", !.list = {}, !.seen = NoGames]
         ELSE [r EXCEPT !.pc = "add", !.list = l, !.seen = games[r.dev]]

ListGames(p) == req[p].pc = "games" /\ Read(p, Adding(req[p], GameList))

(* a refused INSERT is logged and the next game follows; a refused UPDATE  *)
(* leaves the session unusable                                             *)
AddListed(p) ==
    LET r == req[p]
        e == First(r.list)
        s == r.seen[e.game]
        ok == MayAddGame(r.dev, e.game, s)
    IN
    /\ r.pc = "add"
    /\ IF ok THEN AddGame(r.dev, e.game, e.ver, s) ELSE UNCHANGED gameVars
    /\ IF ok \/ s = NoVersion THEN Goto(p, "next") ELSE Finish(p)
    /\ UNCHANGED addressVars

(* the list after its first entry *)
Rest(l) == l \ {First(l)}

NextListed(p) == req[p].pc = "next" /\ Read(p, Adding(req[p], Rest(req[p].list)))

Record(p) ==
    LET r == req[p] IN
    /\ r.pc = "record"
    /\ TryAddress(p, TRUE, InsertDeploy(r.dev, r.addr), Idle)

DeployStep(p) ==
    \/ CreateAddress(p) \/ Look(p) \/ CreateDevice(p) \/ Uncount(p) \/ Recount(p)
    \/ Count(p) \/ Move(p) \/ ListGames(p) \/ AddListed(p) \/ NextListed(p) \/ Record(p)
-----------------------------------------------------------------------------
(* delete_device, once the state of the device allows it (DeviceStatus)    *)

(* the first listed game the device still has, or the device itself *)
Undeploying(r, l) ==
    LET left == {e \in l : games[r.dev][e.game] # NoVersion} IN
    IF left # {} THEN [r EXCEPT !.pc = "undeploy", !.list = {e \in l : e.id >= First(left).id}]
    ELSE IF r.dev \in Alive
         THEN [r EXCEPT !.pc = "drop", !.list = {}, !.old = place[r.dev],
                        !.n = IF place[r.dev] = Nowhere THEN 0 ELSE num[place[r.dev]]]
         ELSE Idle

DropDevice(p, d) ==
    /\ d \in Alive
    /\ Begin(p, Undeploying([Idle EXCEPT !.kind = "drop", !.dev = d], GameList))

Undeploy(p) ==
    /\ req[p].pc = "undeploy"
    /\ DeleteGame(req[p].dev, First(req[p].list).game)
    /\ Goto(p, "undeployed")
    /\ UNCHANGED addressVars

Undeployed(p) ==
    /\ req[p].pc = "undeployed"
    /\ Read(p, Undeploying(req[p], Rest(req[p].list)))

Drop(p) ==
    LET r == req[p] IN
    /\ r.pc = "drop"
    /\ TryAddress(p, MayDelete(r.old, r.n), DeleteDevice(r.dev, r.old, r.n), Idle)

(* Mutation of DropAddress: the count is not asked for *)
DropAddress_anyCount(p, a) ==
    /\ a \in sites
    /\ Begin(p, [Idle EXCEPT !.kind = "erase", !.addr = a, !.todo = DevicesAt(a),
                             !.pc = "erase"])

(* delete_address *)
DropAddress(p, a) ==
    /\ a \in sites
    /\ num[a] = 0
    /\ Begin(p, [Idle EXCEPT !.kind = "erase", !.addr = a, !.todo = DevicesAt(a),
                             !.pc = "erase"])

Erase(p) ==
    LET r == req[p] IN
    /\ r.pc = "erase"
    /\ TryAddress(p, MayErase(r.addr, r.todo), EraseAddress(r.addr, r.todo), Idle)

DropStep(p) == Undeploy(p) \/ Undeployed(p) \/ Drop(p) \/ Erase(p)
-----------------------------------------------------------------------------
(* update_game of game_manage: game_list, the version, then every device   *)
Publish(p, g, v) ==
    Begin(p, [Idle EXCEPT !.kind = "publish", !.game = g, !.ver = v,
                          !.row = FirstRow(g), !.pc = "list"])

UpdateGameList(p) ==
    LET r == req[p]
        next == [r EXCEPT !.row = 0, !.pc = "info"]
    IN
    /\ r.pc = "list"
    /\ IF r.row = 0 THEN TryGame(p, TRUE, InsertList(r.game, r.ver), next)
       ELSE TryGame(p, HasRow(r.game, r.row), UpdateList(r.game, r.row, r.ver), next)

GetGameInfo(p) ==
    LET r == req[p] IN
    /\ r.pc = "info"
    /\ Read(p, [r EXCEPT !.found = {<<r.game, r.ver>>} \cap versions, !.pc = "version"])

(* an INSERT that game_index_key may refuse, or an UPDATE of the md5 *)
SaveVersion(p) ==
    LET r == req[p]
        gv == <<r.game, r.ver>>
        next == [r EXCEPT !.found = {}, !.pc = "devices"]
    IN
    /\ r.pc = "version"
    /\ IF r.found = {} THEN TryGame(p, gv \notin versions, InsertVersion(r.game, r.ver), next)
       ELSE TryGame(p, gv \in versions, UNCHANGED gameVars, next)

(* add_device_game: the devices ds are still to tell; the loop ends at a   *)
(* device that has gone meanwhile                                          *)
Telling(r, ds) ==
    IF ds = {} THEN Idle
    ELSE IF Min(ds) \notin Alive THEN Idle
    ELSE [r EXCEPT !.pc = "tell", !.dev = Min(ds), !.todo = ds \ {Min(ds)},
                   !.seen = games[Min(ds)]]

ListDevices(p) == req[p].pc = "devices" /\ Read(p, Telling(req[p], Alive))

Tell(p) ==
    LET r == req[p]
        s == r.seen[r.game]
    IN
    /\ r.pc = "tell"
    /\ TryGame(p, MayAddGame(r.dev, r.game, s), AddGame(r.dev, r.game, r.ver, s),
               [r EXCEPT !.pc = "told"])

Told(p) == req[p].pc = "told" /\ Read(p, Telling(req[p], req[p].todo))

(* delete_game: game_list, every device, then the versions *)

(* the next of the devices ds that has the game; its versions after that *)
Removing(r, ds) ==
    LET left == {d \in ds : d \notin Alive \/ games[d][r.game] # NoVersion}
        d == Min(left)
    IN  IF left = {}
        THEN [r EXCEPT !.pc = "versions", !.todo = {}, !.seen = NoGames,
                       !.found = {gv \in versions : gv[1] = r.game}]
        ELSE IF d \notin Alive THEN Idle
        ELSE [r EXCEPT !.pc = "remove", !.dev = d, !.todo = {e \in ds : e > d}]

Withdraw(p, g) ==
    LET r == [Idle EXCEPT !.kind = "withdraw", !.game = g] IN
    Begin(p, IF listed[g] = {} THEN Removing(r, Alive)
             ELSE [r EXCEPT !.row = FirstRow(g), !.pc = "unlist"])

Unlist(p) ==
    LET r == req[p] IN
    /\ r.pc = "unlist"
    /\ TryGame(p, TRUE, DeleteList(r.game, r.row), [r EXCEPT !.row = 0, !.pc = "unlisted"])

Unlisted(p) == req[p].pc = "unlisted" /\ Read(p, Removing(req[p], Alive))

RemoveGame(p) ==
    LET r == req[p] IN
    /\ r.pc = "remove"
    /\ TryGame(p, TRUE, DeleteGame(r.dev, r.game), [r EXCEPT !.pc = "removed"])

Removed(p) == req[p].pc = "removed" /\ Read(p, Removing(req[p], req[p].todo))

RemoveVersions(p) ==
    LET r == req[p] IN
    /\ r.pc = "versions"
    /\ TryGame(p, TRUE, DeleteVersions(r.found), Idle)

GameStep(p) ==
    \/ UpdateGameList(p) \/ GetGameInfo(p) \/ SaveVersion(p) \/ ListDevices(p)
    \/ Tell(p) \/ Told(p) \/ Unlist(p) \/ Unlisted(p) \/ RemoveGame(p) \/ Removed(p)
    \/ RemoveVersions(p)
-----------------------------------------------------------------------------
Accept(p) ==
    \/ \E d \in Device : \/ \E a \in Address : Deploy(p, d, a)
                          \/ DropDevice(p, d)
    \/ \E a \in Address : DropAddress(p, a)
    \/ \E g \in Game : Withdraw(p, g) \/ \E v \in GameVersion : Publish(p, g, v)

Serve(p) ==
    /\ DeployStep(p) \/ DropStep(p) \/ GameStep(p)
    /\ UNCHANGED started

(* the worker dies, and its transaction with it *)
Crash(p) ==
    /\ req[p].pc # "idle"
    /\ Finish(p)
    /\ UNCHANGED <<addressVars, gameVars, started>>
-----------------------------------------------------------------------------
(* History: what two requests in flight had in hand together.  A request   *)
(* for a device has it in hand, the address it names and the one the       *)
(* device is at, and every game of the device; one that deletes an address *)
(* the devices it found there and wherever they are by now; one that       *)
(* publishes or withdraws a game that game, on every device.               *)
Moving(p) == req[p].pc # "idle" /\ req[p].kind \in {"deploy", "drop"}
Listing(p) == req[p].pc # "idle" /\ req[p].kind \in {"publish", "withdraw"}

Devices(p) == IF Moving(p) THEN {req[p].dev}
              ELSE IF req[p].pc # "idle" /\ req[p].kind = "erase" THEN req[p].todo
              ELSE {}
Named(p) == IF Moving(p) THEN {req[p].addr, req[p].old}
            ELSE IF req[p].pc # "idle" /\ req[p].kind = "erase" THEN {req[p].addr}
            ELSE {}
Sites(p) == (Named(p) \cup {place[d] : d \in Devices(p)}) \cap Address
Listed(p) == IF Listing(p) THEN {req[p].game} ELSE {}

SharesSites(p, q) == Devices(p) \cap Devices(q) # {} \/ Sites(p) \cap Sites(q) # {}
SharesGames(p, q) == Listing(p) /\ (Moving(q) \/ Listed(p) = Listed(q))

Others(p) == Req \ {p}
MeetingSites == UNION {Sites(p) : p \in {r \in Req : \E q \in Others(r) : SharesSites(r, q)}}
MeetingGames == UNION {Listed(p) : p \in {r \in Req : \E q \in Others(r) : SharesGames(r, q)}}
MeetingDevices ==
    UNION {{d \in Devices(p) : \E q \in Others(p) :
                d \in Devices(q) \/ (Moving(p) /\ Listing(q))} : p \in Req}

Next ==
    \/ /\ \E p \in Req : Accept(p) \/ Serve(p)
       /\ raced' = raced \cup MeetingSites'
       /\ racedDevices' = racedDevices \cup MeetingDevices'
       /\ racedGames' = racedGames \cup MeetingGames'
    \/ \E p \in Req : /\ Crash(p)
                      /\ raced' = raced \cup Sites(p)
                      /\ racedDevices' = racedDevices \cup Devices(p)
                      /\ racedGames' = racedGames \cup Listed(p)

Spec == Init /\ [][Next]_vars
-----------------------------------------------------------------------------
InHand(p, d) == Moving(p) /\ req[p].dev = d

(* device_num of an address is the number of devices deployed there        *)
(* (deploy_device, Device.delete) for every address that never was in the  *)
(* hands of two requests at once, and of none that died.                   *)
CountsAgree ==
    \A a \in Address \ raced :
        (\A p \in Req : a \notin Sites(p)) => num[a] = Cardinality(DevicesAt(a))

(* The newest deployment record of a device says where it is (Deploy.create *)
(* is the last commit of deploy_device), unless two requests had the device *)
(* in hand, one died over it, or its games were added while one changed.    *)
RecordsAgree ==
    \A d \in Alive \ racedDevices :
        place[d] \in Address /\ (\A p \in Req : ~InHand(p, d)) => logged[d] = place[d]

(* Only an address two requests had in hand is deleted under a device      *)
(* (delete_address refuses it by the count, the database not at all).      *)
OnlyEmptyErased ==
    [][\A d \in Device : place[d] \in Address /\ place'[d] = Nowhere
                           => place[d] \in raced']_vars

(* Every deployed device has exactly the published games, each at the      *)
(* published version, and that version has an md5 to download (update_game, *)
(* delete_game, deploy_device_game), with the same exceptions for the      *)
(* device, and unless requests for the game overlapped or died.            *)
GamesFollowList ==
    \A d \in Alive \ racedDevices, g \in Game \ racedGames :
        /\ place[d] \in Address
        /\ \A p \in Req : ~InHand(p, d) /\ g \notin Listed(p)
        => /\ {games[d][g]} \ {NoVersion} = {r.ver : r \in listed[g]}
           /\ \A r \in listed[g] : <<g, r.ver>> \in versions
=============================================================================
