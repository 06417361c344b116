---------------------------- MODULE Fleet_proofs ----------------------------
(***************************************************************************)
(* What is proved of Fleet, for every set of devices, addresses, games and *)
(* requests: the counts of the addresses (CInv), the deployment records    *)
(* (RInv) and the games of the devices (GInv).  Each part has the one      *)
(* before it as a conjunct.                                                *)
(***************************************************************************)
EXTENDS Fleet, TLAPS, FiniteSetTheorems, WellFoundedInduction

(* Types *)

Early == {"create", "look"}
Relocating == {"uncount", "move"}
Filling == {"recount", "count", "games", "add", "next"}
Deploying == Early \cup Relocating \cup Filling \cup {"device", "record"}
Dropping == {"undeploy", "undeployed", "drop"}
Informing == {"devices", "tell", "told"}
Publishing == {"list", "info", "version"} \cup Informing
Withdrawing == {"unlist", "unlisted", "remove", "removed", "versions"}

(* What the next step of a request needs *)
Made(r) ==
    /\ r \in Request
    /\ r.pc \in Deploying => r.kind = "deploy" /\ r.addr \in Address /\ r.old # r.addr
    /\ r.pc \in Dropping => r.kind = "drop" /\ r.addr = Nowhere
    /\ r.pc = "erase" => r.kind = "erase" /\ r.addr \in Address
    /\ r.pc \in Publishing => r.kind = "publish" /\ r.ver \in GameVersion
    /\ r.pc \in Withdrawing => r.kind = "withdraw"
    /\ r.pc = "device" => r.old = Unborn
    /\ r.pc \in Relocating => r.old \in Address
    /\ r.pc \in Filling => r.old \in Address \cup {Unborn}
    /\ r.pc = "uncount" => r.oldNum > 0
    /\ r.pc \in {"add", "next", "undeploy", "undeployed"} => r.list # {}
    /\ r.pc = "version" => r.found \subseteq {<<r.game, r.ver>>}
    /\ r.pc = "versions" => \A gv \in r.found : gv[1] = r.game

Requests == req \in [Req -> Request] /\ \A p \in Req : Made(req[p])

(* A device is at an address that has a row; one without a row has no games *)
(* and counts nothing                                                      *)
Placed ==
    /\ AddressTypeOK
    /\ \A d \in Device : place[d] \in Address => place[d] \in sites
    /\ \A a \in Address \ sites : num[a] = 0

Games ==
    /\ listed \in [Game -> SUBSET ListRow]
    /\ lastId \in Nat
    /\ versions \subseteq Game \X GameVersion
    /\ games \in [Device -> [Game -> GameVersion \cup {NoVersion}]]
    /\ \A g \in Game : \A r \in listed[g] : r.id # 0

Notes == started \in 0..MaxStart /\ raced \subseteq Address /\ racedDevices \subseteq Device
         /\ racedGames \subseteq Game

TInv == Placed /\ Games /\ Requests /\ Notes
-----------------------------------------------------------------------------
(* What two requests share is noted *)
Met ==
    \A p \in Req : \A q \in Req \ {p} :
        /\ SharesSites(p, q) => Sites(p) \subseteq raced
        /\ Devices(p) \cap Devices(q) \subseteq racedDevices
        /\ Moving(p) /\ Listing(q) => req[p].dev \in racedDevices
        /\ SharesGames(p, q) => Listed(p) \subseteq racedGames

(* Where a request believes its device to be *)
Where(r) ==
    LET b == place[r.dev] IN
    /\ r.pc = "device" => b = Unborn
    /\ r.pc \in Relocating \cup {"drop"} => b = r.old
    /\ r.pc = "recount" => b = IF r.old = Unborn THEN r.addr ELSE r.old
    /\ r.pc \in {"count", "games", "add", "next", "record"} => b = r.addr

(* It is right, and the address is there, unless somebody else came by *)
Sure(p) ==
    LET r == req[p] IN
    /\ Sites(p) \subseteq raced \/ Where(r)
    /\ Moving(p) /\ r.dev \notin racedDevices => Where(r)
    /\ r.pc \in Deploying \ Early => Sites(p) \subseteq raced \/ r.addr \in sites

(* The counts it has in hand *)
Counted(p) ==
    LET r == req[p] IN
    /\ r.pc = "uncount" /\ r.old \notin raced => r.oldNum = num[r.old]
    /\ r.pc \in {"count", "move"} /\ r.addr \notin raced => r.n = num[r.addr]
    /\ r.pc = "drop" /\ r.old \in Address \ raced => r.n = num[r.old]

(* Devices that are about to lose their address *)
Doomed(p) ==
    req[p].pc = "erase" => \A d \in req[p].todo : place[d] \in {Nowhere, Gone} \cup raced

(* p has counted its device neither where it was nor where it is going *)
Owes(p, a) == req[p].pc \in {"recount", "count", "move"} /\ place[req[p].dev] = a
Balance(a) ==
    Cardinality(DevicesAt(a)) = IF \E p \in Req : Owes(p, a) THEN num[a] + 1 ELSE num[a]

CInv == /\ TInv /\ Met
        /\ \A p \in Req : Sure(p) /\ Counted(p) /\ Doomed(p)
        /\ \A a \in Address \ raced : Balance(a)
-----------------------------------------------------------------------------
(* p has still to write down where its device is *)
Logs(p, d) == /\ req[p].pc \in Filling \cup {"record"}
              /\ req[p].dev = d /\ req[p].addr = place[d]
Logged(d) ==
    d \in Alive \ racedDevices /\ place[d] \in Address
        => logged[d] = place[d] \/ \E p \in Req : Logs(p, d)

(* what p has seen of the games of its device *)
Seen(p) == req[p].pc = "add" /\ req[p].dev \notin racedDevices => req[p].seen = games[req[p].dev]

RInv == CInv /\ (\A d \in Device : Logged(d)) /\ (\A p \in Req : Seen(p))
-----------------------------------------------------------------------------
Match(d, g) == {games[d][g]} \ {NoVersion} = {r.ver : r \in listed[g]}

(* The rows of g that p has still to add *)
ToGo(r) == IF r.pc = "next" THEN Rest(r.list) ELSE r.list
Filled(r, g) ==
    LET now == games[r.dev][g] IN
    /\ \A w \in listed[g] : now = w.ver \/ \E e \in ToGo(r) : e.game = g /\ e.ver = w.ver
    /\ \A e \in r.list : e.game = g => \E w \in listed[g] : w.ver = e.ver
    /\ now = NoVersion \/ \E w \in listed[g] : w.ver = now
Full(p, g) ==
    req[p].pc \in {"add", "next"} /\ req[p].dev \notin racedDevices => Filled(req[p], g)

(* p is at work on the games of d *)
Fills(p, d, g) ==
    LET r == req[p] IN
    /\ Moving(p) /\ r.dev = d
    /\ \/ r.kind = "drop"
       \/ r.pc \in {"recount", "count", "games"} /\ r.old = Unborn /\ games[d] = NoGames
       \/ r.pc \in {"add", "next"}

Matched(d, g) ==
    d \in Alive \ racedDevices /\ place[d] \in Address
        => \/ Match(d, g)
           \/ \E p \in Req : g \in Listed(p) \/ Fills(p, d, g)

OneRow(g) == \A r, s \in listed[g] : r = s
Versioned(g) == \A r \in listed[g] : <<g, r.ver>> \in versions
                    \/ \E p \in Req : req[p].pc \in {"info", "version"} /\ req[p].game = g

(* Every device but those to go has version v of g *)
Spread(r, v) == \A d \in Alive : d \in r.todo \/ (r.pc \in {"tell", "remove"} /\ d = r.dev)
                                 \/ games[d][r.game] = v

Published(r) ==
    LET g == r.game IN
    /\ r.pc \in {"list", "unlist"} => r.row = FirstRow(g)
    /\ r.pc \in Publishing \ {"list"} => listed[g] # {} /\ \A w \in listed[g] : w.ver = r.ver
    /\ r.pc = "version" => r.found = {<<g, r.ver>>} \cap versions
    /\ r.pc \in Informing => <<g, r.ver>> \in versions
    /\ r.pc \in {"tell", "told"} => Spread(r, r.ver)
    /\ r.pc \in {"tell", "told", "remove", "removed"} => r.todo \subseteq Alive
    /\ r.pc = "tell" => r.seen[g] = games[r.dev][g]
    /\ r.pc \in Withdrawing \ {"unlist"} => listed[g] = {}
    /\ r.pc \in {"remove", "removed", "versions"} => Spread(r, NoVersion)
    /\ r.pc = "versions" => r.todo = {}

(* A device without a row has no games, and nobody gives it any *)
Unborns == \A d \in Device : place[d] = Unborn => games[d] = NoGames
Born(p) == req[p].pc \in Relocating \cup Filling \cup {"record", "tell"} => place[req[p].dev] # Unborn

Follows(g) ==
    /\ OneRow(g) /\ Versioned(g)
    /\ \A p \in Req : (g \in Listed(p) => Published(req[p])) /\ Full(p, g)
    /\ \A d \in Device : Matched(d, g)

GInv == RInv /\ Unborns /\ (\A p \in Req : Born(p)) /\ \A g \in Game \ racedGames : Follows(g)
-----------------------------------------------------------------------------
(* Any numbers have a least one *)
LEMMA LeastNumber ==
  ASSUME NEW N, N \subseteq Nat, N # {}
  PROVE  Min(N) \in N /\ \A m \in N : Min(N) <= m
<1> DEFINE R == {mn \in Nat \X Nat : mn[1] < mn[2]}
<1>1. IsWellFoundedOn(R, Nat)
  BY NatLessThanWellFounded DEF OpToRel
<1> HIDE DEF R
<1>2. PICK n \in N : \A m \in N : <<m, n>> \notin R
  BY <1>1, WFMin
<1>3. \A m \in N : n <= m
  <2> TAKE m \in N
  <2>1. m \in Nat /\ n \in Nat /\ ~(m < n)
    BY <1>2 DEF R
  <2> QED
    BY <2>1
<1> QED
  BY <1>3 DEF Min

LEMMA LeastDevice ==
  ASSUME NEW D, D \subseteq Device, D # {}
  PROVE  Min(D) \in D /\ \A d \in D : Min(D) <= d
BY LeastNumber, AddressAssumption

LEMMA FirstIs ==
  ASSUME NEW l \in SUBSET ListEntry, l # {}
  PROVE  First(l) \in l
<1> DEFINE ids == {e.id : e \in l}
<1>1. ids \subseteq Nat /\ ids # {}
  BY DEF ListEntry
<1>2. Min(ids) \in ids /\ \A i \in ids : Min(ids) <= i
  BY <1>1, LeastNumber
<1>3. \E e \in l : \A f \in l : e.id <= f.id
  BY <1>2
<1> QED
  BY <1>3 DEF First

(* Only a game without rows has no first row *)
LEMMA FirstRowIs ==
  ASSUME TInv, NEW g \in Game
  PROVE  /\ FirstRow(g) \in Nat
         /\ FirstRow(g) = 0 <=> listed[g] = {}
         /\ listed[g] # {} => HasRow(g, FirstRow(g))
<1> DEFINE ids == {r.id : r \in listed[g]}
<1>1. listed[g] \subseteq ListRow /\ \A r \in listed[g] : r.id # 0
  BY DEF TInv, Games
<1>2. ids \subseteq Nat \ {0} /\ (listed[g] # {} <=> ids # {})
  BY <1>1 DEF ListRow
<1>3. listed[g] # {} => Min(ids) \in ids
  BY <1>2, LeastNumber
<1> QED
  BY <1>2, <1>3 DEF FirstRow, HasRow
-----------------------------------------------------------------------------
(* What a request becomes *)

LEMMA Names ==
  /\ Unborn \notin Address /\ Gone \notin Address /\ Nowhere \notin Address
  /\ Unborn # Gone /\ Unborn # Nowhere /\ Gone # Nowhere
<1>1. Cardinality({Unborn, Gone, Nowhere}) = 3
  BY AddressAssumption
<1>2. \A x, y : Cardinality({x, y}) \in {1, 2}
  <2> TAKE x, y
  <2>1. IsFiniteSet({x}) /\ Cardinality({x}) = 1
    BY FS_Singleton
  <2>2. /\ y \in {x} => Cardinality({x} \cup {y}) = 1
        /\ y \notin {x} => Cardinality({x} \cup {y}) = 2
    BY <2>1, FS_AddElement
  <2>3. {x, y} = {x} \cup {y}
    OBVIOUS
  <2> QED
    BY <2>2, <2>3
<1>3. Unborn # Gone /\ Unborn # Nowhere /\ Gone # Nowhere
  <2>1. ASSUME NEW x, NEW y, {Unborn, Gone, Nowhere} = {x, y} PROVE FALSE
    <3>1. Cardinality({x, y}) = 3
      BY <1>1, <2>1
    <3>2. Cardinality({x, y}) \in {1, 2}
      BY <1>2, Zenon
    <3> QED
      BY <3>1, <3>2
  <2>2. Unborn = Gone => {Unborn, Gone, Nowhere} = {Unborn, Nowhere}
    OBVIOUS
  <2>3. Unborn = Nowhere => {Unborn, Gone, Nowhere} = {Unborn, Gone}
    OBVIOUS
  <2>4. Gone = Nowhere => {Unborn, Gone, Nowhere} = {Unborn, Gone}
    OBVIOUS
  <2> QED
    BY <2>1, <2>2, <2>3, <2>4
<1> QED
  BY <1>3, AddressAssumption

LEMMA IdleMade ==
  /\ Made(Idle) /\ Idle.pc = "idle" /\ Idle.kind = "deploy"
  /\ Idle.addr = Nowhere /\ Idle.old = Nowhere /\ Idle.list = {}
<1>1. Min(Device) \in Device
  BY LeastDevice, AddressAssumption
<1>2. (CHOOSE g \in Game : TRUE) \in Game
  BY GameAssumption
<1>3. NoGames \in [Game -> GameVersion \cup {NoVersion}]
  BY DEF NoGames
<1>4. Idle \in Request /\ Idle.pc = "idle"
  BY <1>1, <1>2, <1>3 DEF Idle, Request, Kind, Label
<1>5. Made(Idle)
  BY <1>4 DEF Made, Deploying, Early, Relocating, Filling, Dropping, Publishing, Informing, Withdrawing
<1> QED
  BY <1>4, <1>5 DEF Idle

(* an address of a device *)
LEMMA PlaceIs ==
  ASSUME TInv, NEW d \in Device
  PROVE  /\ place[d] \in Address \cup {Unborn, Gone, Nowhere}
         /\ place[d] \in Address => place[d] \in sites /\ num[place[d]] \in Nat
         /\ \A a \in Address : num[a] \in Nat
BY DEF TInv, Placed, AddressTypeOK

LEMMA LocatedIs ==
  ASSUME TInv, NEW r \in Request, r.kind = "deploy", r.addr \in Address
  PROVE  LET q == Located(r) IN
         \/ q = Idle
         \/ /\ Made(q) /\ q.kind = "deploy" /\ q.dev = r.dev /\ q.addr = r.addr
            /\ q.old = place[r.dev] /\ q.n = num[r.addr]
            /\ q.old \in Address => q.oldNum = num[q.old]
            /\ \/ q.pc = "device" /\ q.old = Unborn
               \/ q.pc = "uncount" /\ q.old \in Address
               \/ q.pc = "move" /\ q.old \in Address /\ num[q.old] = 0
<1> DEFINE b == place[r.dev]
           k == IF b \in Address THEN num[b] ELSE 0
           l == IF b = Unborn THEN "device" ELSE IF k > 0 THEN "uncount" ELSE "move"
           q == [r EXCEPT !.old = b, !.oldNum = k, !.n = num[r.addr], !.pc = l]
<1>1. CASE b \in {Gone, Nowhere, r.addr}
  BY <1>1 DEF Located
<1>2. CASE b \notin {Gone, Nowhere, r.addr}
  <2>1. Located(r) = q
    BY <1>2 DEF Located
  <2>2. /\ b \in Address \cup {Unborn} /\ b # r.addr /\ k \in Nat /\ num[r.addr] \in Nat
        /\ b \in Address => k = num[b]
    BY <1>2, PlaceIs DEF Request
  <2>3. \/ l = "device" /\ b = Unborn
        \/ l = "uncount" /\ b \in Address /\ k > 0
        \/ l = "move" /\ b \in Address /\ k = 0
    BY <2>2, Names
  <2> HIDE DEF b, k, l
  <2>4. l \in Label
    BY <2>3 DEF Label
  <2>5. /\ q \in Request /\ q.kind = "deploy" /\ q.dev = r.dev /\ q.addr = r.addr /\ q.old = b
        /\ q.oldNum = k /\ q.n = num[r.addr] /\ q.pc = l
    BY <2>2, <2>4 DEF Request
  <2> HIDE DEF q
  <2>6. Made(q)
    BY <2>2, <2>3, <2>5
       DEF Made, Deploying, Early, Relocating, Filling, Dropping, Publishing, Informing, Withdrawing
  <2> QED
    BY <2>1, <2>2, <2>3, <2>5, <2>6 DEF b
<1> QED
  BY <1>1, <1>2

(* a request that goes on with what it had *)
Same(q, r) == /\ q.kind = r.kind /\ q.dev = r.dev /\ q.addr = r.addr /\ q.old = r.old
              /\ q.game = r.game /\ q.ver = r.ver /\ q.todo = r.todo

LEMMA AddingIs ==
  ASSUME TInv, NEW r, Made(r), NEW l \in SUBSET ListEntry,
         r.pc \in {"games", "next"}
  PROVE  LET q == Adding(r, l) IN
         \/ q = Idle /\ r.dev \notin Alive
         \/ q.pc = "record" /\ l = {} /\ Made(q) /\ Same(q, r)
         \/ q.pc = "add" /\ l # {} /\ q.list = l /\ q.seen = games[r.dev] /\ Made(q) /\ Same(q, r)
<1> USE DEF Made, Deploying, Early, Relocating, Filling, Dropping, Publishing, Informing, Withdrawing
<1>1. /\ r \in Request /\ r.kind = "deploy" /\ r.addr \in Address /\ r.old # r.addr
      /\ r.old \in Address \cup {Unborn}
  OBVIOUS
<1>2. games[r.dev] \in [Game -> GameVersion \cup {NoVersion}] /\ NoGames \in [Game -> GameVersion \cup {NoVersion}]
  BY <1>1 DEF TInv, Games, Request, NoGames
<1>3. CASE r.dev \notin Alive
  BY <1>3 DEF Adding
<1>4. CASE r.dev \in Alive /\ l = {}
  <2> DEFINE q == [r EXCEPT !.pc = "record", !.list = {}, !.seen = NoGames]
  <2>1. Adding(r, l) = q
    BY <1>4 DEF Adding
  <2>2. q \in Request /\ q.pc = "record" /\ Same(q, r)
    BY <1>1, <1>2 DEF Request, Label, Same
  <2> HIDE DEF q
  <2>3. Made(q)
    BY <1>1, <2>2 DEF Same
  <2> QED
    BY <1>4, <2>1, <2>2, <2>3
<1>5. CASE r.dev \in Alive /\ l # {}
  <2> DEFINE s == games[r.dev]
             q == [r EXCEPT !.pc = "add", !.list = l, !.seen = s]
  <2>1. Adding(r, l) = q
    BY <1>5 DEF Adding
  <2> HIDE DEF s
  <2>2. q \in Request /\ q.pc = "add" /\ Same(q, r) /\ q.list = l /\ q.seen = s
    BY <1>1, <1>2 DEF Request, Label, Same, s
  <2> HIDE DEF q
  <2>3. Made(q)
    BY <1>1, <1>5, <2>2 DEF Same
  <2> QED
    BY <1>5, <2>1, <2>2, <2>3 DEF s
<1> QED
  BY <1>3, <1>4, <1>5

(* The games of r.dev that are listed in l go first *)
LEMMA UndeployingIs ==
  ASSUME TInv, NEW r \in Request, NEW l \in SUBSET ListEntry, r.kind = "drop", r.addr = Nowhere
  PROVE  LET q == Undeploying(r, l) IN
         \/ q = Idle /\ r.dev \notin Alive
         \/ /\ q.pc = "undeploy" /\ Made(q) /\ Same(q, r)
            /\ q.list \subseteq l /\ q.list # {}
         \/ /\ r.dev \in Alive /\ q.pc = "drop" /\ Made(q) /\ q.kind = r.kind /\ q.dev = r.dev
            /\ q.addr = r.addr /\ q.old = place[r.dev] /\ q.todo = r.todo
            /\ q.old \in Address \cup {Nowhere}
            /\ q.n = IF q.old = Nowhere THEN 0 ELSE num[q.old]
<1> DEFINE left == {e \in l : games[r.dev][e.game] # NoVersion}
           rest == {e \in l : e.id >= First(left).id}
           b == place[r.dev]
           k == IF b = Nowhere THEN 0 ELSE num[b]
<1>1. CASE left # {}
  <2> DEFINE q == [r EXCEPT !.pc = "undeploy", !.list = rest]
  <2>1. Undeploying(r, l) = q
    BY <1>1 DEF Undeploying
  <2>2. First(left) \in left
    BY <1>1, FirstIs
  <2>3. First(left) \in l /\ First(left).id \in Nat
    BY <2>2 DEF ListEntry
  <2> HIDE DEF left
  <2>4. First(left) \in rest
    BY <2>3
  <2>5. rest \subseteq l /\ rest # {} /\ rest \in SUBSET ListEntry
    BY <2>4
  <2> HIDE DEF rest
  <2>6. q \in Request /\ q.pc = "undeploy" /\ Same(q, r) /\ q.list = rest
    BY <2>5 DEF Request, Label, Same
  <2> HIDE DEF q
  <2>7. Made(q)
    BY <2>5, <2>6
       DEF Made, Same, Deploying, Early, Relocating, Filling, Dropping, Publishing, Informing, Withdrawing
  <2> QED
    BY <2>1, <2>5, <2>6, <2>7
<1>2. CASE left = {} /\ r.dev \notin Alive
  BY <1>2 DEF Undeploying
<1>3. CASE left = {} /\ r.dev \in Alive
  <2> DEFINE q == [r EXCEPT !.pc = "drop", !.list = {}, !.old = b, !.n = k]
  <2>1. Undeploying(r, l) = q
    BY <1>3 DEF Undeploying
  <2>2. b \in Address \cup {Nowhere} /\ k \in Nat
    BY <1>3, PlaceIs, Names DEF Alive
  <2> HIDE DEF k, b
  <2>3. /\ q \in Request /\ q.pc = "drop" /\ q.kind = r.kind /\ q.dev = r.dev
        /\ q.addr = r.addr /\ q.old = b /\ q.n = k /\ q.list = {} /\ q.todo = r.todo
    BY <2>2 DEF Request, Label
  <2> HIDE DEF q
  <2>4. Made(q)
    BY <2>3
       DEF Made, Deploying, Early, Relocating, Filling, Dropping, Publishing, Informing, Withdrawing
  <2> QED
    BY <1>3, <2>1, <2>2, <2>3, <2>4 DEF k, b
<1> QED
  BY <1>1, <1>2, <1>3

LEMMA TellingIs ==
  ASSUME TInv, NEW r \in Request, NEW D \in SUBSET Device, r.kind = "publish", r.ver \in GameVersion
  PROVE  LET q == Telling(r, D) IN
         \/ q = Idle /\ (D = {} \/ \E d \in D : d \notin Alive)
         \/ /\ q.pc = "tell" /\ Made(q) /\ q.kind = r.kind /\ q.game = r.game /\ q.ver = r.ver
            /\ q.dev \in D \cap Alive /\ q.todo = D \ {q.dev} /\ q.seen = games[q.dev]
<1> PICK d : d = Min(D)
  OBVIOUS
<1>1. CASE D = {}
  BY <1>1 DEF Telling
<1>2. CASE D # {} /\ d \notin Alive
  <2>1. d \in D
    BY <1>2, LeastDevice
  <2> QED
    BY <1>2, <2>1 DEF Telling
<1>3. CASE D # {} /\ d \in Alive
  <2> DEFINE s == games[d]
             t == D \ {d}
             q == [r EXCEPT !.pc = "tell", !.dev = d, !.todo = t, !.seen = s]
  <2>1. Telling(r, D) = q
    BY <1>3 DEF Telling
  <2>2. d \in D /\ d \in Device
    BY <1>3, LeastDevice
  <2>3. s \in [Game -> GameVersion \cup {NoVersion}] /\ t \in SUBSET Device
    BY <2>2 DEF TInv, Games
  <2> HIDE DEF s, t
  <2>4. /\ q \in Request /\ q.pc = "tell" /\ q.kind = r.kind /\ q.game = r.game /\ q.ver = r.ver
        /\ q.dev = d /\ q.todo = t /\ q.seen = s
    BY <2>2, <2>3 DEF Request, Label
  <2> HIDE DEF q
  <2>5. Made(q)
    BY <2>4
       DEF Made, Deploying, Early, Relocating, Filling, Dropping, Publishing, Informing, Withdrawing
  <2> QED
    BY <1>3, <2>1, <2>2, <2>4, <2>5 DEF s, t
<1> QED
  BY <1>1, <1>2, <1>3

LEMMA RemovingIs ==
  ASSUME TInv, NEW r \in Request, NEW D \in SUBSET Device, r.kind = "withdraw"
  PROVE  LET q == Removing(r, D)
             free(d) == d \in Alive /\ games[d][r.game] = NoVersion
         IN
         \/ q = Idle /\ \E d \in D : d \notin Alive
         \/ /\ q.pc = "versions" /\ Made(q) /\ q.kind = r.kind /\ q.game = r.game
            /\ q.todo = {} /\ q.found = {gv \in versions : gv[1] = r.game}
            /\ \A d \in D : free(d)
         \/ /\ q.pc = "remove" /\ Made(q) /\ q.kind = r.kind /\ q.game = r.game
            /\ q.dev \in D \cap Alive /\ q.todo \subseteq D
            /\ \A d \in D : d \in q.todo \/ d = q.dev \/ free(d)
<1> DEFINE left == {d \in D : d \notin Alive \/ games[d][r.game] # NoVersion}
<1> PICK d : d = Min(left)
  OBVIOUS
<1>1. CASE left = {}
  <2> DEFINE f == {gv \in versions : gv[1] = r.game}
             q == [r EXCEPT !.pc = "versions", !.todo = {}, !.seen = NoGames, !.found = f]
  <2>1. Removing(r, D) = q
    BY <1>1 DEF Removing
  <2>2. f \in SUBSET (Game \X GameVersion) /\ \A gv \in f : gv[1] = r.game
    BY DEF TInv, Games
  <2>3. NoGames \in [Game -> GameVersion \cup {NoVersion}]
    BY DEF NoGames
  <2> HIDE DEF f
  <2>4. /\ q \in Request /\ q.pc = "versions" /\ q.kind = r.kind /\ q.game = r.game
        /\ q.todo = {} /\ q.found = f
    BY <2>2, <2>3 DEF Request, Label
  <2> HIDE DEF q
  <2>5. Made(q)
    BY <2>2, <2>4
       DEF Made, Deploying, Early, Relocating, Filling, Dropping, Publishing, Informing, Withdrawing
  <2> QED
    BY <1>1, <2>1, <2>4, <2>5 DEF f
<1>2. CASE left # {}
  <2>1. d \in left /\ \A e \in left : d <= e
    BY <1>2, LeastDevice
  <2>2. CASE d \notin Alive
    BY <1>2, <2>1, <2>2 DEF Removing
  <2>3. CASE d \in Alive
    <3> DEFINE t == {e \in D : e > d}
               q == [r EXCEPT !.pc = "remove", !.dev = d, !.todo = t]
    <3>1. Removing(r, D) = q
      BY <1>2, <2>3 DEF Removing
    <3>2. d \in Device /\ t \in SUBSET Device
      BY <2>1
    <3> HIDE DEF t
    <3>3. /\ q \in Request /\ q.pc = "remove" /\ q.kind = r.kind /\ q.game = r.game
          /\ q.dev = d /\ q.todo = t
      BY <3>2 DEF Request, Label
    <3> HIDE DEF q
    <3>4. Made(q)
      BY <3>3
         DEF Made, Deploying, Early, Relocating, Filling, Dropping, Publishing, Informing, Withdrawing
    <3>5. \A e \in D : e \in t \/ e = d \/ e \notin left
      <4> TAKE e \in D
      <4>1. e \in Nat /\ d \in Nat
        BY <3>2, AddressAssumption
      <4> QED
        BY <2>1, <4>1 DEF t
    <3> QED
      BY <2>1, <2>3, <3>1, <3>3, <3>4, <3>5 DEF t
  <2> QED
    BY <2>2, <2>3
<1> QED
  BY <1>1, <1>2
-----------------------------------------------------------------------------
(* What the transactions keep of the tables *)

LEMMA AddressWrites ==
  ASSUME TInv, NEW a \in Address, NEW d \in Device, NEW n \in Nat
  PROVE  /\ InsertAddress(a) => Placed'
         /\ InsertDevice(d, a) => Placed'
         /\ SaveNum(a, n) => Placed'
         /\ MoveDevice(d, a, n) => Placed'
         /\ InsertDeploy(d, a) => Placed'
<1> USE DEF TInv, Placed, AddressTypeOK
<1>1. InsertAddress(a) => Placed'
  BY DEF InsertAddress
<1>2. InsertDevice(d, a) => Placed'
  BY DEF InsertDevice, MayInsert
<1>3. SaveNum(a, n) => Placed'
  BY DEF SaveNum
<1>4. MoveDevice(d, a, n) => Placed'
  BY DEF MoveDevice, MayMove
<1>5. InsertDeploy(d, a) => Placed'
  BY DEF InsertDeploy
<1> QED
  BY <1>1, <1>2, <1>3, <1>4, <1>5

LEMMA DropPlaced ==
  ASSUME TInv, NEW d \in Device, NEW n \in Nat, NEW a, DeleteDevice(d, a, n)
  PROVE  Placed'
<1> USE DEF TInv, Placed, AddressTypeOK
<1>1. n > 0 => a \in Address /\ a \in sites /\ n - 1 \in Nat
  BY DEF DeleteDevice, MayDelete
<1>2. num' \in [Address -> Nat] /\ \A c \in Address \ sites : num'[c] = num[c]
  BY <1>1 DEF DeleteDevice
<1> QED
  BY <1>2, Names DEF DeleteDevice

LEMMA ErasePlaced ==
  ASSUME TInv, NEW a \in Address, NEW D \in SUBSET Device, EraseAddress(a, D)
  PROVE  Placed'
<1> USE DEF TInv, Placed, AddressTypeOK
<1>1. AddressTypeOK'
  BY DEF EraseAddress
<1>2. \A d \in Device : place'[d] \in Address => place'[d] \in sites'
  BY Names DEF EraseAddress, MayErase, DevicesAt
<1> QED
  BY <1>1, <1>2 DEF EraseAddress

LEMMA GameWrites ==
  ASSUME TInv, NEW g \in Game, NEW v \in GameVersion, NEW d \in Device, NEW id, NEW s
  PROVE  /\ InsertList(g, v) => Games'
         /\ UpdateList(g, id, v) => Games'
         /\ InsertVersion(g, v) => Games'
         /\ AddGame(d, g, v, s) => Games'
<1> USE DEF TInv, Games
<1>1. InsertList(g, v) => Games'
  BY DEF InsertList, ListRow
<1>2. ASSUME UpdateList(g, id, v) PROVE Games'
  <2> DEFINE new(r) == IF r.id = id THEN [r EXCEPT !.ver = v] ELSE r
  <2>1. \A r \in ListRow : r.id # 0 => new(r) \in ListRow /\ new(r).id # 0
    BY DEF ListRow
  <2>2. listed' = [listed EXCEPT ![g] = {new(r) : r \in listed[g]}]
    BY <1>2 DEF UpdateList
  <2> HIDE DEF new
  <2>3. \A r \in {new(q) : q \in listed[g]} : r \in ListRow /\ r.id # 0
    BY <2>1
  <2>4. listed' \in [Game -> SUBSET ListRow] /\ \A h \in Game : \A r \in listed'[h] : r.id # 0
    BY <2>2, <2>3
  <2> QED
    BY <1>2, <2>4 DEF UpdateList
<1>3. InsertVersion(g, v) => Games'
  BY DEF InsertVersion
<1>4. AddGame(d, g, v, s) => Games'
  BY DEF AddGame
<1> QED
  BY <1>1, <1>2, <1>3, <1>4

LEMMA GameDeletes ==
  ASSUME TInv, NEW g \in Game, NEW d \in Device, NEW id, NEW V
  PROVE  /\ DeleteList(g, id) => Games'
         /\ DeleteVersions(V) => Games'
         /\ DeleteGame(d, g) => Games'
<1> USE DEF TInv, Games
<1>1. DeleteList(g, id) => Games'
  BY DEF DeleteList
<1>2. DeleteVersions(V) => Games'
  BY DEF DeleteVersions
<1>3. DeleteGame(d, g) => Games'
  BY DEF DeleteGame
<1> QED
  BY <1>1, <1>2, <1>3

LEMMA GameListIs == TInv => GameList \in SUBSET ListEntry
BY DEF TInv, Games, GameList, ListEntry, ListRow
-----------------------------------------------------------------------------
(* A request that goes on: its fields, and that it is still well formed *)

LEMMA GoesOn ==
  ASSUME NEW r, Made(r)
  PROVE  /\ r.pc = "create" => LET q == [r EXCEPT !.pc = "look"] IN Made(q) /\ q.pc = "look" /\ Same(q, r)
         /\ r.pc = "device" => LET q == [r EXCEPT !.pc = "recount"] IN Made(q) /\ q.pc = "recount" /\ Same(q, r)
         /\ r.pc = "uncount" => LET q == [r EXCEPT !.oldNum = 0, !.pc = "recount"] IN Made(q) /\ q.pc = "recount" /\ Same(q, r)
         /\ r.pc = "count" => LET q == [r EXCEPT !.n = 0, !.pc = "games"] IN Made(q) /\ q.pc = "games" /\ Same(q, r)
         /\ r.pc = "move" => LET q == [r EXCEPT !.n = 0, !.pc = "record"] IN Made(q) /\ q.pc = "record" /\ Same(q, r)
         /\ r.pc = "add" => LET q == [r EXCEPT !.pc = "next"] IN Made(q) /\ q.pc = "next" /\ Same(q, r) /\ q.list = r.list
         /\ r.pc = "undeploy" => LET q == [r EXCEPT !.pc = "undeployed"] IN Made(q) /\ q.pc = "undeployed" /\ Same(q, r) /\ q.list = r.list
         /\ r.pc = "list" => LET q == [r EXCEPT !.row = 0, !.pc = "info"] IN Made(q) /\ q.pc = "info" /\ Same(q, r)
         /\ r.pc = "version" => LET q == [r EXCEPT !.found = {}, !.pc = "devices"] IN Made(q) /\ q.pc = "devices" /\ Same(q, r)
         /\ r.pc = "tell" => LET q == [r EXCEPT !.pc = "told"] IN Made(q) /\ q.pc = "told" /\ Same(q, r)
         /\ r.pc = "unlist" => LET q == [r EXCEPT !.row = 0, !.pc = "unlisted"] IN Made(q) /\ q.pc = "unlisted" /\ Same(q, r)
         /\ r.pc = "remove" => LET q == [r EXCEPT !.pc = "removed"] IN Made(q) /\ q.pc = "removed" /\ Same(q, r)
<1>1. r.pc = "create" => LET q == [r EXCEPT !.pc = "look"] IN Made(q) /\ q.pc = "look" /\ Same(q, r)
  <2> HAVE r.pc = "create"
  <2> DEFINE q == [r EXCEPT !.pc = "look"]
  <2>1. q \in Request /\ q.pc = "look" /\ Same(q, r) /\ q.list = r.list
    BY DEF Made, Request, Label, Same
  <2> HIDE DEF q
  <2>2. Made(q)
    BY <2>1
       DEF Same, Made, Deploying, Early, Relocating, Filling, Dropping, Publishing, Informing, Withdrawing
  <2> QED
    BY <2>1, <2>2 DEF q
<1>2. r.pc = "device" => LET q == [r EXCEPT !.pc = "recount"] IN Made(q) /\ q.pc = "recount" /\ Same(q, r)
  <2> HAVE r.pc = "device"
  <2> DEFINE q == [r EXCEPT !.pc = "recount"]
  <2>1. q \in Request /\ q.pc = "recount" /\ Same(q, r) /\ q.list = r.list
    BY DEF Made, Request, Label, Same
  <2> HIDE DEF q
  <2>2. Made(q)
    BY <2>1
       DEF Same, Made, Deploying, Early, Relocating, Filling, Dropping, Publishing, Informing, Withdrawing
  <2> QED
    BY <2>1, <2>2 DEF q
<1>3. r.pc = "uncount" => LET q == [r EXCEPT !.oldNum = 0, !.pc = "recount"] IN Made(q) /\ q.pc = "recount" /\ Same(q, r)
  <2> HAVE r.pc = "uncount"
  <2> DEFINE q == [r EXCEPT !.oldNum = 0, !.pc = "recount"]
  <2>1. q \in Request /\ q.pc = "recount" /\ Same(q, r) /\ q.list = r.list
    BY DEF Made, Request, Label, Same
  <2> HIDE DEF q
  <2>2. Made(q)
    BY <2>1
       DEF Same, Made, Deploying, Early, Relocating, Filling, Dropping, Publishing, Informing, Withdrawing
  <2> QED
    BY <2>1, <2>2 DEF q
<1>4. r.pc = "count" => LET q == [r EXCEPT !.n = 0, !.pc = "games"] IN Made(q) /\ q.pc = "games" /\ Same(q, r)
  <2> HAVE r.pc = "count"
  <2> DEFINE q == [r EXCEPT !.n = 0, !.pc = "games"]
  <2>1. q \in Request /\ q.pc = "games" /\ Same(q, r) /\ q.list = r.list
    BY DEF Made, Request, Label, Same
  <2> HIDE DEF q
  <2>2. Made(q)
    BY <2>1
       DEF Same, Made, Deploying, Early, Relocating, Filling, Dropping, Publishing, Informing, Withdrawing
  <2> QED
    BY <2>1, <2>2 DEF q
<1>5. r.pc = "move" => LET q == [r EXCEPT !.n = 0, !.pc = "record"] IN Made(q) /\ q.pc = "record" /\ Same(q, r)
  <2> HAVE r.pc = "move"
  <2> DEFINE q == [r EXCEPT !.n = 0, !.pc = "record"]
  <2>1. q \in Request /\ q.pc = "record" /\ Same(q, r) /\ q.list = r.list
    BY DEF Made, Request, Label, Same
  <2> HIDE DEF q
  <2>2. Made(q)
    BY <2>1
       DEF Same, Made, Deploying, Early, Relocating, Filling, Dropping, Publishing, Informing, Withdrawing
  <2> QED
    BY <2>1, <2>2 DEF q
<1>6. r.pc = "add" => LET q == [r EXCEPT !.pc = "next"] IN Made(q) /\ q.pc = "next" /\ Same(q, r) /\ q.list = r.list
  <2> HAVE r.pc = "add"
  <2> DEFINE q == [r EXCEPT !.pc = "next"]
  <2>1. q \in Request /\ q.pc = "next" /\ Same(q, r) /\ q.list = r.list
    BY DEF Made, Request, Label, Same
  <2> HIDE DEF q
  <2>2. Made(q)
    BY <2>1
       DEF Same, Made, Deploying, Early, Relocating, Filling, Dropping, Publishing, Informing, Withdrawing
  <2> QED
    BY <2>1, <2>2 DEF q
<1>7. r.pc = "undeploy" => LET q == [r EXCEPT !.pc = "undeployed"] IN Made(q) /\ q.pc = "undeployed" /\ Same(q, r) /\ q.list = r.list
  <2> HAVE r.pc = "undeploy"
  <2> DEFINE q == [r EXCEPT !.pc = "undeployed"]
  <2>1. q \in Request /\ q.pc = "undeployed" /\ Same(q, r) /\ q.list = r.list
    BY DEF Made, Request, Label, Same
  <2> HIDE DEF q
  <2>2. Made(q)
    BY <2>1
       DEF Same, Made, Deploying, Early, Relocating, Filling, Dropping, Publishing, Informing, Withdrawing
  <2> QED
    BY <2>1, <2>2 DEF q
<1>8. r.pc = "list" => LET q == [r EXCEPT !.row = 0, !.pc = "info"] IN Made(q) /\ q.pc = "info" /\ Same(q, r)
  <2> HAVE r.pc = "list"
  <2> DEFINE q == [r EXCEPT !.row = 0, !.pc = "info"]
  <2>1. q \in Request /\ q.pc = "info" /\ Same(q, r) /\ q.list = r.list
    BY DEF Made, Request, Label, Same
  <2> HIDE DEF q
  <2>2. Made(q)
    BY <2>1
       DEF Same, Made, Deploying, Early, Relocating, Filling, Dropping, Publishing, Informing, Withdrawing
  <2> QED
    BY <2>1, <2>2 DEF q
<1>9. r.pc = "version" => LET q == [r EXCEPT !.found = {}, !.pc = "devices"] IN Made(q) /\ q.pc = "devices" /\ Same(q, r)
  <2> HAVE r.pc = "version"
  <2> DEFINE q == [r EXCEPT !.found = {}, !.pc = "devices"]
  <2>1. q \in Request /\ q.pc = "devices" /\ Same(q, r) /\ q.list = r.list
    BY DEF Made, Request, Label, Same
  <2> HIDE DEF q
  <2>2. Made(q)
    BY <2>1
       DEF Same, Made, Deploying, Early, Relocating, Filling, Dropping, Publishing, Informing, Withdrawing
  <2> QED
    BY <2>1, <2>2 DEF q
<1>10. r.pc = "tell" => LET q == [r EXCEPT !.pc = "told"] IN Made(q) /\ q.pc = "told" /\ Same(q, r)
  <2> HAVE r.pc = "tell"
  <2> DEFINE q == [r EXCEPT !.pc = "told"]
  <2>1. q \in Request /\ q.pc = "told" /\ Same(q, r) /\ q.list = r.list
    BY DEF Made, Request, Label, Same
  <2> HIDE DEF q
  <2>2. Made(q)
    BY <2>1
       DEF Same, Made, Deploying, Early, Relocating, Filling, Dropping, Publishing, Informing, Withdrawing
  <2> QED
    BY <2>1, <2>2 DEF q
<1>11. r.pc = "unlist" => LET q == [r EXCEPT !.row = 0, !.pc = "unlisted"] IN Made(q) /\ q.pc = "unlisted" /\ Same(q, r)
  <2> HAVE r.pc = "unlist"
  <2> DEFINE q == [r EXCEPT !.row = 0, !.pc = "unlisted"]
  <2>1. q \in Request /\ q.pc = "unlisted" /\ Same(q, r) /\ q.list = r.list
    BY DEF Made, Request, Label, Same
  <2> HIDE DEF q
  <2>2. Made(q)
    BY <2>1
       DEF Same, Made, Deploying, Early, Relocating, Filling, Dropping, Publishing, Informing, Withdrawing
  <2> QED
    BY <2>1, <2>2 DEF q
<1>12. r.pc = "remove" => LET q == [r EXCEPT !.pc = "removed"] IN Made(q) /\ q.pc = "removed" /\ Same(q, r)
  <2> HAVE r.pc = "remove"
  <2> DEFINE q == [r EXCEPT !.pc = "removed"]
  <2>1. q \in Request /\ q.pc = "removed" /\ Same(q, r) /\ q.list = r.list
    BY DEF Made, Request, Label, Same
  <2> HIDE DEF q
  <2>2. Made(q)
    BY <2>1
       DEF Same, Made, Deploying, Early, Relocating, Filling, Dropping, Publishing, Informing, Withdrawing
  <2> QED
    BY <2>1, <2>2 DEF q
<1> QED
  BY <1>1, <1>2, <1>3, <1>4, <1>5, <1>6, <1>7, <1>8, <1>9, <1>10, <1>11, <1>12

LEMMA RecountIs ==
  ASSUME TInv, NEW r, Made(r), r.pc = "recount"
  PROVE  LET q == [r EXCEPT !.n = num[r.addr], !.pc = IF r.old = Unborn THEN "count" ELSE "move"] IN
         Made(q) /\ Same(q, r) /\ q.n = num[r.addr] /\ q.pc = IF r.old = Unborn THEN "count" ELSE "move"
<1> DEFINE n == num[r.addr]
           l == IF r.old = Unborn THEN "count" ELSE "move"
           q == [r EXCEPT !.n = n, !.pc = l]
<1>1. n \in Nat /\ l \in Label
  BY PlaceIs, AddressAssumption DEF TInv, Placed, AddressTypeOK, Made, Deploying, Filling, Label
<1> HIDE DEF n, l
<1>2. q \in Request /\ q.pc = l /\ q.n = n /\ Same(q, r) /\ q.list = r.list
  BY <1>1 DEF Made, Request, Same
<1> HIDE DEF q
<1>3. Made(q)
  BY <1>2, Names
     DEF Same, l, Made, Deploying, Early, Relocating, Filling, Dropping, Publishing, Informing, Withdrawing
<1> QED
  BY <1>2, <1>3 DEF q, n, l

LEMMA InfoIs ==
  ASSUME NEW r, Made(r), r.pc = "info", NEW V, V \subseteq Game \X GameVersion
  PROVE  LET q == [r EXCEPT !.found = {<<r.game, r.ver>>} \cap V, !.pc = "version"] IN
         Made(q) /\ Same(q, r) /\ q.pc = "version" /\ q.found = {<<r.game, r.ver>>} \cap V
<1> DEFINE f == {<<r.game, r.ver>>} \cap V
           q == [r EXCEPT !.found = f, !.pc = "version"]
<1>1. f \in SUBSET (Game \X GameVersion) /\ f \subseteq {<<r.game, r.ver>>}
  OBVIOUS
<1> HIDE DEF f
<1>2. q \in Request /\ q.pc = "version" /\ q.found = f /\ Same(q, r)
  BY <1>1 DEF Made, Request, Same, Label
<1> HIDE DEF q
<1>3. Made(q)
  BY <1>1, <1>2
     DEF Same, Made, Deploying, Early, Relocating, Filling, Dropping, Publishing, Informing, Withdrawing
<1> QED
  BY <1>2, <1>3 DEF q, f

(* The requests that were just accepted *)
LEMMA IdleIs == Idle \in Request /\ Idle.addr = Nowhere /\ Idle.old = Nowhere /\ Idle.pc = "idle"
BY IdleMade DEF Made

LEMMA DeployAccepted ==
  ASSUME NEW d \in Device, NEW a \in Address
  PROVE  LET r == [Idle EXCEPT !.kind = "deploy", !.dev = d, !.addr = a]
             q == [r EXCEPT !.pc = "create"]
         IN  /\ r \in Request /\ r.kind = "deploy" /\ r.addr = a /\ r.dev = d
             /\ Made(q) /\ q.kind = "deploy" /\ q.addr = a /\ q.dev = d /\ q.pc = "create" /\ q.old = Nowhere
<1> DEFINE r == [Idle EXCEPT !.kind = "deploy", !.dev = d, !.addr = a]
           q == [r EXCEPT !.pc = "create"]
<1>1. r \in Request /\ r.kind = "deploy" /\ r.addr = a /\ r.dev = d /\ r.old = Nowhere
  <2> HIDE DEF Idle
  <2> QED
    BY IdleIs DEF Request, Kind
<1> HIDE DEF r
<1>2. q \in Request /\ q.kind = "deploy" /\ q.addr = a /\ q.dev = d /\ q.pc = "create" /\ q.old = Nowhere
  BY <1>1 DEF Request, Label
<1> HIDE DEF q
<1>3. Made(q)
  BY <1>2, Names
       DEF Made, Deploying, Early, Relocating, Filling, Dropping, Publishing, Informing, Withdrawing
<1> QED
  BY <1>1, <1>2, <1>3 DEF q, r

LEMMA DropAccepted ==
  ASSUME NEW d \in Device
  PROVE  LET q == [Idle EXCEPT !.kind = "drop", !.dev = d] IN
         q \in Request /\ q.kind = "drop" /\ q.addr = Nowhere /\ q.dev = d /\ q.old = Nowhere
BY IdleIs DEF Request, Kind

LEMMA EraseAccepted ==
  ASSUME NEW a \in Address
  PROVE  LET q == [Idle EXCEPT !.kind = "erase", !.addr = a, !.todo = DevicesAt(a), !.pc = "erase"] IN
         Made(q) /\ q.kind = "erase" /\ q.addr = a /\ q.pc = "erase" /\ q.todo = DevicesAt(a)
<1> PICK D \in SUBSET Device : D = DevicesAt(a)
  BY DEF DevicesAt
<1> DEFINE q == [Idle EXCEPT !.kind = "erase", !.addr = a, !.todo = D, !.pc = "erase"]
<1>1. q \in Request /\ q.kind = "erase" /\ q.addr = a /\ q.pc = "erase" /\ q.todo = D
  BY IdleIs DEF Request, Kind, Label
<1> HIDE DEF q
<1>2. Made(q)
  BY <1>1
       DEF Made, Deploying, Early, Relocating, Filling, Dropping, Publishing, Informing, Withdrawing
<1> QED
  BY <1>1, <1>2 DEF q

LEMMA PublishAccepted ==
  ASSUME TInv, NEW g \in Game, NEW v \in GameVersion
  PROVE  LET q == [Idle EXCEPT !.kind = "publish", !.game = g, !.ver = v,
                               !.row = FirstRow(g), !.pc = "list"] IN
         /\ Made(q) /\ q.kind = "publish" /\ q.game = g /\ q.ver = v
         /\ q.row = FirstRow(g) /\ q.pc = "list"
<1> PICK f \in Nat : f = FirstRow(g)
  BY FirstRowIs
<1> DEFINE q == [Idle EXCEPT !.kind = "publish", !.game = g, !.ver = v, !.row = f, !.pc = "list"]
<1>1. q \in Request /\ q.kind = "publish" /\ q.game = g /\ q.ver = v /\ q.row = f /\ q.pc = "list"
  BY IdleIs DEF Request, Kind, Label
<1> HIDE DEF q
<1>2. Made(q)
  BY <1>1
       DEF Made, Deploying, Early, Relocating, Filling, Dropping, Publishing, Informing, Withdrawing
<1> QED
  BY <1>1, <1>2 DEF q

LEMMA WithdrawAccepted ==
  ASSUME TInv, NEW g \in Game
  PROVE  LET r == [Idle EXCEPT !.kind = "withdraw", !.game = g]
             q == [r EXCEPT !.row = FirstRow(g), !.pc = "unlist"]
         IN  /\ r \in Request /\ r.kind = "withdraw" /\ r.game = g
             /\ Made(q) /\ q.kind = "withdraw" /\ q.game = g /\ q.row = FirstRow(g) /\ q.pc = "unlist"
<1> PICK f \in Nat : f = FirstRow(g)
  BY FirstRowIs
<1> DEFINE r == [Idle EXCEPT !.kind = "withdraw", !.game = g]
           q == [r EXCEPT !.row = f, !.pc = "unlist"]
<1>1. r \in Request /\ r.kind = "withdraw" /\ r.game = g
  BY IdleIs DEF Request, Kind
<1> HIDE DEF r
<1>2. q \in Request /\ q.kind = "withdraw" /\ q.game = g /\ q.row = f /\ q.pc = "unlist"
  BY <1>1 DEF Request, Label
<1> HIDE DEF q
<1>3. Made(q)
  BY <1>2
       DEF Made, Deploying, Early, Relocating, Filling, Dropping, Publishing, Informing, Withdrawing
<1> QED
  BY <1>1, <1>2, <1>3 DEF q, r
-----------------------------------------------------------------------------
LEMMA Untouched ==
  ASSUME TInv
  PROVE  (UNCHANGED addressVars => Placed') /\ (UNCHANGED gameVars => Games')
BY DEF TInv, Placed, AddressTypeOK, Games, addressVars, gameVars

LEMMA MadeIs ==
  ASSUME NEW r, Made(r)
  PROVE  /\ r \in Request /\ r.dev \in Device /\ r.game \in Game /\ r.n \in Nat /\ r.oldNum \in Nat
         /\ r.list \in SUBSET ListEntry /\ r.todo \in SUBSET Device /\ r.n + 1 \in Nat
         /\ r.pc \in Deploying => r.kind = "deploy" /\ r.addr \in Address /\ r.old # r.addr
         /\ r.pc \in Dropping => r.kind = "drop" /\ r.addr = Nowhere
         /\ r.pc = "erase" => r.kind = "erase" /\ r.addr \in Address
         /\ r.pc \in Publishing => r.kind = "publish" /\ r.ver \in GameVersion
         /\ r.pc \in Withdrawing => r.kind = "withdraw"
BY DEF Made, Request

(* A step leaves its request well formed, and the tables *)
Good(p) == Placed' /\ Games' /\ \E q : Made(q) /\ Set(p, q)

LEMMA Ends ==
  ASSUME TInv, NEW p \in Req, UNCHANGED <<addressVars, gameVars>>, Finish(p)
  PROVE  Good(p)
BY Untouched, IdleMade DEF Good, Finish

LEMMA Reads ==
  ASSUME TInv, NEW p \in Req, NEW q, Made(q), Read(p, q)
  PROVE  Good(p)
BY Untouched DEF Good, Read

LEMMA ListIs ==
  ASSUME TInv, NEW r, Made(r)
  PROVE  GameList \in SUBSET ListEntry /\ Rest(r.list) \in SUBSET ListEntry
BY GameListIs, MadeIs DEF Rest

LEMMA AcceptGood ==
  ASSUME TInv, NEW p \in Req, Accept(p)
  PROVE  Good(p)
<1>1. ASSUME NEW d \in Device, NEW a \in Address, Deploy(p, d, a) PROVE Good(p)
  <2> DEFINE r == [Idle EXCEPT !.kind = "deploy", !.dev = d, !.addr = a]
  <2>1. Read(p, IF a \in sites THEN Located(r) ELSE [r EXCEPT !.pc = "create"])
    BY <1>1 DEF Deploy, Begin
  <2>2. r \in Request /\ r.kind = "deploy" /\ r.addr \in Address
    BY DeployAccepted
  <2>3. Made(Located(r))
    <3> HIDE DEF r
    <3> QED
      BY <2>2, LocatedIs, IdleMade
  <2>4. Made([r EXCEPT !.pc = "create"])
    BY DeployAccepted
  <2> QED
    BY <2>1, <2>3, <2>4, Reads
<1>2. ASSUME NEW d \in Device, DropDevice(p, d) PROVE Good(p)
  <2> DEFINE r == [Idle EXCEPT !.kind = "drop", !.dev = d]
  <2>1. Read(p, Undeploying(r, GameList))
    BY <1>2 DEF DropDevice, Begin
  <2>2. r \in Request /\ r.kind = "drop" /\ r.addr = Nowhere
    BY DropAccepted
  <2> HIDE DEF r
  <2>3. Made(Undeploying(r, GameList))
    BY <2>2, UndeployingIs, GameListIs, IdleMade
  <2> QED
    BY <2>1, <2>3, Reads
<1>3. ASSUME NEW a \in Address, DropAddress(p, a) PROVE Good(p)
  BY <1>3, EraseAccepted, Reads DEF DropAddress, Begin
<1>4. ASSUME NEW g \in Game, Withdraw(p, g) PROVE Good(p)
  <2> DEFINE r == [Idle EXCEPT !.kind = "withdraw", !.game = g]
             q == [r EXCEPT !.row = FirstRow(g), !.pc = "unlist"]
  <2>1. Read(p, IF listed[g] = {} THEN Removing(r, Alive) ELSE q)
    BY <1>4 DEF Withdraw, Begin
  <2>2. r \in Request /\ r.kind = "withdraw"
    BY WithdrawAccepted
  <2>3. Made(q)
    BY WithdrawAccepted
  <2>4. Made(Removing(r, Alive))
    <3> HIDE DEF r
    <3> QED
      BY <2>2, RemovingIs, IdleMade DEF Alive
  <2> QED
    BY <2>1, <2>3, <2>4, Reads
<1>5. ASSUME NEW g \in Game, NEW v \in GameVersion, Publish(p, g, v) PROVE Good(p)
  BY <1>5, PublishAccepted, Reads DEF Publish, Begin
<1> QED
  BY <1>1, <1>2, <1>3, <1>4, <1>5 DEF Accept

LEMMA DeployGood ==
  ASSUME TInv, NEW p \in Req, DeployStep(p)
  PROVE  Good(p)
<1> DEFINE r == req[p]
<1>0. Made(r)
  BY DEF TInv, Requests
<1>a. /\ r.dev \in Device /\ r.n + 1 \in Nat
      /\ r.pc \in Deploying => r.addr \in Address /\ r.kind = "deploy"
  BY <1>0, MadeIs
<1>b. UNCHANGED gameVars => Games'
  BY Untouched
<1>1. CASE CreateAddress(p)
  <2>1. r.pc = "create" /\ r.addr \in Address
    BY <1>a, <1>1 DEF CreateAddress, Deploying, Early
  <2>2. CASE r.addr \notin sites
    BY <1>0, <1>a, <1>b, <1>1, <2>1, <2>2, GoesOn, AddressWrites DEF CreateAddress, TryAddress, Good
  <2>3. CASE r.addr \in sites
    BY <1>1, <2>3, Ends DEF CreateAddress, TryAddress
  <2> QED
    BY <2>2, <2>3
<1>2. CASE Look(p)
  <2>1. r \in Request /\ r.kind = "deploy" /\ r.addr \in Address
    BY <1>0, <1>a, <1>2, MadeIs DEF Look, Deploying, Early
  <2>2. Made(Located(r)) /\ Made(Idle)
    BY <2>1, LocatedIs, IdleMade
  <2> QED
    BY <1>2, <2>2, Reads DEF Look
<1>3. CASE CreateDevice(p)
  <2>1. r.pc = "device" /\ r.addr \in Address
    BY <1>a, <1>3 DEF CreateDevice, Deploying
  <2>2. CASE MayInsert(r.dev, r.addr)
    BY <1>0, <1>a, <1>b, <1>3, <2>1, <2>2, GoesOn, AddressWrites DEF CreateDevice, TryAddress, Good
  <2>3. CASE ~MayInsert(r.dev, r.addr)
    BY <1>3, <2>3, Ends DEF CreateDevice, TryAddress
  <2> QED
    BY <2>2, <2>3
<1>4. CASE Uncount(p)
  <2>1. r.pc = "uncount" /\ r.old \in Address /\ r.oldNum - 1 \in Nat
    BY <1>0, <1>4 DEF Uncount, Made, Relocating, Request
  <2>2. CASE r.old \in sites
    BY <1>0, <1>a, <1>b, <1>4, <2>1, <2>2, GoesOn, AddressWrites DEF Uncount, TryAddress, Good
  <2>3. CASE r.old \notin sites
    BY <1>4, <2>3, Ends DEF Uncount, TryAddress
  <2> QED
    BY <2>2, <2>3
<1>5. CASE Recount(p)
  BY <1>0, <1>5, RecountIs, IdleMade, Reads DEF Recount
<1>6. CASE Count(p)
  <2>1. r.pc = "count" /\ r.addr \in Address
    BY <1>a, <1>6 DEF Count, Deploying, Filling
  <2>2. CASE r.addr \in sites
    BY <1>0, <1>a, <1>b, <1>6, <2>1, <2>2, GoesOn, AddressWrites DEF Count, TryAddress, Good
  <2>3. CASE r.addr \notin sites
    BY <1>6, <2>3, Ends DEF Count, TryAddress
  <2> QED
    BY <2>2, <2>3
<1>7. CASE Move(p)
  <2>1. r.pc = "move" /\ r.addr \in Address
    BY <1>a, <1>7 DEF Move, Deploying, Relocating
  <2>2. CASE MayMove(r.dev, r.addr)
    BY <1>0, <1>a, <1>b, <1>7, <2>1, <2>2, GoesOn, AddressWrites DEF Move, TryAddress, Good
  <2>3. CASE ~MayMove(r.dev, r.addr)
    BY <1>7, <2>3, Ends DEF Move, TryAddress
  <2> QED
    BY <2>2, <2>3
<1>8. CASE ListGames(p)
  <2>1. Made(Adding(r, GameList))
    BY <1>0, <1>8, AddingIs, GameListIs, IdleMade DEF ListGames
  <2> QED
    BY <1>8, <2>1, Reads DEF ListGames
<1>9. CASE AddListed(p)
  <2> DEFINE e == First(r.list)
  <2>1. r.pc = "add" /\ r.list # {} /\ r.list \in SUBSET ListEntry
    BY <1>0, <1>9, MadeIs DEF AddListed, Made
  <2>2. e.game \in Game /\ e.ver \in GameVersion
    BY <2>1, FirstIs DEF ListEntry
  <2>3. Placed' /\ Games'
    BY <1>a, <1>9, <2>2, Untouched, GameWrites DEF AddListed
  <2>4. \E q : Made(q) /\ Set(p, q)
    BY <1>0, <1>9, <2>1, GoesOn, IdleMade DEF AddListed, Goto, Finish
  <2> QED
    BY <2>3, <2>4 DEF Good
<1>10. CASE NextListed(p)
  <2>1. Made(Adding(r, Rest(r.list)))
    BY <1>0, <1>10, AddingIs, ListIs, IdleMade DEF NextListed
  <2> QED
    BY <1>10, <2>1, Reads DEF NextListed
<1>11. CASE Record(p)
  <2>1. r.addr \in Address
    BY <1>a, <1>11 DEF Record, Deploying
  <2> QED
    BY <1>a, <1>b, <1>11, <2>1, AddressWrites, IdleMade DEF Record, TryAddress, Good
<1> QED
  BY <1>1, <1>2, <1>3, <1>4, <1>5, <1>6, <1>7, <1>8, <1>9, <1>10, <1>11 DEF DeployStep

LEMMA DropGood ==
  ASSUME TInv, NEW p \in Req, DropStep(p)
  PROVE  Good(p)
<1> DEFINE r == req[p]
<1>0. Made(r)
  BY DEF TInv, Requests
<1>a. /\ r.dev \in Device /\ r.n \in Nat /\ r.todo \in SUBSET Device
      /\ r.list \in SUBSET ListEntry /\ r \in Request
  BY <1>0, MadeIs
<1>1. CASE Undeploy(p)
  <2>1. r.pc = "undeploy" /\ r.list # {}
    BY <1>0, <1>1 DEF Undeploy, Made
  <2>2. First(r.list).game \in Game
    BY <1>a, <2>1, FirstIs DEF ListEntry
  <2>3. Games'
    BY <1>a, <1>1, <2>2, GameDeletes DEF Undeploy
  <2> QED
    BY <1>0, <1>1, <2>1, <2>3, GoesOn, Untouched DEF Undeploy, Goto, Good
<1>2. CASE Undeployed(p)
  <2>1. r.kind = "drop" /\ r.addr = Nowhere
    BY <1>0, <1>2, MadeIs DEF Undeployed, Dropping
  <2>2. Made(Undeploying(r, Rest(r.list)))
    BY <1>0, <1>a, <2>1, UndeployingIs, ListIs, IdleMade
  <2> QED
    BY <1>2, <2>2, Reads DEF Undeployed
<1>3. CASE Drop(p)
  <2>1. CASE MayDelete(r.old, r.n)
    <3>1. DeleteDevice(r.dev, r.old, r.n) /\ Set(p, Idle) /\ UNCHANGED gameVars
      BY <1>3, <2>1 DEF Drop, TryAddress
    <3>2. Placed'
      BY <1>a, <3>1, DropPlaced
    <3> QED
      BY <3>1, <3>2, Untouched, IdleMade DEF Good
  <2>2. CASE ~MayDelete(r.old, r.n)
    BY <1>3, <2>2, Ends DEF Drop, TryAddress
  <2> QED
    BY <2>1, <2>2
<1>4. CASE Erase(p)
  <2>1. r.addr \in Address
    BY <1>0, <1>4, MadeIs DEF Erase
  <2>2. CASE MayErase(r.addr, r.todo)
    <3>1. EraseAddress(r.addr, r.todo) /\ Set(p, Idle) /\ UNCHANGED gameVars
      BY <1>4, <2>2 DEF Erase, TryAddress
    <3>2. Placed'
      BY <1>a, <2>1, <3>1, ErasePlaced
    <3> QED
      BY <3>1, <3>2, Untouched, IdleMade DEF Good
  <2>3. CASE ~MayErase(r.addr, r.todo)
    BY <1>4, <2>3, Ends DEF Erase, TryAddress
  <2> QED
    BY <2>2, <2>3
<1> QED
  BY <1>1, <1>2, <1>3, <1>4 DEF DropStep

LEMMA GameGood ==
  ASSUME TInv, NEW p \in Req, GameStep(p)
  PROVE  Good(p)
<1> DEFINE r == req[p]
<1>0. Made(r)
  BY DEF TInv, Requests
<1>a. /\ r.dev \in Device /\ r.game \in Game /\ r.todo \in SUBSET Device /\ r \in Request
      /\ r.pc \in Publishing => r.kind = "publish" /\ r.ver \in GameVersion
      /\ r.pc \in Withdrawing => r.kind = "withdraw"
  BY <1>0, MadeIs
<1>b. Alive \in SUBSET Device
  BY DEF Alive
<1>c. UNCHANGED addressVars => Placed'
  BY Untouched
<1>d. Made(Idle)
  BY IdleMade
<1>1. CASE UpdateGameList(p)
  <2>1. r.pc = "list" /\ r.ver \in GameVersion
    BY <1>a, <1>1 DEF UpdateGameList, Publishing
  <2>2. CASE r.row = 0
    BY <1>0, <1>a, <1>c, <1>1, <2>1, <2>2, GoesOn, GameWrites DEF UpdateGameList, TryGame, Good
  <2>3. CASE r.row # 0 /\ HasRow(r.game, r.row)
    BY <1>0, <1>a, <1>c, <1>1, <2>1, <2>3, GoesOn, GameWrites DEF UpdateGameList, TryGame, Good
  <2>4. CASE r.row # 0 /\ ~HasRow(r.game, r.row)
    BY <1>1, <2>4, Ends DEF UpdateGameList, TryGame
  <2> QED
    BY <2>2, <2>3, <2>4
<1>2. CASE GetGameInfo(p)
  <2>1. Made([r EXCEPT !.found = {<<r.game, r.ver>>} \cap versions, !.pc = "version"])
    BY <1>0, <1>2, InfoIs DEF GetGameInfo, TInv, Games
  <2> QED
    BY <1>2, <2>1, Reads DEF GetGameInfo
<1>3. CASE SaveVersion(p)
  <2>1. r.pc = "version" /\ r.ver \in GameVersion
    BY <1>a, <1>3 DEF SaveVersion, Publishing
  <2> DEFINE gv == <<r.game, r.ver>>
             q == [r EXCEPT !.found = {}, !.pc = "devices"]
  <2>2. Made(q)
    BY <1>0, <2>1, GoesOn
  <2>3. CASE r.found = {} /\ gv \notin versions
    BY <1>a, <1>c, <1>3, <2>1, <2>2, <2>3, GameWrites DEF SaveVersion, TryGame, Good
  <2>4. CASE r.found # {} /\ gv \in versions
    BY <1>c, <1>3, <2>2, <2>4, Untouched DEF SaveVersion, TryGame, Good
  <2>5. CASE (r.found = {} /\ gv \in versions) \/ (r.found # {} /\ gv \notin versions)
    BY <1>3, <2>5, Ends DEF SaveVersion, TryGame
  <2> QED
    BY <2>3, <2>4, <2>5
<1>4. CASE ListDevices(p)
  <2>1. Made(Telling(r, Alive))
    BY <1>a, <1>b, <1>d, <1>4, TellingIs DEF ListDevices, Publishing, Informing
  <2> QED
    BY <1>4, <2>1, Reads DEF ListDevices
<1>5. CASE Tell(p)
  <2>1. r.pc = "tell" /\ r.ver \in GameVersion
    BY <1>a, <1>5 DEF Tell, Publishing, Informing
  <2>2. CASE MayAddGame(r.dev, r.game, r.seen[r.game])
    BY <1>0, <1>a, <1>c, <1>5, <2>1, <2>2, GoesOn, GameWrites DEF Tell, TryGame, Good
  <2>3. CASE ~MayAddGame(r.dev, r.game, r.seen[r.game])
    BY <1>5, <2>3, Ends DEF Tell, TryGame
  <2> QED
    BY <2>2, <2>3
<1>6. CASE Told(p)
  <2>1. Made(Telling(r, r.todo))
    BY <1>a, <1>d, <1>6, TellingIs DEF Told, Publishing, Informing
  <2> QED
    BY <1>6, <2>1, Reads DEF Told
<1>7. CASE Unlist(p)
  <2>1. Games'
    BY <1>a, <1>7, GameDeletes DEF Unlist, TryGame
  <2> QED
    BY <1>0, <1>c, <1>7, <2>1, GoesOn DEF Unlist, TryGame, Good
<1>8. CASE Unlisted(p)
  <2>1. Made(Removing(r, Alive))
    BY <1>a, <1>b, <1>d, <1>8, RemovingIs DEF Unlisted, Withdrawing
  <2> QED
    BY <1>8, <2>1, Reads DEF Unlisted
<1>9. CASE RemoveGame(p)
  <2>1. Games'
    BY <1>a, <1>9, GameDeletes DEF RemoveGame, TryGame
  <2> QED
    BY <1>0, <1>c, <1>9, <2>1, GoesOn DEF RemoveGame, TryGame, Good
<1>10. CASE Removed(p)
  <2>1. Made(Removing(r, r.todo))
    BY <1>a, <1>d, <1>10, RemovingIs DEF Removed, Withdrawing
  <2> QED
    BY <1>10, <2>1, Reads DEF Removed
<1>11. CASE RemoveVersions(p)
  <2>1. Games'
    BY <1>a, <1>11, GameDeletes DEF RemoveVersions, TryGame
  <2> QED
    BY <1>c, <1>d, <1>11, <2>1 DEF RemoveVersions, TryGame, Good
<1> QED
  BY <1>1, <1>2, <1>3, <1>4, <1>5, <1>6, <1>7, <1>8, <1>9, <1>10, <1>11 DEF GameStep

LEMMA TypeInductive == TInv /\ [Next]_vars => TInv'
<1> SUFFICES ASSUME TInv, [Next]_vars PROVE TInv'
  OBVIOUS
<1>1. ASSUME NEW p \in Req, Good(p), Notes' PROVE TInv'
  <2>1. PICK q : Made(q) /\ req' = [req EXCEPT ![p] = q]
    BY <1>1 DEF Good, Set
  <2>2. Requests'
    <3>1. req \in [Req -> Request] /\ \A o \in Req : Made(req[o])
      BY DEF TInv, Requests
    <3>2. q \in Request
      BY <2>1, MadeIs
    <3>3. req' \in [Req -> Request] /\ \A o \in Req : req'[o] = q \/ req'[o] = req[o]
      BY <2>1, <3>1, <3>2
    <3>4. \A o \in Req : Made(req'[o])
      BY <2>1, <3>1, <3>3
    <3> QED
      BY <3>3, <3>4 DEF Requests, Made, Request
  <2> QED
    BY <1>1, <2>2 DEF TInv, Good
<1>2. CASE UNCHANGED vars
  <2>1. Placed' /\ Games'
    BY <1>2, Untouched DEF vars
  <2>2. Notes'
    BY <1>2 DEF TInv, Notes, vars, history
  <2>3. Requests'
    BY <1>2 DEF TInv, Requests, Made, Request, vars
  <2> QED
    BY <2>1, <2>2, <2>3 DEF TInv
<1>3. \A p \in Req : /\ Devices(p) \subseteq Device /\ Sites(p) \subseteq Address
                     /\ Listed(p) \subseteq Game
  <2> TAKE p \in Req
  <2>1. Made(req[p])
    BY DEF TInv, Requests
  <2> QED
    BY <2>1, MadeIs DEF Devices, Sites, Listed
<1>4. ASSUME NEW p \in Req, Crash(p), raced' = raced \cup Sites(p),
             racedDevices' = racedDevices \cup Devices(p), racedGames' = racedGames \cup Listed(p)
      PROVE  TInv'
  <2>1. Notes'
    BY <1>3, <1>4 DEF TInv, Notes, Crash
  <2>2. Good(p)
    BY <1>4, Ends DEF Crash
  <2> QED
    BY <1>1, <2>1, <2>2
<1>5. ASSUME NEW p \in Req, Accept(p) \/ Serve(p), raced' = raced \cup MeetingSites',
             racedDevices' = racedDevices \cup MeetingDevices', racedGames' = racedGames \cup MeetingGames'
      PROVE  TInv'
  <2>1. Good(p)
    BY <1>5, AcceptGood, DeployGood, DropGood, GameGood DEF Serve
  <2>2. Requests'
    <3>1. PICK q : Made(q) /\ req' = [req EXCEPT ![p] = q]
      BY <2>1 DEF Good, Set
    <3>2. req \in [Req -> Request] /\ \A o \in Req : Made(req[o])
      BY DEF TInv, Requests
    <3>3. q \in Request
      BY <3>1, MadeIs
    <3>4. req' \in [Req -> Request] /\ \A o \in Req : req'[o] = q \/ req'[o] = req[o]
      BY <3>1, <3>2, <3>3
    <3>5. \A o \in Req : Made(req'[o])
      BY <3>1, <3>2, <3>4
    <3> QED
      BY <3>4, <3>5 DEF Requests, Made, Request
  <2>3. \A o \in Req : Devices(o)' \subseteq Device /\ Sites(o)' \subseteq Address /\ Listed(o)' \subseteq Game
    <3> TAKE o \in Req
    <3>1. Made(req'[o])
      BY <2>2 DEF Requests, Made, Request
    <3>2. req'[o].dev \in Device /\ req'[o].todo \in SUBSET Device /\ req'[o].game \in Game
      BY <3>1, MadeIs
    <3> QED
      BY <3>2 DEF Devices, Sites, Listed
  <2>4. started' \in 0..MaxStart
    <3>1. started' = started \/ (started < MaxStart /\ started' = started + 1)
      BY <1>5 DEF Serve, Accept, Begin, Deploy, DropDevice, DropAddress, Withdraw, Publish
    <3> QED
      BY <3>1, BoundAssumption DEF TInv, Notes
  <2>5. raced' \subseteq Address /\ racedDevices' \subseteq Device /\ racedGames' \subseteq Game
    <3>1. MeetingSites' \subseteq Address
      BY <2>3 DEF MeetingSites
    <3>2. MeetingDevices' \subseteq Device
      BY <2>3 DEF MeetingDevices
    <3>3. MeetingGames' \subseteq Game
      BY <2>3 DEF MeetingGames
    <3> QED
      BY <1>5, <3>1, <3>2, <3>3 DEF TInv, Notes
  <2> QED
    BY <1>1, <2>1, <2>4, <2>5 DEF Notes
<1> QED
  BY <1>2, <1>4, <1>5 DEF Next

LEMMA TypeInitially == Init => TInv
<1> SUFFICES ASSUME Init PROVE TInv
  OBVIOUS
<1> USE DEF Init
<1>1. sites = {place[d] : d \in Alive} /\ num = [a \in Address |-> Cardinality(DevicesAt(a))]
      /\ logged = [d \in Device |-> IF d \in Alive THEN place[d] ELSE Nowhere]
  BY DEF Settled
<1>2. \A d \in Alive : place[d] \in Address
  BY DEF Alive
<1>3. \A a \in Address : IsFiniteSet(DevicesAt(a)) /\ Cardinality(DevicesAt(a)) \in Nat
  <2> TAKE a \in Address
  <2>1. DevicesAt(a) \subseteq Device
    BY DEF DevicesAt
  <2> QED
    BY <2>1, AddressAssumption, FS_Subset, FS_CardinalityType
<1>4. AddressTypeOK
  BY <1>1, <1>2, <1>3 DEF AddressTypeOK
<1>5. \A d \in Device : place[d] \in Address => place[d] \in sites
  BY <1>1, Names DEF Alive
<1>6. \A a \in Address \ sites : DevicesAt(a) = {}
  BY <1>5 DEF DevicesAt
<1>7. Placed
  BY <1>1, <1>4, <1>5, <1>6, FS_EmptySet DEF Placed
<1>8. Games
  <2>1. lastId \in Nat
    BY GameAssumption, FS_CardinalityType
  <2>2. PICK pub \in [Game -> GameVersion \cup {NoVersion}], id \in Injection(Game, 1..lastId) :
          /\ listed = [g \in Game |-> {[id |-> id[g], ver |-> v] : v \in {pub[g]} \ {NoVersion}}]
          /\ games = [d \in Device |-> IF place[d] = Unborn THEN NoGames ELSE pub]
    OBVIOUS
  <2>3. id \in [Game -> Nat \ {0}]
    BY <2>1, <2>2 DEF Injection
  <2>4. listed \in [Game -> SUBSET ListRow] /\ \A g \in Game : \A r \in listed[g] : r.id # 0 /\ r.ver \in GameVersion
    BY <2>2, <2>3 DEF ListRow
  <2>5. games \in [Device -> [Game -> GameVersion \cup {NoVersion}]]
    BY <2>2 DEF NoGames
  <2>6. versions \subseteq Game \X GameVersion
    BY <2>4 DEF Settled
  <2> QED
    BY <2>1, <2>4, <2>5, <2>6 DEF Games
<1>9. Requests
  BY IdleMade, MadeIs DEF Requests
<1> QED
  BY <1>7, <1>8, <1>9, BoundAssumption DEF TInv, Notes

(* Every variable keeps its type (address.device_num, device.address_id,   *)
(* the game tables, what each request has in hand), for every set of       *)
(* devices, addresses, games and requests.                                 *)
THEOREM FleetTypeOK == Spec => []TypeOK
<1>1. TInv => TypeOK
  BY DEF TInv, Placed, Games, Requests, Notes, TypeOK
<1> QED
  BY <1>1, TypeInitially, TypeInductive, PTL DEF Spec
-----------------------------------------------------------------------------
(* What a request has in hand *)

LEMMA MovingHas ==
  ASSUME NEW p \in Req, Moving(p)
  PROVE  /\ Devices(p) = {req[p].dev}
         /\ Sites(p) = {req[p].addr, req[p].old, place[req[p].dev]} \cap Address
BY DEF Devices, Named, Sites

LEMMA ErasingHas ==
  ASSUME NEW p \in Req, req[p].pc = "erase", req[p].kind = "erase"
  PROVE  /\ Devices(p) = req[p].todo
         /\ Sites(p) = ({req[p].addr} \cup {place[d] : d \in req[p].todo}) \cap Address
BY DEF Devices, Named, Sites, Moving

LEMMA IdleHas ==
  ASSUME NEW p \in Req, req[p].pc = "idle" \/ Listing(p)
  PROVE  Devices(p) = {} /\ Sites(p) = {} /\ ~Moving(p)
BY DEF Devices, Named, Sites, Moving, Listing

LEMMA IdleListsNone == ASSUME NEW p \in Req, req[p].pc = "idle" PROVE Listed(p) = {} /\ ~Listing(p)
BY DEF Listed, Listing

LEMMA MovingIs ==
  ASSUME TInv, NEW p \in Req
  PROVE  /\ req[p].pc \in Deploying \cup Dropping => Moving(p)
         /\ req[p].pc \in Publishing \cup Withdrawing => Listing(p)
<1>1. Made(req[p])
  BY DEF TInv, Requests
<1> QED
  BY <1>1, MadeIs DEF Moving, Listing, Deploying, Early, Relocating, Filling, Dropping,
                      Publishing, Informing, Withdrawing

(* A step of p reaches only what p has in hand *)
Frame(p) ==
    /\ \A d \in Device : \/ place'[d] = place[d]
                         \/ d \in Devices(p) /\ place'[d] \in Sites(p) \cup {Gone, Nowhere}
    /\ \A a \in sites : a \in sites' \/ a \in Sites(p)
    /\ \A a \in Address : num'[a] = num[a] \/ a \in Sites(p)

Alone(p) ==
    /\ \A o \in Req \ {p} : req'[o] = req[o]
    /\ raced \subseteq raced'
    /\ racedDevices \subseteq racedDevices'

LEMMA Framed ==
  ASSUME TInv, NEW p \in Req, Accept(p) \/ Serve(p) \/ Crash(p)
  PROVE  Frame(p)
<1> DEFINE r == req[p]
<1>0. Made(r)
  BY DEF TInv, Requests
<1>a. /\ r.dev \in Device /\ r.todo \in SUBSET Device
      /\ r.pc \in Deploying => Moving(p) /\ r.addr \in Address
      /\ r.pc \in Dropping => Moving(p)
  BY <1>0, MadeIs, MovingIs
<1>b. Moving(p) => /\ Devices(p) = {r.dev} 
                   /\ Sites(p) = {r.addr, r.old, place[r.dev]} \cap Address
  BY MovingHas
<1>c. AddressTypeOK
  BY DEF TInv, Placed
<1>1. CASE UNCHANGED addressVars
  BY <1>1 DEF addressVars, Frame
<1>2. CASE Accept(p) \/ Crash(p) \/ GameStep(p)
  BY <1>1, <1>2 DEF Accept, Crash, Deploy, DropDevice, DropAddress, Withdraw, Publish, Begin, Read,
       GameStep, UpdateGameList, GetGameInfo, SaveVersion, ListDevices, Tell, Told, Unlist, Unlisted,
       RemoveGame, Removed, RemoveVersions, TryGame
<1>3. CASE DeployStep(p)
  <2>1. CASE \/ Look(p) \/ Recount(p) \/ ListGames(p) \/ AddListed(p) \/ NextListed(p)
    BY <1>1, <2>1 DEF Look, Recount, ListGames, AddListed, NextListed, Read
  <2>2. CASE CreateAddress(p) /\ ~UNCHANGED addressVars
    <3>1. r.pc \in Deploying /\ InsertAddress(r.addr)
      BY <2>2 DEF CreateAddress, TryAddress, Deploying, Early
    <3> QED
      BY <1>a, <1>b, <1>c, <3>1 DEF InsertAddress, Frame, AddressTypeOK
  <2>3. CASE CreateDevice(p) /\ ~UNCHANGED addressVars
    <3>1. r.pc \in Deploying /\ InsertDevice(r.dev, r.addr)
      BY <2>3 DEF CreateDevice, TryAddress, Deploying
    <3> QED
      BY <1>a, <1>b, <1>c, <3>1 DEF InsertDevice, MayInsert, Frame, AddressTypeOK
  <2>4. CASE Uncount(p) /\ ~UNCHANGED addressVars
    <3>1. r.pc \in Deploying /\ SaveNum(r.old, r.oldNum - 1)
      BY <2>4 DEF Uncount, TryAddress, Deploying, Relocating
    <3> QED
      BY <1>a, <1>b, <1>c, <3>1 DEF SaveNum, Frame, AddressTypeOK
  <2>5. CASE Count(p) /\ ~UNCHANGED addressVars
    <3>1. r.pc \in Deploying /\ SaveNum(r.addr, r.n + 1)
      BY <2>5 DEF Count, TryAddress, Deploying, Filling
    <3> QED
      BY <1>a, <1>b, <1>c, <3>1 DEF SaveNum, Frame, AddressTypeOK
  <2>6. CASE Move(p) /\ ~UNCHANGED addressVars
    <3>1. r.pc \in Deploying /\ MoveDevice(r.dev, r.addr, r.n + 1)
      BY <2>6 DEF Move, TryAddress, Deploying, Relocating
    <3> QED
      BY <1>a, <1>b, <1>c, <3>1 DEF MoveDevice, Frame, AddressTypeOK
  <2>7. CASE Record(p) /\ ~UNCHANGED addressVars
    BY <2>7 DEF Record, TryAddress, InsertDeploy, Frame
  <2> QED
    BY <1>1, <1>3, <2>1, <2>2, <2>3, <2>4, <2>5, <2>6, <2>7 DEF DeployStep
<1>4. CASE DropStep(p)
  <2>1. CASE Undeploy(p) \/ Undeployed(p)
    BY <1>1, <2>1 DEF Undeploy, Undeployed, Read
  <2>2. CASE Drop(p) /\ ~UNCHANGED addressVars
    <3>1. r.pc \in Dropping /\ DeleteDevice(r.dev, r.old, r.n)
      BY <2>2 DEF Drop, TryAddress, Dropping
    <3> QED
      BY <1>a, <1>b, <1>c, <3>1 DEF DeleteDevice, MayDelete, Frame, AddressTypeOK
  <2>3. CASE Erase(p) /\ ~UNCHANGED addressVars
    <3>1. r.pc = "erase" /\ r.kind = "erase" /\ r.addr \in Address /\ EraseAddress(r.addr, r.todo)
      BY <1>0, <2>3, MadeIs DEF Erase, TryAddress
    <3>2. Devices(p) = r.todo /\ r.addr \in Sites(p)
      BY <3>1, ErasingHas
    <3> QED
      BY <1>a, <1>c, <3>1, <3>2 DEF EraseAddress, Frame, AddressTypeOK
  <2> QED
    BY <1>1, <1>4, <2>1, <2>2, <2>3 DEF DropStep
<1> QED
  BY <1>2, <1>3, <1>4 DEF Serve

LEMMA OthersWait ==
  ASSUME TInv, NEW p \in Req, Accept(p) \/ Serve(p) \/ Crash(p)
  PROVE  /\ \A o \in Req \ {p} : req'[o] = req[o]
         /\ \E q : Made(q) /\ req'[p] = q
<1>1. Good(p)
  BY AcceptGood, DeployGood, DropGood, GameGood, Ends DEF Serve, Crash
<1> QED
  BY <1>1 DEF Good, Set, TInv, Requests

LEMMA CrashIdles == TInv => \A p \in Req : Crash(p) => req'[p] = Idle
BY DEF TInv, Requests, Crash, Finish, Set

(* The notes are those of the state a step leads to *)
LEMMA MetKept ==
  ASSUME TInv, Met, [Next]_vars
  PROVE  Met'
<1>1. CASE UNCHANGED vars
  <2>1. req' = req /\ place' = place /\ UNCHANGED history
    BY <1>1 DEF vars, addressVars
  <2>2. \A o \in Req : /\ Sites(o)' = Sites(o) /\ Devices(o)' = Devices(o) /\ Listed(o)' = Listed(o)
                       /\ Moving(o)' = Moving(o) /\ Listing(o)' = Listing(o)
    BY <2>1 DEF Sites, Devices, Named, Listed, Moving, Listing
  <2> QED
    BY <2>1, <2>2 DEF Met, history, SharesSites, SharesGames
<1>2. ASSUME NEW p \in Req, Crash(p), raced' = raced \cup Sites(p),
             racedDevices' = racedDevices \cup Devices(p), racedGames' = racedGames \cup Listed(p)
      PROVE  Met'
  <2>1. \A o \in Req \ {p} : req'[o] = req[o]
    BY <1>2, OthersWait
  <2>2. place' = place /\ req'[p].pc = "idle"
    BY <1>2, CrashIdles, IdleMade DEF Crash, addressVars
  <2>3. \A o \in Req \ {p} : /\ Sites(o)' = Sites(o) /\ Devices(o)' = Devices(o) /\ Listed(o)' = Listed(o)
                             /\ Moving(o)' = Moving(o) /\ Listing(o)' = Listing(o)
    BY <2>1, <2>2 DEF Sites, Devices, Named, Listed, Moving, Listing
  <2>4. Sites(p)' = {} /\ Devices(p)' = {} /\ Listed(p)' = {} /\ ~Moving(p)' /\ ~Listing(p)'
    BY <2>2 DEF Sites, Devices, Named, Listed, Moving, Listing
  <2> SUFFICES ASSUME NEW o \in Req, NEW q \in Req \ {o}
               PROVE  (/\ SharesSites(o, q) => Sites(o) \subseteq raced
                       /\ Devices(o) \cap Devices(q) \subseteq racedDevices
                       /\ Moving(o) /\ Listing(q) => req[o].dev \in racedDevices
                       /\ SharesGames(o, q) => Listed(o) \subseteq racedGames)'
    BY DEF Met
  <2>5. CASE o = p \/ q = p
    BY <2>4, <2>5 DEF SharesSites, SharesGames
  <2>6. CASE o # p /\ q # p
    <3>1. /\ SharesSites(o, q) => Sites(o) \subseteq raced
          /\ Devices(o) \cap Devices(q) \subseteq racedDevices
          /\ Moving(o) /\ Listing(q) => req[o].dev \in racedDevices
          /\ SharesGames(o, q) => Listed(o) \subseteq racedGames
      BY DEF Met
    <3> QED
      BY <1>2, <2>1, <2>3, <2>6, <3>1 DEF SharesSites, SharesGames
  <2> QED
    BY <2>5, <2>6
<1>3. ASSUME raced' = raced \cup MeetingSites', racedDevices' = racedDevices \cup MeetingDevices',
             racedGames' = racedGames \cup MeetingGames'
      PROVE  Met'
  <2> SUFFICES ASSUME NEW o \in Req, NEW q \in Req \ {o}
               PROVE  (/\ SharesSites(o, q) => Sites(o) \subseteq raced
                       /\ Devices(o) \cap Devices(q) \subseteq racedDevices
                       /\ Moving(o) /\ Listing(q) => req[o].dev \in racedDevices
                       /\ SharesGames(o, q) => Listed(o) \subseteq racedGames)'
    BY DEF Met
  <2>1. SharesSites(o, q)' => Sites(o)' \subseteq MeetingSites'
    BY DEF MeetingSites, Others
  <2>2. SharesGames(o, q)' => Listed(o)' \subseteq MeetingGames'
    BY DEF MeetingGames, Others
  <2>3. \A d \in Devices(o)' : d \in Devices(q)' \/ (Moving(o)' /\ Listing(q)') => d \in MeetingDevices'
    BY DEF MeetingDevices, Others
  <2>4. Moving(o)' => req'[o].dev \in Devices(o)'
    BY DEF Devices
  <2> QED
    BY <1>3, <2>1, <2>2, <2>3, <2>4
<1> QED
  BY <1>1, <1>2, <1>3 DEF Next
-----------------------------------------------------------------------------
(* What a step of p does to the others *)

Stepped(p) == CInv /\ TInv' /\ Met' /\ Frame(p) /\ Alone(p)

LEMMA OthersSites ==
  ASSUME NEW p \in Req, Stepped(p), NEW o \in Req \ {p}
  PROVE  /\ Devices(o)' = Devices(o)
         /\ Devices(o) \cap Devices(p) = {} => Sites(o)' = Sites(o)
         /\ Devices(o) \cap Devices(p) # {} => /\ Sites(o) \cup Sites(p) \subseteq raced
                                              /\ Sites(o)' \subseteq raced
<1>1. req'[o] = req[o]
  BY DEF Stepped, Alone
<1>2. Devices(o)' = Devices(o) /\ Named(o)' = Named(o)
  BY <1>1 DEF Devices, Named, Moving
<1>3. Devices(o) \subseteq Device
  <2>1. Made(req[o])
    BY DEF Stepped, CInv, TInv, Requests
  <2> QED
    BY <2>1, MadeIs DEF Devices
<1>4. \A d \in Devices(o) : \/ place'[d] = place[d]
                            \/ d \in Devices(p) /\ place'[d] \in Sites(p) \cup {Gone, Nowhere}
  BY <1>3 DEF Stepped, Frame
<1>5. CASE Devices(o) \cap Devices(p) = {}
  BY <1>2, <1>4, <1>5 DEF Sites
<1>6. CASE Devices(o) \cap Devices(p) # {}
  <2>1. Sites(o) \subseteq raced /\ Sites(p) \subseteq raced
    BY <1>6 DEF Stepped, CInv, Met, SharesSites
  <2>2. \A d \in Devices(o) : place'[d] \in Address => place'[d] \in Sites(o) \cup Sites(p)
    BY <1>4, Names DEF Sites
  <2>3. Sites(o)' \subseteq Sites(o) \cup Sites(p)
    BY <1>2, <2>2 DEF Sites
  <2> QED
    BY <1>2, <1>6, <2>1, <2>3
<1> QED
  BY <1>2, <1>5, <1>6

LEMMA OthersKept ==
  ASSUME NEW p \in Req, Stepped(p), NEW o \in Req \ {p}
  PROVE  (Sure(o) /\ Counted(o) /\ Doomed(o))'
<1> DEFINE r == req[o]
<1>1. req'[o] = r
  BY DEF Stepped, Alone
<1>2. /\ raced \subseteq raced' /\ racedDevices \subseteq racedDevices'
      /\ Sure(o) /\ Counted(o) /\ Doomed(o)
  BY DEF Stepped, Alone, CInv
<1>3. /\ Made(r) /\ r.dev \in Device
  BY MadeIs DEF Stepped, CInv, TInv, Requests
<1>4. \/ Sites(o) \subseteq raced /\ Sites(o)' \subseteq raced
      \/ Devices(o) \cap Devices(p) = {} /\ Sites(o)' = Sites(o) /\ Sites(o) \cap Sites(p) = {}
  <2>1. SharesSites(o, p) => Sites(o) \subseteq raced
    BY DEF Stepped, CInv, Met
  <2> QED
    BY <2>1, OthersSites DEF SharesSites
<1>5. Devices(o) \cap Devices(p) \subseteq racedDevices
  BY DEF Stepped, CInv, Met
<1>6. r.pc \in Deploying \cup Dropping => /\ Moving(o) /\ Devices(o) = {r.dev}
                                          /\ Sites(o) = {r.addr, r.old, place[r.dev]} \cap Address
  BY MovingIs, MovingHas DEF Stepped, CInv
<1>7. r.dev \in Devices(o) \ Devices(p) => place'[r.dev] = place[r.dev]
  BY <1>3 DEF Stepped, Frame
<1>8. Moving(o)' = Moving(o) /\ (Moving(o) => r.dev \in Devices(o))
  BY <1>1 DEF Moving, Devices
<1>9. Where(r) /\ (r.dev \in Devices(o) \ Devices(p) \/ r.pc \notin Deploying \cup Dropping) => Where(r)'
  BY <1>1, <1>7 DEF Where, Deploying, Relocating, Filling, Dropping
<1>10. Sure(o)'
  <2>1. (Sites(o) \subseteq raced \/ Where(req[o]))'
    <3>1. CASE Sites(o)' \subseteq raced
      BY <1>2, <3>1
    <3>2. CASE ~(Sites(o)' \subseteq raced)
      <4>1. Where(r) /\ Devices(o) \cap Devices(p) = {}
        BY <1>2, <1>4, <3>2 DEF Sure
      <4>2. Where(r)'
        BY <1>6, <1>9, <4>1
      <4> QED
        BY <1>1, <4>2
    <3> QED
      BY <3>1, <3>2
  <2>2. (Moving(o) /\ req[o].dev \notin racedDevices => Where(req[o]))'
    <3> SUFFICES ASSUME Moving(o)', r.dev \notin racedDevices' PROVE Where(r)'
      BY <1>1
    <3>1. r.dev \in Devices(o) \ Devices(p) /\ Where(r)
      BY <1>2, <1>5, <1>8 DEF Sure
    <3> QED
      BY <1>9, <3>1
  <2>3. (req[o].pc \in Deploying \ Early => Sites(o) \subseteq raced \/ req[o].addr \in sites)'
    <3> SUFFICES ASSUME r.pc \in Deploying \ Early, ~(Sites(o)' \subseteq raced') PROVE r.addr \in sites'
      BY <1>1
    <3>1. r.addr \in sites /\ Sites(o) \cap Sites(p) = {}
      BY <1>2, <1>4 DEF Sure
    <3>2. r.addr \in Sites(o)
      BY <1>3, <1>6, MadeIs
    <3> QED
      BY <3>1, <3>2 DEF Stepped, Frame
  <2> QED
    BY <2>1, <2>2, <2>3 DEF Sure
<1>11. Counted(o)'
  <2>1. \A a \in Address \ raced' : a \in Sites(o) => num'[a] = num[a] /\ a \notin raced
    BY <1>2, <1>4 DEF Stepped, Frame
  <2>2. r.pc \in {"uncount", "count", "move", "drop"} => Sites(o) = {r.addr, r.old, place[r.dev]} \cap Address
    BY <1>6 DEF Deploying, Relocating, Filling, Dropping
  <2>3. r.pc \in {"uncount", "count", "move"} => r.addr \in Address
    BY <1>3, MadeIs DEF Deploying, Relocating, Filling
  <2>4. r.pc = "uncount" => r.old \in Address
    BY <1>3 DEF Made, Relocating
  <2> QED
    BY <1>1, <1>2, <2>1, <2>2, <2>3, <2>4 DEF Counted
<1>12. Doomed(o)'
  <2> SUFFICES ASSUME r.pc = "erase", NEW d \in r.todo
               PROVE  place'[d] \in {Nowhere, Gone} \cup raced'
    BY <1>1 DEF Doomed
  <2>1. Devices(o) = r.todo /\ d \in Device
    BY <1>3, ErasingHas, MadeIs
  <2>2. place'[d] = place[d] \/ (d \in Devices(p) /\ place'[d] \in Sites(p) \cup {Gone, Nowhere})
    BY <2>1 DEF Stepped, Frame
  <2>3. d \in Devices(p) => Sites(p) \subseteq raced
    BY <2>1, OthersSites
  <2> QED
    BY <1>2, <2>2, <2>3 DEF Doomed
<1> QED
  BY <1>10, <1>11, <1>12

(* Of an address that p has in hand and nobody else, p alone may owe the count *)
Own(p, a) == Cardinality(DevicesAt(a)) = IF Owes(p, a) THEN num[a] + 1 ELSE num[a]

LEMMA OwesHas ==
  ASSUME TInv, NEW p \in Req, NEW a \in Address, Owes(p, a)
  PROVE  a \in Sites(p)
BY MovingIs, MovingHas DEF Owes, Deploying, Filling, Relocating

LEMMA Lone ==
  ASSUME NEW p \in Req, Stepped(p), NEW a \in Address \ raced', a \in Sites(p) \/ a \in Sites(p)',
         NEW o \in Req \ {p}
  PROVE  ~Owes(o, a) /\ ~Owes(o, a)'
<1>1. req'[o] = req[o] /\ a \notin raced
  BY DEF Stepped, Alone
<1>2. ASSUME Owes(o, a) PROVE a \in Sites(o)
  BY <1>2, OwesHas DEF Stepped, CInv
<1>3. ASSUME Owes(o, a)' PROVE a \in Sites(o)' /\ req[o].dev \in Devices(o)
  <2>1. Moving(o)
    BY <1>1, <1>3, MovingIs DEF Owes, Deploying, Filling, Relocating, Stepped, CInv
  <2> QED
    BY <1>1, <1>3, <2>1 DEF Owes, Sites, Devices, Moving
<1>4. ASSUME Owes(o, a), a \in Sites(p) PROVE FALSE
  BY <1>1, <1>2, <1>4 DEF Stepped, CInv, Met, SharesSites
<1>5. ASSUME Owes(o, a)', a \in Sites(p)' PROVE FALSE
  BY <1>3, <1>5 DEF Stepped, Met, SharesSites
<1>6. req[o].dev \in Device
  BY MadeIs DEF Stepped, CInv, TInv, Requests
<1>7. ASSUME Owes(o, a)', a \in Sites(p), ~Owes(o, a) PROVE FALSE
  <2>1. place'[req[o].dev] # place[req[o].dev]
    BY <1>1, <1>7 DEF Owes
  <2>2. req[o].dev \in Devices(p)
    BY <1>6, <2>1 DEF Stepped, Frame
  <2> QED
    BY <1>1, <1>3, <1>7, <2>2, OthersSites
<1>8. ASSUME Owes(o, a), a \in Sites(p)', a \notin Sites(p), ~Owes(o, a)' PROVE FALSE
  <2>1. place'[req[o].dev] # place[req[o].dev] /\ place[req[o].dev] = a
    BY <1>1, <1>8 DEF Owes
  <2>2. req[o].dev \in Devices(p)
    BY <1>6, <2>1 DEF Stepped, Frame
  <2>3. a \in Sites(p)
    BY <2>1, <2>2 DEF Sites
  <2> QED
    BY <1>8, <2>3
<1> QED
  BY <1>4, <1>5, <1>7, <1>8

LEMMA OwnBalance ==
  ASSUME NEW p \in Req, Stepped(p), NEW a \in Address \ raced', a \in Sites(p) \/ a \in Sites(p)'
  PROVE  Own(p, a) /\ (Own(p, a)' => Balance(a)')
<1>1. Balance(a)
  BY DEF Stepped, CInv, Alone
<1>2. (\E o \in Req : Owes(o, a)) <=> Owes(p, a)
  BY Lone
<1>3. (\E o \in Req : Owes(o, a)') <=> Owes(p, a)'
  BY Lone
<1> QED
  BY <1>1, <1>2, <1>3 DEF Balance, Own

(* An address p does not have in hand is as it was *)
LEMMA FarBalance ==
  ASSUME NEW p \in Req, Stepped(p), NEW a \in Address \ raced', a \notin Sites(p), a \notin Sites(p)'
  PROVE  Balance(a)'
<1>1. Balance(a)
  BY DEF Stepped, CInv, Alone
<1>2. \A d \in Device : place'[d] = a <=> place[d] = a
  <2> TAKE d \in Device
  <2>1. d \in Devices(p) => place[d] # a
    BY DEF Sites
  <2> QED
    BY <2>1, Names DEF Stepped, Frame
<1>3. DevicesAt(a)' = DevicesAt(a)
  BY <1>2 DEF DevicesAt
<1>4. num'[a] = num[a]
  BY DEF Stepped, Frame
<1>5. \A o \in Req : Owes(o, a)' <=> Owes(o, a)
  <2> TAKE o \in Req
  <2>1. CASE o # p
    <3>1. req'[o] = req[o] /\ req[o].dev \in Device
      BY <2>1, MadeIs DEF Stepped, Alone, CInv, TInv, Requests
    <3> QED
      BY <1>2, <3>1 DEF Owes
  <2>2. CASE o = p
    <3>1. ~Owes(p, a)
      BY OwesHas DEF Stepped, CInv
    <3>2. ~Owes(p, a)'
      <4> SUFFICES ASSUME Owes(p, a)' PROVE FALSE
        OBVIOUS
      <4>1. Made(req'[p])
        BY DEF Stepped, TInv, Requests, Made, Request
      <4>2. Moving(p)'
        BY <4>1, MadeIs DEF Owes, Moving, Deploying, Filling, Relocating
      <4> QED
        BY <4>2 DEF Owes, Sites, Devices
    <3> QED
      BY <2>2, <3>1, <3>2
  <2> QED
    BY <2>1, <2>2
<1> QED
  BY <1>1, <1>3, <1>4, <1>5 DEF Balance
-----------------------------------------------------------------------------
(* What a step of p does to p *)

Kept(p) ==
    /\ (Sure(p) /\ Counted(p) /\ Doomed(p))'
    /\ \A a \in Address \ raced' : Own(p, a) => Own(p, a)'

Owing == {"recount", "count", "move"}

LEMMA Joins ==
  ASSUME NEW D \in SUBSET Device, NEW d \in Device \ D
  PROVE  Cardinality(D \cup {d}) = Cardinality(D) + 1 /\ Cardinality(D) \in Nat
BY AddressAssumption, FS_Subset, FS_AddElement, FS_CardinalityType

LEMMA Leaves ==
  ASSUME NEW D \in SUBSET Device, NEW d \in D
  PROVE  Cardinality(D \ {d}) = Cardinality(D) - 1 /\ Cardinality(D) \in Nat \ {0}
<1>1. IsFiniteSet(D)
  BY AddressAssumption, FS_Subset
<1>2. Cardinality(D) \in Nat /\ Cardinality(D \ {d}) = Cardinality(D) - 1
  BY <1>1, FS_RemoveElement, FS_CardinalityType
<1>3. Cardinality(D) # 0
  BY <1>1, FS_EmptySet
<1> QED
  BY <1>2, <1>3

(* A request that is not about a device has nothing to be right about *)
LEMMA Carefree ==
  ASSUME NEW p \in Req, NEW q, req'[p] = q, q.pc \notin Deploying \cup Dropping \cup {"erase"},
         ~Moving(p)'
  PROVE  (Sure(p) /\ Counted(p) /\ Doomed(p))' /\ \A a \in Address : ~Owes(p, a)'
<1>1. Where(q)'
  BY DEF Where, Deploying, Relocating, Filling, Dropping
<1> QED
  BY <1>1 DEF Sure, Counted, Doomed, Owes, Deploying, Relocating, Filling, Dropping

LEMMA Quits ==
  ASSUME NEW p \in Req, Stepped(p), req'[p] = Idle, UNCHANGED addressVars,
         Sites(p) \subseteq raced \/ req[p].pc \notin Owing
  PROVE  Kept(p)
<1>1. ~Moving(p)' /\ Idle.pc = "idle"
  BY IdleMade DEF Moving
<1>2. (Sure(p) /\ Counted(p) /\ Doomed(p))' /\ \A a \in Address : ~Owes(p, a)'
  BY <1>1, Carefree DEF Deploying, Early, Relocating, Filling, Dropping
<1>3. \A a \in Address \ raced' : ~Owes(p, a)
  BY OwesHas DEF Stepped, Alone, CInv, Owes, Owing
<1>4. \A a \in Address : DevicesAt(a)' = DevicesAt(a) /\ num'[a] = num[a]
  BY DEF DevicesAt, addressVars
<1> QED
  BY <1>2, <1>3, <1>4 DEF Kept, Own

(* Nothing is owed and the counts stay *)
LEMMA Onward ==
  ASSUME NEW p \in Req, Stepped(p), UNCHANGED <<place, num>>,
         req[p].pc \notin Owing, req'[p].pc \notin Owing
  PROVE  \A a \in Address \ raced' : Own(p, a) => Own(p, a)'
BY DEF Own, Owes, Owing, DevicesAt

LEMMA Knows ==
  ASSUME CInv, NEW p \in Req
  PROVE  LET r == req[p] IN
         /\ Made(r) /\ r.dev \in Device /\ place[r.dev] \in Address \cup {Unborn, Gone, Nowhere}
         /\ r.pc \in Deploying \cup Dropping =>
              /\ Moving(p) /\ Devices(p) = {r.dev}
              /\ Sites(p) = {r.addr, r.old, place[r.dev]} \cap Address
              /\ Where(r) \/ Sites(p) \subseteq raced
         /\ r.pc \in Deploying => r.kind = "deploy" /\ r.addr \in Address /\ r.addr \in Sites(p)
         /\ r.pc \in Deploying \ Early => r.addr \in sites \/ Sites(p) \subseteq raced
<1>1. Made(req[p])
  BY DEF CInv, TInv, Requests
<1>2. Sure(p) /\ TInv
  BY DEF CInv
<1> QED
  BY <1>1, <1>2, MadeIs, MovingIs, MovingHas, PlaceIs DEF Sure

(* The count of an address without devices *)
LEMMA Empty ==
  ASSUME TInv, NEW p \in Req, NEW a \in Address, Own(p, a), ~Owes(p, a), num[a] = 0
  PROVE  DevicesAt(a) = {}
<1>1. DevicesAt(a) \in SUBSET Device /\ Cardinality(DevicesAt(a)) = 0
  BY DEF Own, DevicesAt
<1> QED
  BY <1>1, Leaves

(* The branch deploy_device takes: nothing is owed, unless the address is raced *)
LEMMA LocatedKept ==
  ASSUME NEW p \in Req, Stepped(p), NEW r \in Request, r.kind = "deploy", r.addr \in sites,
         req[p].pc \notin Owing, req'[p] = Located(r), UNCHANGED addressVars
  PROVE  Kept(p)
<1> PICK q : q = Located(r)
  OBVIOUS
<1>0. r.addr \in Address /\ r.dev \in Device
  BY DEF Stepped, CInv, TInv, Placed, AddressTypeOK, Request
<1>1. CASE q = Idle
  BY <1>1, Quits
<1>2. CASE q # Idle
  <2>1. /\ Made(q) /\ q.kind = "deploy" /\ q.dev = r.dev /\ q.addr = r.addr
        /\ q.old = place[r.dev] /\ q.n = num[r.addr]
        /\ q.old \in Address => q.oldNum = num[q.old]
        /\ \/ q.pc = "device" /\ q.old = Unborn
           \/ q.pc = "uncount" /\ q.old \in Address
           \/ q.pc = "move" /\ q.old \in Address /\ num[q.old] = 0
    BY <1>0, <1>2, LocatedIs DEF Stepped, CInv
  <2>2. place' = place /\ num' = num /\ sites' = sites
    BY DEF addressVars
  <2>3. Where(q)'
    BY <2>1, <2>2 DEF Where, Relocating, Filling
  <2>4. Sure(p)'
    BY <2>1, <2>2, <2>3 DEF Sure
  <2>5. Counted(p)' /\ Doomed(p)'
    BY <2>1, <2>2 DEF Counted, Doomed
  <2>6. ASSUME NEW a \in Address \ raced', Own(p, a) PROVE Own(p, a)'
    <3>1. ~Owes(p, a)
      BY DEF Owes, Owing
    <3>2. ~Owes(p, a)'
      <4> SUFFICES ASSUME Owes(p, a)' PROVE FALSE
        OBVIOUS
      <4>1. q.pc = "move" /\ place[r.dev] = a /\ num[a] = 0
        BY <2>1, <2>2 DEF Owes
      <4>2. DevicesAt(a) = {}
        BY <2>6, <3>1, <4>1, Empty DEF Stepped, CInv
      <4> QED
        BY <1>0, <4>1, <4>2 DEF DevicesAt
    <3> QED
      BY <2>2, <2>6, <3>1, <3>2 DEF Own, DevicesAt
  <2> QED
    BY <2>4, <2>5, <2>6 DEF Kept
<1> QED
  BY <1>1, <1>2

(* Neither do requests for a game, whose steps leave the addresses alone *)
LEMMA ListingKept ==
  ASSUME NEW p \in Req, Stepped(p), UNCHANGED <<place, num>>, req[p].pc \notin Owing,
         NEW q, req'[p] = q, q.kind \notin {"deploy", "drop"},
         q.pc \in Publishing \cup Withdrawing
  PROVE  Kept(p)
<1>1. q.pc \notin Deploying \cup Dropping \cup {"erase"} \cup Owing
  BY DEF Publishing, Informing, Withdrawing, Deploying, Early, Relocating, Filling, Dropping, Owing
<1>2. ~Moving(p)'
  BY DEF Moving
<1> QED
  BY <1>1, <1>2, Carefree, Onward DEF Kept

LEMMA RemovingKept ==
  ASSUME NEW p \in Req, Stepped(p), UNCHANGED addressVars, req[p].pc \notin Owing,
         NEW r \in Request, r.kind = "withdraw", NEW D \in SUBSET Device, req'[p] = Removing(r, D)
  PROVE  Kept(p)
<1>1. place' = place /\ num' = num
  BY DEF addressVars
<1>2. CASE Removing(r, D) = Idle
  BY <1>2, Quits
<1>3. CASE Removing(r, D) # Idle
  BY <1>1, <1>3, RemovingIs, ListingKept DEF Withdrawing, Stepped, CInv
<1> QED
  BY <1>2, <1>3

LEMMA TellingKept ==
  ASSUME NEW p \in Req, Stepped(p), UNCHANGED addressVars, req[p].pc \notin Owing,
         NEW r \in Request, r.kind = "publish", r.ver \in GameVersion,
         NEW D \in SUBSET Device, req'[p] = Telling(r, D)
  PROVE  Kept(p)
<1>1. place' = place /\ num' = num
  BY DEF addressVars
<1>2. CASE Telling(r, D) = Idle
  BY <1>2, Quits
<1>3. CASE Telling(r, D) # Idle
  BY <1>1, <1>3, TellingIs, ListingKept DEF Publishing, Informing, Stepped, CInv
<1> QED
  BY <1>2, <1>3

(* nor requests that delete a device, until they do *)
LEMMA UndeployingKept ==
  ASSUME NEW p \in Req, Stepped(p), UNCHANGED addressVars, req[p].pc \notin Owing,
         NEW r \in Request, r.kind = "drop", r.addr = Nowhere,
         NEW l \in SUBSET ListEntry, req'[p] = Undeploying(r, l)
  PROVE  Kept(p)
<1> PICK q : q = Undeploying(r, l)
  OBVIOUS
<1>1. place' = place /\ num' = num
  BY DEF addressVars
<1>2. CASE q = Idle
  BY <1>2, Quits
<1>3. CASE q.pc = "undeploy" \/ (q.pc = "drop" /\ q.dev = r.dev /\ q.old = place[r.dev]
                                /\ q.old \in Address \cup {Nowhere}
                                /\ q.n = IF q.old = Nowhere THEN 0 ELSE num[q.old])
  <2>1. Where(q)'
    BY <1>1, <1>3 DEF Where, Relocating, Filling
  <2>2. Sure(p)'
    BY <1>3, <2>1 DEF Sure, Deploying, Early, Relocating, Filling
  <2>3. Counted(p)' /\ Doomed(p)'
    BY <1>1, <1>3, Names DEF Counted, Doomed
  <2>4. q.pc \notin Owing
    BY <1>3 DEF Owing
  <2> QED
    BY <1>1, <2>2, <2>3, <2>4, Onward DEF Kept
<1> QED
  BY <1>2, <1>3, UndeployingIs DEF Stepped, CInv

LEMMA AcceptKept ==
  ASSUME NEW p \in Req, Stepped(p), Accept(p)
  PROVE  Kept(p)
<1>a. TInv /\ req \in [Req -> Request]
  BY DEF Stepped, CInv, TInv, Requests
<1>b. \A q : Begin(p, q) => /\ req'[p] = q /\ req[p].pc = "idle" /\ UNCHANGED <<addressVars, gameVars>>
                            /\ place' = place /\ num' = num
  BY <1>a DEF Begin, Read, Set, addressVars
<1>c. "idle" \notin Owing
  BY DEF Owing
<1>1. ASSUME NEW d \in Device, NEW a \in Address, Deploy(p, d, a) PROVE Kept(p)
  <2> DEFINE r == [Idle EXCEPT !.kind = "deploy", !.dev = d, !.addr = a]
             q == [r EXCEPT !.pc = "create"]
  <2>1. /\ req'[p] = IF a \in sites THEN Located(r) ELSE q
        /\ req[p].pc = "idle" /\ UNCHANGED <<addressVars, gameVars>> /\ place' = place /\ num' = num
    BY <1>1, <1>b DEF Deploy
  <2>2. r \in Request /\ r.kind = "deploy" /\ r.addr = a
    BY IdleIs DEF Request, Kind
  <2> HIDE DEF r
  <2>5. q.pc = "create"
    BY <2>2 DEF Request
  <2> HIDE DEF q
  <2>3. CASE a \in sites
    BY <1>c, <2>1, <2>2, <2>3, LocatedKept
  <2>4. CASE a \notin sites
    <3>1. Where(q)'
      BY <2>5 DEF Where, Relocating, Filling
    <3>2. (Sure(p) /\ Counted(p) /\ Doomed(p))'
      BY <2>1, <2>4, <2>5, <3>1 DEF Sure, Counted, Doomed, Early
    <3> QED
      BY <1>c, <2>1, <2>4, <2>5, <3>2, Onward DEF Kept, Owing
  <2> QED
    BY <2>3, <2>4
<1>2. ASSUME NEW d \in Device, DropDevice(p, d) PROVE Kept(p)
  <2> DEFINE r == [Idle EXCEPT !.kind = "drop", !.dev = d]
             q == Undeploying(r, GameList)
  <2>1. /\ req'[p] = q
        /\ req[p].pc = "idle" /\ UNCHANGED <<addressVars, gameVars>> /\ place' = place /\ num' = num
    BY <1>2, <1>b DEF DropDevice
  <2>2. r \in Request /\ r.kind = "drop" /\ r.addr = Nowhere
    BY DropAccepted
  <2> HIDE DEF r
  <2> QED
    BY <1>a, <1>c, <2>1, <2>2, UndeployingKept, GameListIs
<1>3. ASSUME NEW a \in Address, DropAddress(p, a) PROVE Kept(p)
  <2> DEFINE q == [Idle EXCEPT !.kind = "erase", !.addr = a, !.todo = DevicesAt(a), !.pc = "erase"]
  <2>1. /\ req'[p] = q
        /\ req[p].pc = "idle" /\ UNCHANGED <<addressVars, gameVars>> /\ place' = place /\ num' = num
    BY <1>3, <1>b DEF DropAddress
  <2>2. q.kind = "erase" /\ q.addr = a /\ q.pc = "erase" /\ q.todo = DevicesAt(a)
    BY EraseAccepted
  <2> HIDE DEF q
  <2>3. Sure(p)' /\ Counted(p)'
    BY <2>1, <2>2 DEF Sure, Counted, Where, Moving, Deploying, Early, Relocating, Filling
  <2>4. Doomed(p)'
    <3> SUFFICES ASSUME NEW d \in DevicesAt(a), a \notin raced' PROVE FALSE
      BY <2>1, <2>2 DEF Doomed, DevicesAt
    <3>1. a \in Sites(p)'
      BY <2>1, <2>2 DEF Sites, Named, Moving
    <3>2. Own(p, a)
      BY <3>1, OwnBalance
    <3>3. num[a] = 0
      BY <1>3 DEF DropAddress
    <3>4. ~Owes(p, a)
      BY <2>1 DEF Owes
    <3> QED
      BY <1>a, <3>2, <3>3, <3>4, Empty
  <2> QED
    BY <1>c, <2>1, <2>2, <2>3, <2>4, Onward DEF Kept, Owing
<1>4. ASSUME NEW g \in Game, Withdraw(p, g) PROVE Kept(p)
  <2> DEFINE r == [Idle EXCEPT !.kind = "withdraw", !.game = g]
             q == [r EXCEPT !.row = FirstRow(g), !.pc = "unlist"]
  <2>1. /\ req'[p] = IF listed[g] = {} THEN Removing(r, Alive) ELSE q
        /\ req[p].pc = "idle" /\ UNCHANGED <<addressVars, gameVars>> /\ place' = place /\ num' = num
    BY <1>4, <1>b DEF Withdraw
  <2>2. r \in Request /\ r.kind = "withdraw" /\ q.pc = "unlist" /\ q.kind = "withdraw"
    BY <1>a, WithdrawAccepted
  <2> HIDE DEF r, q
  <2>3. CASE listed[g] = {}
    BY <1>a, <1>c, <2>1, <2>2, <2>3, RemovingKept DEF Alive
  <2>4. CASE listed[g] # {}
    BY <1>c, <2>1, <2>2, <2>4, ListingKept DEF Withdrawing
  <2> QED
    BY <2>3, <2>4
<1>5. ASSUME NEW g \in Game, NEW v \in GameVersion, Publish(p, g, v) PROVE Kept(p)
  <2> DEFINE q == [Idle EXCEPT !.kind = "publish", !.game = g, !.ver = v,
                               !.row = FirstRow(g), !.pc = "list"]
  <2>1. req'[p] = q /\ req[p].pc = "idle" /\ UNCHANGED <<addressVars, gameVars>> /\ place' = place /\ num' = num
    BY <1>5, <1>b DEF Publish
  <2>2. q.kind = "publish" /\ q.pc = "list"
    BY <1>a, PublishAccepted
  <2> HIDE DEF q
  <2> QED
    BY <1>c, <2>1, <2>2, ListingKept DEF Publishing
<1> QED
  BY <1>1, <1>2, <1>3, <1>4, <1>5 DEF Accept

LEMMA ReadsKeep ==
  ASSUME NEW p \in Req, Stepped(p), NEW q, Read(p, q)
  PROVE  req'[p] = q /\ UNCHANGED addressVars /\ sites' = sites /\ place' = place /\ num' = num
BY DEF Read, Set, addressVars, Stepped, CInv, TInv, Requests

LEMMA FinishIs ==
  ASSUME NEW p \in Req, Stepped(p), Finish(p)
  PROVE  req'[p] = Idle
BY DEF Finish, Set, Stepped, CInv, TInv, Requests

(* deploy_device after the address is settled: the device stays there *)
Arrived == {"games", "add", "next", "record"}

LEMMA ArrivedKept ==
  ASSUME NEW p \in Req, Stepped(p), UNCHANGED <<sites, place, num>>, req[p].pc \in Arrived,
         NEW q, req'[p] = q, q.pc \in Arrived, Same(q, req[p])
  PROVE  Kept(p)
<1> DEFINE r == req[p]
<1>1. r.pc \in Deploying \ Early /\ r.pc \notin Owing /\ q.pc \notin Owing
  BY DEF Arrived, Deploying, Early, Relocating, Filling, Owing
<1>2. /\ Moving(p) /\ Devices(p) = {r.dev} /\ Sites(p) = {r.addr, r.old, place[r.dev]} \cap Address
      /\ r.addr \in sites \/ Sites(p) \subseteq raced
  BY <1>1, Knows DEF Stepped
<1>3. q.dev = r.dev /\ q.addr = r.addr /\ q.old = r.old /\ q.kind = r.kind
  BY DEF Same
<1>4. Sites(p)' = Sites(p) /\ Moving(p)'
  BY <1>2, <1>3 DEF Sites, Devices, Named, Moving, Arrived
<1>5. Where(r) <=> Where(q)'
  BY <1>3 DEF Where, Arrived, Relocating, Filling
<1>6. Sure(p)'
  BY <1>2, <1>3, <1>4, <1>5 DEF Sure, Stepped, CInv, Alone
<1>7. Counted(p)' /\ Doomed(p)'
  BY DEF Counted, Doomed, Arrived
<1> QED
  BY <1>1, <1>6, <1>7, Onward DEF Kept

LEMMA AddingKept ==
  ASSUME NEW p \in Req, Stepped(p), UNCHANGED addressVars, req[p].pc \in {"games", "next"},
         NEW l \in SUBSET ListEntry, req'[p] = Adding(req[p], l)
  PROVE  Kept(p)
<1> PICK q : q = Adding(req[p], l)
  OBVIOUS
<1>1. Made(req[p]) /\ TInv /\ sites' = sites /\ place' = place /\ num' = num
  BY Knows DEF Stepped, CInv, addressVars
<1>2. CASE q = Idle
  BY <1>2, Quits DEF Owing
<1>3. CASE q # Idle
  <2>1. q.pc \in Arrived /\ Same(q, req[p])
    BY <1>1, <1>3, AddingIs DEF Arrived
  <2> QED
    BY <1>1, <2>1, ArrivedKept DEF Arrived
<1> QED
  BY <1>2, <1>3

LEMMA CreateAddressKept ==
  ASSUME NEW p \in Req, Stepped(p), CreateAddress(p)
  PROVE  Kept(p)
<1> DEFINE r == req[p]
<1>1. r.pc = "create" /\ r.addr \in Address /\ Made(r)
  BY Knows DEF CreateAddress, Deploying, Early, Stepped
<1>2. CASE r.addr \in sites
  BY <1>1, <1>2, Quits, FinishIs DEF CreateAddress, TryAddress, Owing
<1>3. CASE r.addr \notin sites
  <2> PICK q : q = [r EXCEPT !.pc = "look"]
    OBVIOUS
  <2>1. InsertAddress(r.addr) /\ req'[p] = q /\ q.pc = "look"
    BY <1>1, <1>3, GoesOn DEF CreateAddress, TryAddress, Set, Stepped, CInv, TInv, Requests
  <2>2. (Sure(p) /\ Counted(p) /\ Doomed(p))'
    BY <2>1 DEF Sure, Counted, Doomed, Where, Deploying, Early, Relocating, Filling
  <2>3. place' = place /\ num' = [num EXCEPT ![r.addr] = 0]
    BY <2>1 DEF InsertAddress
  <2>4. \A a \in Address : ~Owes(p, a) /\ ~Owes(p, a)' /\ DevicesAt(a)' = DevicesAt(a)
    BY <1>1, <2>1, <2>3 DEF Owes, DevicesAt
  <2> PICK b \in Address : b = r.addr
    BY <1>1
  <2>5. Own(p, b)'
    <3>1. DevicesAt(b) = {}
      BY <1>1, <1>3 DEF DevicesAt, Stepped, CInv, TInv, Placed
    <3>2. num'[b] = 0
      BY <1>1, <2>3 DEF Stepped, CInv, TInv, Placed, AddressTypeOK
    <3> QED
      BY <2>4, <3>1, <3>2, FS_EmptySet DEF Own
  <2>6. \A a \in Address \ {b} : num'[a] = num[a]
    BY <2>3 DEF Stepped, CInv, TInv, Placed, AddressTypeOK
  <2> QED
    BY <2>2, <2>4, <2>5, <2>6 DEF Kept, Own
<1> QED
  BY <1>2, <1>3

(* An INSERT of the device at addr: p owes it the count *)
LEMMA CreateDeviceKept ==
  ASSUME NEW p \in Req, Stepped(p), CreateDevice(p)
  PROVE  Kept(p)
<1> DEFINE r == req[p]
<1>1. r.pc = "device" /\ r.old = Unborn /\ r.addr \in Address /\ Made(r) /\ r.dev \in Device
  BY Knows DEF CreateDevice, Deploying, Stepped, Made
<1>2. CASE ~MayInsert(r.dev, r.addr)
  BY <1>1, <1>2, Quits, FinishIs DEF CreateDevice, TryAddress, Owing
<1>3. CASE MayInsert(r.dev, r.addr)
  <2> PICK q : q = [r EXCEPT !.pc = "recount"]
    OBVIOUS
  <2>1. InsertDevice(r.dev, r.addr) /\ req'[p] = q /\ q.pc = "recount" /\ Same(q, r)
    BY <1>1, <1>3, GoesOn DEF CreateDevice, TryAddress, Set, Stepped, CInv, TInv, Requests
  <2>2. /\ sites' = sites /\ num' = num /\ place' = [place EXCEPT ![r.dev] = r.addr]
        /\ place[r.dev] = Unborn /\ r.addr \in sites
    BY <2>1 DEF InsertDevice, MayInsert
  <2>3. place'[r.dev] = r.addr /\ \A d \in Device \ {r.dev} : place'[d] = place[d]
    BY <1>1, <2>2 DEF Stepped, CInv, TInv, Placed, AddressTypeOK
  <2>4. q.dev = r.dev /\ q.addr = r.addr /\ q.old = Unborn
    BY <1>1, <2>1 DEF Same
  <2>5. Where(q)'
    BY <2>1, <2>3, <2>4 DEF Where, Relocating, Filling
  <2>6. (Sure(p) /\ Counted(p) /\ Doomed(p))'
    BY <2>1, <2>2, <2>4, <2>5 DEF Sure, Counted, Doomed
  <2>7. \A a \in Address : ~Owes(p, a) /\ (Owes(p, a)' <=> a = r.addr)
    BY <1>1, <2>1, <2>3, <2>4 DEF Owes
  <2> PICK b \in Address : b = r.addr
    BY <1>1
  <2>8. \A a \in Address \ {b} : DevicesAt(a)' = DevicesAt(a)
    BY <2>2, <2>3, Names DEF DevicesAt
  <2>9. DevicesAt(b)' = DevicesAt(b) \cup {r.dev} /\ r.dev \notin DevicesAt(b)
    BY <1>1, <2>2, <2>3, Names DEF DevicesAt
  <2>10. Cardinality(DevicesAt(b) \cup {r.dev}) = Cardinality(DevicesAt(b)) + 1
    BY <1>1, <2>9, Joins DEF DevicesAt
  <2> QED
    BY <2>2, <2>6, <2>7, <2>8, <2>9, <2>10 DEF Kept, Own
<1> QED
  BY <1>2, <1>3

(* address_old loses the device in the count before in the row *)
LEMMA UncountKept ==
  ASSUME NEW p \in Req, Stepped(p), Uncount(p)
  PROVE  Kept(p)
<1> DEFINE r == req[p]
<1>1. /\ r.pc = "uncount" /\ r.old \in Address /\ r.oldNum \in Nat \ {0} /\ Made(r) /\ r.dev \in Device
      /\ r.addr \in Address /\ Sites(p) = {r.addr, r.old, place[r.dev]} \cap Address /\ Moving(p)
      /\ Where(r) \/ Sites(p) \subseteq raced
      /\ r.addr \in sites \/ Sites(p) \subseteq raced
      /\ raced \subseteq raced'
  BY Knows DEF Uncount, Deploying, Early, Relocating, Stepped, Alone, Made, Request
<1>2. CASE r.old \notin sites
  BY <1>1, <1>2, Quits, FinishIs DEF Uncount, TryAddress, Owing
<1>3. CASE r.old \in sites
  <2> PICK q : q = [r EXCEPT !.oldNum = 0, !.pc = "recount"]
    OBVIOUS
  <2>1. SaveNum(r.old, r.oldNum - 1) /\ req'[p] = q /\ q.pc = "recount" /\ Same(q, r)
    BY <1>1, <1>3, GoesOn DEF Uncount, TryAddress, Set, Stepped, CInv, TInv, Requests
  <2>2. sites' = sites /\ place' = place /\ num' = [num EXCEPT ![r.old] = r.oldNum - 1]
    BY <2>1 DEF SaveNum
  <2>3. num'[r.old] = r.oldNum - 1 /\ \A a \in Address \ {r.old} : num'[a] = num[a]
    BY <1>1, <2>2 DEF Stepped, CInv, TInv, Placed, AddressTypeOK
  <2>4. q.dev = r.dev /\ q.addr = r.addr /\ q.old = r.old /\ q.kind = r.kind
    BY <2>1 DEF Same
  <2>5. Where(r) => place[r.dev] = r.old
    BY <1>1 DEF Where, Relocating
  <2>6. Where(r) => Where(q)'
    BY <1>1, <2>1, <2>2, <2>4, <2>5, Names DEF Where, Relocating, Filling
  <2>7. Sites(p)' = Sites(p) /\ Moving(p)'
    BY <1>1, <2>1, <2>2, <2>4 DEF Sites, Devices, Named, Moving
  <2>8. Sure(p)'
    BY <1>1, <2>1, <2>2, <2>4, <2>6, <2>7 DEF Sure, Stepped, CInv, Alone
  <2>9. Counted(p)' /\ Doomed(p)'
    BY <2>1 DEF Counted, Doomed
  <2>10. ASSUME NEW a \in Address \ raced', Own(p, a) PROVE Own(p, a)'
    <3>1. ~Owes(p, a) /\ DevicesAt(a)' = DevicesAt(a)
      BY <1>1, <2>2 DEF Owes, DevicesAt
    <3>2. a \in Sites(p) => place[r.dev] = r.old
      BY <1>1, <2>5
    <3>3. CASE a = r.old
      <4>1. a \notin raced /\ a \in Sites(p)
        BY <1>1, <3>3
      <4>2. r.oldNum = num[r.old]
        BY <1>1, <3>3, <4>1 DEF Counted, Stepped, CInv
      <4>3. Owes(p, a)'
        BY <2>1, <2>2, <2>4, <3>2, <3>3, <4>1 DEF Owes
      <4>4. num'[a] + 1 = num[a]
        BY <1>1, <2>3, <3>3, <4>2
      <4> QED
        BY <2>10, <3>1, <4>3, <4>4 DEF Own
    <3>4. CASE a # r.old
      <4>1. ~Owes(p, a)'
        BY <1>1, <2>1, <2>2, <2>4, <3>2, <3>4 DEF Owes
      <4> QED
        BY <2>3, <2>10, <3>1, <3>4, <4>1 DEF Own
    <3> QED
      BY <3>3, <3>4
  <2> QED
    BY <2>8, <2>9, <2>10 DEF Kept
<1> QED
  BY <1>2, <1>3

LEMMA RecountKept ==
  ASSUME NEW p \in Req, Stepped(p), Recount(p)
  PROVE  Kept(p)
<1> DEFINE r == req[p]
<1>1. /\ r.pc = "recount" /\ Made(r) /\ r.dev \in Device /\ r.old # r.addr
      /\ r.addr \in Address /\ Sites(p) = {r.addr, r.old, place[r.dev]} \cap Address /\ Moving(p)
      /\ Where(r) \/ Sites(p) \subseteq raced
      /\ r.addr \in sites \/ Sites(p) \subseteq raced
      /\ raced \subseteq raced' /\ r.old \in Address \cup {Unborn}
  BY Knows DEF Recount, Deploying, Early, Filling, Stepped, Alone, Made
<1>2. CASE r.addr \notin sites
  BY <1>1, <1>2, Quits, ReadsKeep DEF Recount
<1>3. CASE r.addr \in sites
  <2> PICK q : q = [r EXCEPT !.n = num[r.addr], !.pc = IF r.old = Unborn THEN "count" ELSE "move"]
    OBVIOUS
  <2>1. req'[p] = q /\ sites' = sites /\ place' = place /\ num' = num
    BY <1>3, ReadsKeep DEF Recount
  <2>2. Same(q, r) /\ q.n = num[r.addr] /\ q.pc = IF r.old = Unborn THEN "count" ELSE "move"
    BY <1>1, RecountIs DEF Stepped, CInv
  <2>3. q.dev = r.dev /\ q.addr = r.addr /\ q.old = r.old /\ q.kind = r.kind /\ q.pc \in {"count", "move"}
    BY <2>2 DEF Same
  <2>4. Where(r) => Where(q)'
    BY <1>1, <2>1, <2>2, <2>3 DEF Where, Relocating, Filling
  <2>5. Sites(p)' = Sites(p) /\ Moving(p)'
    BY <1>1, <2>1, <2>3 DEF Sites, Devices, Named, Moving
  <2>6. Sure(p)'
    BY <1>1, <1>3, <2>1, <2>3, <2>4, <2>5 DEF Sure, Stepped, CInv, Alone
  <2>7. Counted(p)' /\ Doomed(p)'
    BY <2>1, <2>2, <2>3 DEF Counted, Doomed
  <2>8. \A a \in Address : Owes(p, a)' <=> Owes(p, a)
    BY <1>1, <2>1, <2>3 DEF Owes
  <2> QED
    BY <2>1, <2>6, <2>7, <2>8 DEF Kept, Own, DevicesAt
<1> QED
  BY <1>2, <1>3

LEMMA CountKept ==
  ASSUME NEW p \in Req, Stepped(p), Count(p)
  PROVE  Kept(p)
<1> DEFINE r == req[p]
<1>1. /\ r.pc = "count" /\ Made(r) /\ r.dev \in Device
      /\ r.addr \in Address /\ Sites(p) = {r.addr, r.old, place[r.dev]} \cap Address /\ Moving(p)
      /\ Where(r) \/ Sites(p) \subseteq raced
      /\ r.addr \in sites \/ Sites(p) \subseteq raced
      /\ raced \subseteq raced'
  BY Knows DEF Count, Deploying, Early, Filling, Stepped, Alone
<1>2. CASE r.addr \notin sites
  BY <1>1, <1>2, Quits, FinishIs DEF Count, TryAddress
<1>3. CASE r.addr \in sites
  <2> PICK q : q = [r EXCEPT !.n = 0, !.pc = "games"]
    OBVIOUS
  <2>1. SaveNum(r.addr, r.n + 1) /\ req'[p] = q /\ q.pc = "games" /\ Same(q, r)
    BY <1>1, <1>3, GoesOn DEF Count, TryAddress, Set, Stepped, CInv, TInv, Requests
  <2>2. sites' = sites /\ place' = place /\ num' = [num EXCEPT ![r.addr] = r.n + 1]
    BY <2>1 DEF SaveNum
  <2>3. num'[r.addr] = r.n + 1 /\ \A a \in Address \ {r.addr} : num'[a] = num[a]
    BY <1>1, <2>2 DEF Stepped, CInv, TInv, Placed, AddressTypeOK
  <2>4. q.dev = r.dev /\ q.addr = r.addr /\ q.old = r.old /\ q.kind = r.kind
    BY <2>1 DEF Same
  <2>5. Where(r) => place[r.dev] = r.addr
    BY <1>1 DEF Where
  <2>6. Where(r) => Where(q)'
    BY <1>1, <2>1, <2>2, <2>4, <2>5 DEF Where, Relocating, Filling
  <2>7. Sites(p)' = Sites(p) /\ Moving(p)'
    BY <1>1, <2>1, <2>2, <2>4 DEF Sites, Devices, Named, Moving
  <2>8. Sure(p)'
    BY <1>1, <2>1, <2>2, <2>4, <2>6, <2>7 DEF Sure, Stepped, CInv, Alone
  <2>9. Counted(p)' /\ Doomed(p)'
    BY <2>1 DEF Counted, Doomed
  <2>10. ASSUME NEW a \in Address \ raced', Own(p, a) PROVE Own(p, a)'
    <3>1. ~Owes(p, a)' /\ DevicesAt(a)' = DevicesAt(a)
      BY <2>1, <2>2 DEF Owes, DevicesAt
    <3>2. a \in Sites(p) => place[r.dev] = r.addr
      BY <1>1, <2>5
    <3>3. CASE a = r.addr
      <4>1. a \notin raced /\ a \in Sites(p)
        BY <1>1, <3>3
      <4>2. r.n = num[r.addr]
        BY <1>1, <3>3, <4>1 DEF Counted, Stepped, CInv
      <4>3. Owes(p, a)
        BY <1>1, <3>2, <3>3, <4>1 DEF Owes
      <4> QED
        BY <2>3, <2>10, <3>1, <3>3, <4>2, <4>3 DEF Own
    <3>4. CASE a # r.addr
      <4>1. ~Owes(p, a)
        BY <1>1, <3>2, <3>4 DEF Owes
      <4> QED
        BY <2>3, <2>10, <3>1, <3>4, <4>1 DEF Own
    <3> QED
      BY <3>3, <3>4
  <2> QED
    BY <2>8, <2>9, <2>10 DEF Kept
<1> QED
  BY <1>2, <1>3

(* device.address_id and the count of the new address go in one commit *)
LEMMA MoveKept ==
  ASSUME NEW p \in Req, Stepped(p), Move(p)
  PROVE  Kept(p)
<1> DEFINE r == req[p]
<1>1. /\ r.pc = "move" /\ Made(r) /\ r.dev \in Device /\ r.old # r.addr /\ r.old \in Address
      /\ r.addr \in Address /\ Sites(p) = {r.addr, r.old, place[r.dev]} \cap Address /\ Moving(p)
      /\ Where(r) \/ Sites(p) \subseteq raced
      /\ r.addr \in sites \/ Sites(p) \subseteq raced
      /\ raced \subseteq raced'
  BY Knows DEF Move, Deploying, Early, Relocating, Stepped, Alone, Made
<1>a. Where(r) => place[r.dev] = r.old
  BY <1>1 DEF Where, Relocating
<1>2. CASE ~MayMove(r.dev, r.addr)
  <2>1. Sites(p) \subseteq raced
    BY <1>1, <1>2, <1>a, Names DEF MayMove, Alive
  <2> QED
    BY <1>2, <2>1, Quits, FinishIs DEF Move, TryAddress
<1>3. CASE MayMove(r.dev, r.addr)
  <2> PICK q : q = [r EXCEPT !.n = 0, !.pc = "record"]
    OBVIOUS
  <2>1. MoveDevice(r.dev, r.addr, r.n + 1) /\ req'[p] = q /\ q.pc = "record" /\ Same(q, r)
    BY <1>1, <1>3, GoesOn DEF Move, TryAddress, Set, Stepped, CInv, TInv, Requests
  <2>2. /\ sites' = sites /\ place' = [place EXCEPT ![r.dev] = r.addr]
        /\ num' = [num EXCEPT ![r.addr] = r.n + 1] /\ r.addr \in sites
    BY <2>1 DEF MoveDevice, MayMove
  <2>3. num'[r.addr] = r.n + 1 /\ \A a \in Address \ {r.addr} : num'[a] = num[a]
    BY <1>1, <2>2 DEF Stepped, CInv, TInv, Placed, AddressTypeOK
  <2>4. place'[r.dev] = r.addr /\ \A d \in Device \ {r.dev} : place'[d] = place[d]
    BY <1>1, <2>2 DEF Stepped, CInv, TInv, Placed, AddressTypeOK
  <2>5. q.dev = r.dev /\ q.addr = r.addr /\ q.old = r.old /\ q.kind = r.kind
    BY <2>1 DEF Same
  <2>6. Where(q)'
    BY <2>1, <2>4, <2>5 DEF Where, Relocating, Filling
  <2>7. (Sure(p) /\ Counted(p) /\ Doomed(p))'
    BY <2>1, <2>2, <2>5, <2>6 DEF Sure, Counted, Doomed
  <2>8. ASSUME NEW a \in Address \ raced', Own(p, a) PROVE Own(p, a)'
    <3>1. ~Owes(p, a)'
      BY <2>1 DEF Owes
    <3>2. a \in Sites(p) => place[r.dev] = r.old
      BY <1>1, <1>a
    <3>3. Owes(p, a) <=> place[r.dev] = a
      BY <1>1 DEF Owes
    <3>4. CASE a = r.addr
      <4>1. a \notin raced /\ a \in Sites(p)
        BY <1>1, <3>4
      <4>2. r.n = num[a]
        BY <1>1, <3>4, <4>1 DEF Counted, Stepped, CInv
      <4>3. DevicesAt(a)' = DevicesAt(a) \cup {r.dev} /\ r.dev \notin DevicesAt(a)
        BY <1>1, <2>4, <3>2, <3>4, <4>1 DEF DevicesAt
      <4>4. Cardinality(DevicesAt(a) \cup {r.dev}) = Cardinality(DevicesAt(a)) + 1
        BY <1>1, <4>3, Joins DEF DevicesAt
      <4>5. ~Owes(p, a)
        BY <1>1, <3>2, <3>3, <3>4, <4>1
      <4> QED
        BY <2>3, <2>8, <3>1, <3>4, <4>2, <4>3, <4>4, <4>5 DEF Own
    <3>5. CASE a # r.addr /\ place[r.dev] = a
      <4>1. DevicesAt(a)' = DevicesAt(a) \ {r.dev} /\ r.dev \in DevicesAt(a)
        BY <1>1, <2>4, <3>5 DEF DevicesAt
      <4>2. /\ Cardinality(DevicesAt(a) \ {r.dev}) = Cardinality(DevicesAt(a)) - 1
            /\ Cardinality(DevicesAt(a)) \in Nat
        BY <4>1, Leaves DEF DevicesAt
      <4>3. num[a] \in Nat
        BY DEF Stepped, CInv, TInv, Placed, AddressTypeOK
      <4> QED
        BY <2>3, <2>8, <3>1, <3>3, <3>5, <4>1, <4>2, <4>3 DEF Own
    <3>6. CASE a # r.addr /\ place[r.dev] # a
      <4>1. DevicesAt(a)' = DevicesAt(a)
        BY <1>1, <2>2, <2>4, <3>6 DEF DevicesAt
      <4> QED
        BY <2>3, <2>8, <3>1, <3>3, <3>6, <4>1 DEF Own
    <3> QED
      BY <3>4, <3>5, <3>6
  <2> QED
    BY <2>7, <2>8 DEF Kept
<1> QED
  BY <1>2, <1>3

(* Device.delete: the count goes down with the row *)
LEMMA DropKept ==
  ASSUME NEW p \in Req, Stepped(p), Drop(p)
  PROVE  Kept(p)
<1> DEFINE r == req[p]
<1>1. /\ r.pc = "drop" /\ Made(r) /\ r.dev \in Device /\ r.n \in Nat /\ r.addr = Nowhere
      /\ Sites(p) = {r.addr, r.old, place[r.dev]} \cap Address /\ Moving(p)
      /\ Where(r) \/ Sites(p) \subseteq raced
      /\ raced \subseteq raced'
  BY Knows, MadeIs DEF Drop, Dropping, Stepped, Alone
<1>2. CASE ~MayDelete(r.old, r.n)
  BY <1>1, <1>2, Quits, FinishIs DEF Drop, TryAddress, Owing
<1>3. CASE MayDelete(r.old, r.n)
  <2>1. DeleteDevice(r.dev, r.old, r.n) /\ req'[p] = Idle
    BY <1>3, FinishIs DEF Drop, TryAddress, Set, Finish, Stepped, CInv, TInv, Requests
  <2>2. (Sure(p) /\ Counted(p) /\ Doomed(p))' /\ \A a \in Address : ~Owes(p, a)'
    BY <2>1, IdleMade, Carefree DEF Moving, Deploying, Early, Relocating, Filling, Dropping
  <2>3. /\ place' = [place EXCEPT ![r.dev] = Gone]
        /\ num' = IF r.n > 0 THEN [num EXCEPT ![r.old] = r.n - 1] ELSE num
    BY <2>1 DEF DeleteDevice
  <2>4. place'[r.dev] = Gone /\ \A d \in Device \ {r.dev} : place'[d] = place[d]
    BY <1>1, <2>3 DEF Stepped, CInv, TInv, Placed, AddressTypeOK
  <2>5. ASSUME NEW a \in Address \ raced', Own(p, a) PROVE Own(p, a)'
    <3>1. ~Owes(p, a) /\ num \in [Address -> Nat]
      BY <1>1 DEF Owes, Stepped, CInv, TInv, Placed, AddressTypeOK
    <3>2. a \in Sites(p) => place[r.dev] = r.old
      BY <1>1 DEF Where, Relocating
    <3>3. CASE place[r.dev] = a
      <4>1. a \in Sites(p) /\ a \notin raced /\ a = r.old
        BY <1>1, <3>2, <3>3
      <4>2. r.n = num[a]
        BY <1>1, <4>1 DEF Counted, Stepped, CInv
      <4>3. DevicesAt(a)' = DevicesAt(a) \ {r.dev} /\ r.dev \in DevicesAt(a)
        BY <1>1, <2>4, <3>3, Names DEF DevicesAt
      <4>4. /\ Cardinality(DevicesAt(a) \ {r.dev}) = Cardinality(DevicesAt(a)) - 1
            /\ Cardinality(DevicesAt(a)) \in Nat \ {0}
        BY <4>3, Leaves DEF DevicesAt
      <4>5. num'[a] = num[a] - 1 /\ Cardinality(DevicesAt(a)) = num[a]
        BY <2>3, <2>5, <3>1, <4>1, <4>2, <4>4 DEF Own
      <4> QED
        BY <2>2, <4>3, <4>4, <4>5 DEF Own
    <3>4. CASE place[r.dev] # a
      <4>1. DevicesAt(a)' = DevicesAt(a)
        BY <1>1, <2>4, <3>4, Names DEF DevicesAt
      <4>2. a # r.old
        BY <1>1, <3>2, <3>4
      <4>3. num'[a] = num[a]
        BY <2>3, <3>1, <4>2
      <4> QED
        BY <2>2, <2>5, <3>1, <4>1, <4>3 DEF Own
    <3> QED
      BY <3>3, <3>4
  <2> QED
    BY <2>2, <2>5 DEF Kept
<1> QED
  BY <1>2, <1>3

(* ModelBase.delete of an address: only raced addresses lose a device *)
LEMMA EraseKept ==
  ASSUME NEW p \in Req, Stepped(p), Erase(p)
  PROVE  Kept(p)
<1> DEFINE r == req[p]
<1>1. r.pc = "erase" /\ Made(r) /\ r.addr \in Address /\ r.todo \in SUBSET Device /\ raced \subseteq raced'
  BY Knows, MadeIs DEF Erase, Stepped, Alone
<1>2. CASE ~MayErase(r.addr, r.todo)
  BY <1>1, <1>2, Quits, FinishIs DEF Erase, TryAddress, Owing
<1>3. CASE MayErase(r.addr, r.todo)
  <2>1. EraseAddress(r.addr, r.todo) /\ req'[p] = Idle
    BY <1>3, FinishIs DEF Erase, TryAddress, Set, Finish, Stepped, CInv, TInv, Requests
  <2>2. (Sure(p) /\ Counted(p) /\ Doomed(p))' /\ \A a \in Address : ~Owes(p, a)'
    BY <2>1, IdleMade, Carefree DEF Moving, Deploying, Early, Relocating, Filling, Dropping
  <2>3. /\ \A d \in Device : place'[d] = IF d \in r.todo THEN Nowhere ELSE place[d]
        /\ num' = [num EXCEPT ![r.addr] = 0]
        /\ DevicesAt(r.addr) \subseteq r.todo
    BY <2>1 DEF EraseAddress, MayErase
  <2>4. ASSUME NEW a \in Address \ raced', Own(p, a) PROVE Own(p, a)'
    <3>1. ~Owes(p, a) /\ num \in [Address -> Nat]
      BY <1>1 DEF Owes, Stepped, CInv, TInv, Placed, AddressTypeOK
    <3>2. \A d \in r.todo : place[d] # a
      BY <1>1, Names DEF Doomed, Stepped, CInv
    <3>3. DevicesAt(a)' = DevicesAt(a)
      BY <2>3, <3>2, Names DEF DevicesAt
    <3>4. CASE a = r.addr
      <4>1. DevicesAt(a) = {} /\ num'[a] = 0
        BY <2>3, <3>1, <3>2, <3>4 DEF DevicesAt
      <4> QED
        BY <2>2, <3>3, <4>1, FS_EmptySet DEF Own
    <3>5. CASE a # r.addr
      <4>1. num'[a] = num[a]
        BY <2>3, <3>1, <3>5
      <4> QED
        BY <2>2, <2>4, <3>1, <3>3, <4>1 DEF Own
    <3> QED
      BY <3>4, <3>5
  <2> QED
    BY <2>2, <2>4 DEF Kept
<1> QED
  BY <1>2, <1>3

LEMMA DeployKept ==
  ASSUME NEW p \in Req, Stepped(p), DeployStep(p)
  PROVE  Kept(p)
<1> DEFINE r == req[p]
<1>1. Made(r) /\ TInv
  BY Knows DEF Stepped, CInv
<1>2. CASE Look(p)
  <2>1. r.pc = "look" /\ r \in Request /\ r.kind = "deploy"
    BY <1>1, <1>2, MadeIs DEF Look, Deploying, Early
  <2>2. CASE r.addr \in sites
    BY <1>2, <2>1, <2>2, LocatedKept, ReadsKeep DEF Look, Owing
  <2>3. CASE r.addr \notin sites
    BY <1>2, <2>1, <2>3, Quits, ReadsKeep DEF Look, Owing
  <2> QED
    BY <2>2, <2>3
<1>3. CASE ListGames(p)
  BY <1>1, <1>3, AddingKept, GameListIs, ReadsKeep DEF ListGames
<1>4. CASE NextListed(p)
  BY <1>1, <1>4, AddingKept, ListIs, ReadsKeep DEF NextListed
<1>5. CASE AddListed(p)
  <2>1. r.pc = "add" /\ UNCHANGED addressVars /\ (Goto(p, "next") \/ Finish(p))
    BY <1>5 DEF AddListed
  <2>2. sites' = sites /\ place' = place /\ num' = num
    BY <2>1 DEF addressVars
  <2>3. CASE Finish(p)
    BY <2>1, <2>3, Quits, FinishIs DEF Owing
  <2>4. CASE Goto(p, "next")
    <3> PICK q : q = [r EXCEPT !.pc = "next"]
      OBVIOUS
    <3>1. req'[p] = q
      BY <2>4 DEF Goto, Set, TInv, Requests, Stepped, CInv
    <3>2. q.pc = "next" /\ Same(q, r)
      BY <1>1, <2>1, GoesOn
    <3> QED
      BY <2>1, <2>2, <3>1, <3>2, ArrivedKept DEF Arrived
  <2> QED
    BY <2>1, <2>3, <2>4
<1>6. CASE Record(p)
  <2>1. r.pc = "record" /\ InsertDeploy(r.dev, r.addr) /\ req'[p] = Idle
    BY <1>1, <1>6 DEF Record, TryAddress, Set, Requests, TInv
  <2>2. place' = place /\ num' = num
    BY <2>1 DEF InsertDeploy
  <2>3. (Sure(p) /\ Counted(p) /\ Doomed(p))'
    BY <2>1, IdleMade, Carefree DEF Moving, Deploying, Early, Relocating, Filling, Dropping
  <2> QED
    BY <2>1, <2>2, <2>3, IdleMade, Onward DEF Kept, Owing
<1> QED
  BY <1>2, <1>3, <1>4, <1>5, <1>6, CreateAddressKept, CreateDeviceKept, UncountKept, RecountKept,
     CountKept, MoveKept DEF DeployStep

LEMMA DropStepKept ==
  ASSUME NEW p \in Req, Stepped(p), DropStep(p)
  PROVE  Kept(p)
<1> DEFINE r == req[p]
<1>1. Made(r) /\ TInv
  BY Knows DEF Stepped, CInv
<1>2. CASE Undeploy(p)
  <2> PICK q : q = [r EXCEPT !.pc = "undeployed"]
    OBVIOUS
  <2>1. r.pc = "undeploy" /\ req'[p] = q /\ place' = place /\ num' = num
    BY <1>1, <1>2 DEF Undeploy, Goto, Set, Requests, TInv, addressVars
  <2>2. q.pc = "undeployed" /\ q.kind = "drop"
    <3>1. r \in Request /\ r.kind = "drop"
      BY <1>1, <2>1, MadeIs DEF Dropping
    <3> QED
      BY <3>1 DEF Request
  <2>3. Where(q)'
    BY <2>2 DEF Where, Relocating, Filling
  <2>4. (Sure(p) /\ Counted(p) /\ Doomed(p))'
    BY <2>1, <2>2, <2>3 DEF Sure, Counted, Doomed, Deploying, Early, Relocating, Filling
  <2> QED
    BY <2>1, <2>2, <2>4, Onward DEF Kept, Owing
<1>3. CASE Undeployed(p)
  <2>1. r \in Request /\ r.kind = "drop" /\ r.addr = Nowhere /\ r.pc = "undeployed"
    BY <1>1, <1>3, MadeIs DEF Undeployed, Dropping
  <2> QED
    BY <1>1, <1>3, <2>1, UndeployingKept, ListIs, ReadsKeep DEF Undeployed, Owing
<1> QED
  BY <1>2, <1>3, DropKept, EraseKept DEF DropStep

LEMMA GameKept ==
  ASSUME NEW p \in Req, Stepped(p), GameStep(p)
  PROVE  Kept(p)
<1> DEFINE r == req[p]
<1>1. Made(r) /\ TInv /\ r.todo \in SUBSET Device /\ r \in Request /\ Alive \in SUBSET Device
  BY Knows, MadeIs DEF Stepped, CInv, Alive
<1>2. /\ r.pc \in Publishing \cup Withdrawing /\ r.pc \notin Owing
      /\ r.pc \in Publishing => r.kind = "publish" /\ r.ver \in GameVersion
      /\ r.pc \in Withdrawing => r.kind = "withdraw"
  <2>1. r.pc \in Publishing \cup Withdrawing
    BY DEF GameStep, UpdateGameList, GetGameInfo, SaveVersion, ListDevices, Tell, Told, Unlist, Unlisted,
       RemoveGame, Removed, RemoveVersions, Publishing, Informing, Withdrawing
  <2>2. r.pc \notin Owing
    BY <2>1 DEF Publishing, Informing, Withdrawing, Owing
  <2> QED
    BY <1>1, <2>1, <2>2, MadeIs
<1>3. UNCHANGED addressVars /\ place' = place /\ num' = num
  BY DEF GameStep, UpdateGameList, GetGameInfo, SaveVersion, ListDevices, Tell, Told, Unlist, Unlisted,
       RemoveGame, Removed, RemoveVersions, TryGame, Read, addressVars
<1>4. \A q : Set(p, q) => req'[p] = q
  BY <1>1 DEF Set, TInv, Requests
<1>5. Finish(p) => Kept(p)
  BY <1>2, <1>3, FinishIs, Quits
<1>6. ASSUME NEW q, Set(p, q), q.kind = r.kind, q.pc \in Publishing \cup Withdrawing PROVE Kept(p)
  <2>1. q.kind \notin {"deploy", "drop"}
    BY <1>2, <1>6
  <2> QED
    BY <1>2, <1>3, <1>4, <1>6, <2>1, ListingKept
<1>7. CASE UpdateGameList(p)
  <2> PICK q : q = [r EXCEPT !.row = 0, !.pc = "info"]
    OBVIOUS
  <2>1. q.kind = r.kind /\ q.pc = "info"
    BY <1>1, <1>7, GoesOn DEF UpdateGameList, Same
  <2> QED
    BY <1>5, <1>6, <1>7, <2>1 DEF UpdateGameList, TryGame, Publishing
<1>8. CASE GetGameInfo(p)
  <2> PICK q : q = [r EXCEPT !.found = {<<r.game, r.ver>>} \cap versions, !.pc = "version"]
    OBVIOUS
  <2>1. q.kind = r.kind /\ q.pc = "version"
    BY <1>1 DEF Request
  <2> QED
    BY <1>6, <1>8, <2>1 DEF GetGameInfo, Read, Publishing
<1>9. CASE SaveVersion(p)
  <2> PICK q : q = [r EXCEPT !.found = {}, !.pc = "devices"]
    OBVIOUS
  <2>1. q.kind = r.kind /\ q.pc = "devices"
    BY <1>1, <1>9, GoesOn DEF SaveVersion, Same
  <2> QED
    BY <1>5, <1>6, <1>9, <2>1 DEF SaveVersion, TryGame, Publishing, Informing
<1>10. CASE ListDevices(p)
  BY <1>1, <1>2, <1>10, ReadsKeep, TellingKept DEF ListDevices, Publishing, Informing
<1>11. CASE Tell(p)
  <2> PICK q : q = [r EXCEPT !.pc = "told"]
    OBVIOUS
  <2>1. q.kind = r.kind /\ q.pc = "told"
    BY <1>1, <1>11, GoesOn DEF Tell, Same
  <2> QED
    BY <1>5, <1>6, <1>11, <2>1 DEF Tell, TryGame, Publishing, Informing
<1>12. CASE Told(p)
  BY <1>1, <1>2, <1>12, ReadsKeep, TellingKept DEF Told, Publishing, Informing
<1>13. CASE Unlist(p)
  <2> PICK q : q = [r EXCEPT !.row = 0, !.pc = "unlisted"]
    OBVIOUS
  <2>1. q.kind = r.kind /\ q.pc = "unlisted"
    BY <1>1, <1>13, GoesOn DEF Unlist, Same
  <2> QED
    BY <1>6, <1>13, <2>1 DEF Unlist, TryGame, Withdrawing
<1>14. CASE Unlisted(p)
  BY <1>1, <1>2, <1>14, ReadsKeep, RemovingKept DEF Unlisted, Withdrawing
<1>15. CASE RemoveGame(p)
  <2> PICK q : q = [r EXCEPT !.pc = "removed"]
    OBVIOUS
  <2>1. q.kind = r.kind /\ q.pc = "removed"
    BY <1>1, <1>15, GoesOn DEF RemoveGame, Same
  <2> QED
    BY <1>6, <1>15, <2>1 DEF RemoveGame, TryGame, Withdrawing
<1>16. CASE Removed(p)
  BY <1>1, <1>2, <1>16, ReadsKeep, RemovingKept DEF Removed, Withdrawing
<1>17. CASE RemoveVersions(p)
  <2>1. req'[p] = Idle
    BY <1>4, <1>17 DEF RemoveVersions, TryGame
  <2> QED
    BY <1>2, <1>3, <2>1, Quits
<1> QED
  BY <1>7, <1>8, <1>9, <1>10, <1>11, <1>12, <1>13, <1>14, <1>15, <1>16, <1>17 DEF GameStep
-----------------------------------------------------------------------------
LEMMA CInitially == Init => CInv
<1> SUFFICES ASSUME Init PROVE CInv
  OBVIOUS
<1>1. TInv
  BY TypeInitially
<1>2. \A p \in Req : req[p] = Idle /\ req[p].pc = "idle"
  BY IdleMade DEF Init
<1>3. \A p \in Req : Sites(p) = {} /\ Devices(p) = {} /\ Listed(p) = {} /\ ~Moving(p) /\ ~Listing(p)
  BY <1>2 DEF Sites, Devices, Named, Listed, Moving, Listing
<1>4. Met
  BY <1>3 DEF Met, SharesSites, SharesGames
<1>5. \A p \in Req : Sure(p) /\ Counted(p) /\ Doomed(p) /\ \A a \in Address : ~Owes(p, a)
  BY <1>2, <1>3 DEF Sure, Counted, Doomed, Owes, Deploying, Early, Relocating, Filling
<1>6. \A a \in Address : Balance(a)
  BY <1>5 DEF Init, Settled, Balance
<1> QED
  BY <1>1, <1>4, <1>5, <1>6 DEF CInv

LEMMA CInductive == CInv /\ [Next]_vars => CInv'
<1> SUFFICES ASSUME CInv, [Next]_vars PROVE CInv'
  OBVIOUS
<1>1. TInv /\ TInv' /\ Met'
  BY TypeInductive, MetKept DEF CInv
<1>2. CASE UNCHANGED vars
  <2>1. req' = req /\ place' = place /\ num' = num /\ sites' = sites /\ UNCHANGED history
    BY <1>2 DEF vars, addressVars
  <2>2. \A p \in Req : /\ Sites(p)' = Sites(p) /\ Moving(p)' = Moving(p)
                       /\ Where(req[p])' = Where(req[p])
    BY <2>1 DEF Sites, Devices, Named, Moving, Where
  <2>3. \A p \in Req : (Sure(p) /\ Counted(p) /\ Doomed(p))'
    BY <2>1, <2>2 DEF CInv, Sure, Counted, Doomed, history
  <2>4. \A a \in Address \ raced' : Balance(a)'
    BY <2>1 DEF CInv, Balance, Owes, DevicesAt, history
  <2> QED
    BY <1>1, <2>3, <2>4 DEF CInv
<1>3. ASSUME NEW p \in Req, Stepped(p), Kept(p) PROVE CInv'
  <2>1. \A o \in Req : (Sure(o) /\ Counted(o) /\ Doomed(o))'
    BY <1>3, OthersKept DEF Kept
  <2>2. \A a \in Address \ raced' : Balance(a)'
    BY <1>3, OwnBalance, FarBalance DEF Kept
  <2> QED
    BY <1>1, <2>1, <2>2 DEF CInv
<1>4. ASSUME NEW p \in Req, Accept(p) \/ Serve(p) \/ Crash(p),
             raced \subseteq raced', racedDevices \subseteq racedDevices'
      PROVE  Stepped(p)
  BY <1>1, <1>4, Framed, OthersWait DEF Stepped, Alone
<1>5. ASSUME NEW p \in Req, Accept(p) \/ Serve(p), raced' = raced \cup MeetingSites',
             racedDevices' = racedDevices \cup MeetingDevices'
      PROVE  CInv'
  <2>1. Stepped(p)
    BY <1>4, <1>5
  <2>2. Kept(p)
    BY <1>5, <2>1, AcceptKept, DeployKept, DropStepKept, GameKept DEF Serve
  <2> QED
    BY <1>3, <2>1, <2>2
<1>6. ASSUME NEW p \in Req, Crash(p), raced' = raced \cup Sites(p),
             racedDevices' = racedDevices \cup Devices(p)
      PROVE  CInv'
  <2>1. Stepped(p)
    BY <1>4, <1>6
  <2>2. req'[p] = Idle /\ ~Moving(p)'
    BY <1>1, <1>6, CrashIdles, IdleMade DEF Moving
  <2>3. (Sure(p) /\ Counted(p) /\ Doomed(p))' /\ \A a \in Address : ~Owes(p, a)'
    BY <2>2, IdleMade, Carefree DEF Deploying, Early, Relocating, Filling, Dropping
  <2>4. \A a \in Address \ raced' : ~Owes(p, a)
    BY <1>1, <1>6, OwesHas
  <2>5. place' = place /\ num' = num
    BY <1>6 DEF Crash, addressVars
  <2>6. Kept(p)
    BY <2>3, <2>4, <2>5 DEF Kept, Own, DevicesAt
  <2> QED
    BY <1>3, <2>1, <2>6
<1> QED
  BY <1>2, <1>5, <1>6 DEF Next

(* What each request has read of places and counts still holds unless      *)
(* somebody else came by, and an address is short of exactly the device    *)
(* that is on its way there (deploy_device, delete_device, delete_address). *)
THEOREM CountsInvariant == Spec => []CInv
BY CInitially, CInductive, PTL DEF Spec

(* The count of an address is the number of its devices (deploy_device,    *)
(* Device.delete), once nobody has it in hand, if no two requests ever had *)
(* it in hand together and none died with it.                              *)
THEOREM EveryDeviceCounted == Spec => []CountsAgree
<1>1. CInv => CountsAgree
  <2> SUFFICES ASSUME CInv, NEW a \in Address \ raced, \A p \in Req : a \notin Sites(p)
               PROVE  num[a] = Cardinality(DevicesAt(a))
    BY DEF CountsAgree
  <2>1. \A p \in Req : ~Owes(p, a)
    BY OwesHas DEF CInv
  <2> QED
    BY <2>1 DEF CInv, Balance
<1> QED
  BY <1>1, CountsInvariant, PTL

(* No device loses its address to delete_address, unless two requests had  *)
(* that address in hand together.                                          *)
THEOREM NoneEvicted == Spec => OnlyEmptyErased
<1>1. CInv /\ [Next]_vars =>
        [\A d \in Device : place[d] \in Address /\ place'[d] = Nowhere => place[d] \in raced']_vars
  <2> SUFFICES ASSUME CInv, Next, NEW d \in Device, place[d] \in Address, place'[d] = Nowhere
               PROVE  place[d] \in raced'
    BY DEF vars
  <2>a. TInv /\ raced \subseteq raced' /\ place \in [Device -> Address \cup {Unborn, Gone, Nowhere}]
    BY DEF CInv, TInv, Placed, AddressTypeOK, Next
  <2>1. PICK p \in Req : Accept(p) \/ Serve(p) \/ Crash(p)
    BY DEF Next
  <2>2. PICK r : r = req[p] /\ Made(r)
    BY <2>a DEF TInv, Requests
  <2>3. place' # place
    BY Names
  <2>4. ~Accept(p) /\ ~GameStep(p) /\ ~Crash(p)
    BY <2>3 DEF Accept, Crash, Deploy, DropDevice, DropAddress, Withdraw, Publish, Begin, Read,
       GameStep, UpdateGameList, GetGameInfo, SaveVersion, ListDevices, Tell, Told, Unlist, Unlisted,
       RemoveGame, Removed, RemoveVersions, TryGame, addressVars
  <2>5. ~DeployStep(p)
    <3> SUFFICES ASSUME DeployStep(p) PROVE FALSE
      OBVIOUS
    <3>1. r.pc \in Deploying => r.addr \in Address
      BY <2>2, MadeIs
    <3>2. \/ r.pc = "device" /\ InsertDevice(r.dev, r.addr)
          \/ r.pc = "move" /\ MoveDevice(r.dev, r.addr, r.n + 1)
      BY <2>2, <2>3, <3>1 DEF DeployStep, CreateAddress, Look, CreateDevice, Uncount, Recount, Count, Move,
         ListGames, AddListed, NextListed, Record, TryAddress, Read, addressVars,
         InsertAddress, SaveNum, InsertDeploy
    <3>3. r.addr \in Address /\ place' = [place EXCEPT ![r.dev] = r.addr]
      BY <3>1, <3>2 DEF InsertDevice, MoveDevice, Deploying, Relocating
    <3> QED
      BY <2>a, <3>3, Names
  <2>6. r.pc = "erase" /\ EraseAddress(r.addr, r.todo)
    <3>1. ~Drop(p)
      <4> SUFFICES ASSUME Drop(p) PROVE FALSE
        OBVIOUS
      <4>1. place' = [place EXCEPT ![r.dev] = Gone]
        BY <2>2, <2>3 DEF Drop, TryAddress, DeleteDevice, addressVars
      <4> QED
        BY <2>a, <4>1, Names
    <3> QED
      BY <2>1, <2>2, <2>3, <2>4, <2>5, <3>1
         DEF Serve, DropStep, Undeploy, Undeployed, Erase, TryAddress, Read, addressVars
  <2>7. d \in r.todo
    BY <2>6, Names DEF EraseAddress
  <2> QED
    BY <2>a, <2>2, <2>6, <2>7, Names DEF CInv, Doomed
<1> QED
  BY <1>1, CountsInvariant, PTL DEF Spec, OnlyEmptyErased
-----------------------------------------------------------------------------
(* Deployment records *)

LEMMA GamesFramed ==
  ASSUME TInv, NEW p \in Req, Accept(p) \/ Serve(p) \/ Crash(p)
  PROVE  \A d \in Device : games'[d] = games[d] \/ d \in Devices(p) \/ Listing(p)
<1> DEFINE r == req[p]
<1>0. Made(r) /\ r.dev \in Device /\ games \in [Device -> [Game -> GameVersion \cup {NoVersion}]]
  BY MadeIs DEF TInv, Requests, Games
<1>1. CASE games' = games
  BY <1>1
<1>2. CASE GameStep(p)
  <2>1. Listing(p)
    BY <1>2, MovingIs DEF GameStep, UpdateGameList, GetGameInfo, SaveVersion, ListDevices, Tell, Told,
       Unlist, Unlisted, RemoveGame, Removed, RemoveVersions, Publishing, Informing, Withdrawing
  <2> QED
    BY <2>1
<1>3. CASE Accept(p) \/ Crash(p)
  BY <1>1, <1>3 DEF Accept, Crash, Deploy, DropDevice, DropAddress, Withdraw, Publish, Begin, Read, gameVars
<1>4. CASE DeployStep(p)
  <2>1. CASE AddListed(p)
    <3>1. r.pc = "add" /\ (games' = games \/ \E v : games' = [games EXCEPT ![r.dev][First(r.list).game] = v])
      BY <2>1 DEF AddListed, AddGame, gameVars
    <3>2. Devices(p) = {r.dev}
      BY <3>1, MovingIs, MovingHas DEF Deploying, Filling
    <3> QED
      BY <1>0, <3>1, <3>2
  <2>2. CASE ~AddListed(p)
    BY <1>1, <1>4, <2>2 DEF DeployStep, CreateAddress, Look, CreateDevice, Uncount, Recount, Count, Move,
       ListGames, NextListed, Record, TryAddress, Read, gameVars
  <2> QED
    BY <2>1, <2>2
<1>5. CASE DropStep(p)
  <2>1. CASE Undeploy(p)
    <3>1. r.pc = "undeploy" /\ games' = [games EXCEPT ![r.dev][First(r.list).game] = NoVersion]
      BY <2>1 DEF Undeploy, DeleteGame
    <3>2. Devices(p) = {r.dev}
      BY <3>1, MovingIs, MovingHas DEF Dropping
    <3> QED
      BY <1>0, <3>1, <3>2
  <2>2. CASE ~Undeploy(p)
    BY <1>1, <1>5, <2>2 DEF DropStep, Undeployed, Drop, Erase, TryAddress, Read, gameVars
  <2> QED
    BY <2>1, <2>2
<1> QED
  BY <1>2, <1>3, <1>4, <1>5 DEF Serve

LEMMA LogFramed ==
  ASSUME TInv, NEW p \in Req, Accept(p) \/ Serve(p) \/ Crash(p), ~Record(p)
  PROVE  logged' = logged
BY DEF Accept, Crash, Deploy, DropDevice, DropAddress, Withdraw, Publish, Begin, Read, Serve,
       GameStep, UpdateGameList, GetGameInfo, SaveVersion, ListDevices, Tell, Told, Unlist, Unlisted,
       RemoveGame, Removed, RemoveVersions, TryGame, addressVars,
       DeployStep, CreateAddress, Look, CreateDevice, Uncount, Recount, Count, Move,
       ListGames, AddListed, NextListed, TryAddress, InsertAddress, InsertDevice, SaveNum, MoveDevice,
       DropStep, Undeploy, Undeployed, Drop, Erase, DeleteDevice, EraseAddress

LEMMA LogsHas ==
  ASSUME TInv, NEW p \in Req, NEW d, Logs(p, d)
  PROVE  Moving(p) /\ d \in Devices(p)
BY MovingIs, MovingHas DEF Logs, Deploying

(* Games are added by the requests that looked the device up for it *)
LEMMA OnlyAdding ==
  ASSUME TInv, NEW p \in Req, Accept(p) \/ Serve(p) \/ Crash(p), req'[p].pc = "add"
  PROVE  ListGames(p) \/ NextListed(p)
<1> DEFINE r == req[p]
<1>0. Made(r)
  BY DEF TInv, Requests
<1>1. \A q : Set(p, q) => req'[p] = q
  BY DEF Set, TInv, Requests
<1>2. Idle.pc # "add"
  BY IdleMade
<1>a. /\ r \in Request /\ r.dev \in Device /\ r.todo \in SUBSET Device /\ Alive \in SUBSET Device
      /\ r.pc \in Deploying => r.kind = "deploy" /\ r.addr \in Address
      /\ r.pc \in Dropping => r.kind = "drop" /\ r.addr = Nowhere
      /\ r.pc \in Publishing => r.kind = "publish" /\ r.ver \in GameVersion
      /\ r.pc \in Withdrawing => r.kind = "withdraw"
  BY <1>0, MadeIs DEF Alive
<1>b. \A q \in Request : q.kind = "deploy" /\ q.addr \in Address => Located(q).pc # "add"
  BY <1>2, LocatedIs
<1>c. \A q \in Request, l \in SUBSET ListEntry :
        q.kind = "drop" /\ q.addr = Nowhere => Undeploying(q, l).pc # "add"
  BY <1>2, UndeployingIs
<1>d. \A q \in Request, D \in SUBSET Device : q.kind = "withdraw" => Removing(q, D).pc # "add"
  BY <1>2, RemovingIs
<1>e. \A q \in Request, D \in SUBSET Device :
        q.kind = "publish" /\ q.ver \in GameVersion => Telling(q, D).pc # "add"
  BY <1>2, TellingIs
<1>3. CASE Crash(p)
  BY <1>2, <1>3, CrashIdles
<1>4. CASE Accept(p)
  <2>1. ASSUME NEW d \in Device, NEW a \in Address, Deploy(p, d, a) PROVE FALSE
    <3> DEFINE q == [Idle EXCEPT !.kind = "deploy", !.dev = d, !.addr = a]
    <3>0. q \in Request /\ q.kind = "deploy" /\ q.addr \in Address
      BY IdleIs DEF Request, Kind
    <3>1. Located(q).pc # "add"
      <4> HIDE DEF q
      <4> QED
        BY <1>b, <3>0
    <3>2. [q EXCEPT !.pc = "create"].pc # "add"
      BY DeployAccepted
    <3> QED
      BY <1>1, <2>1, <3>1, <3>2 DEF Deploy, Begin, Read
  <2>2. ASSUME NEW d \in Device, DropDevice(p, d) PROVE FALSE
    <3>1. Undeploying([Idle EXCEPT !.kind = "drop", !.dev = d], GameList).pc # "add"
      BY <1>c, DropAccepted, GameListIs
    <3> QED
      BY <1>1, <2>2, <3>1 DEF DropDevice, Begin, Read
  <2>3. ASSUME NEW a \in Address, DropAddress(p, a) PROVE FALSE
    BY <1>1, <2>3, EraseAccepted DEF DropAddress, Begin, Read
  <2>4. ASSUME NEW g \in Game, Withdraw(p, g) PROVE FALSE
    <3> DEFINE q == [Idle EXCEPT !.kind = "withdraw", !.game = g]
    <3>0. q \in Request /\ q.kind = "withdraw"
      BY WithdrawAccepted
    <3>1. Removing(q, Alive).pc # "add"
      <4> HIDE DEF q
      <4> QED
        BY <1>a, <1>d, <3>0
    <3>2. [q EXCEPT !.row = FirstRow(g), !.pc = "unlist"].pc # "add"
      BY WithdrawAccepted
    <3> QED
      BY <1>1, <2>4, <3>1, <3>2 DEF Withdraw, Begin, Read
  <2>5. ASSUME NEW g \in Game, NEW v \in GameVersion, Publish(p, g, v) PROVE FALSE
    <3>1. [Idle EXCEPT !.kind = "publish", !.game = g, !.ver = v, !.row = FirstRow(g), !.pc = "list"].pc = "list"
      BY PublishAccepted
    <3> QED
      BY <1>1, <2>5, <3>1 DEF Publish, Begin, Read
  <2> QED
    BY <1>4, <2>1, <2>2, <2>3, <2>4, <2>5 DEF Accept
<1>5. CASE GameStep(p)
  <2>2. CASE ListDevices(p) \/ Told(p)
    <3>1. r.kind = "publish" /\ r.ver \in GameVersion
      BY <1>a, <2>2 DEF ListDevices, Told, Publishing, Informing
    <3>2. Telling(r, Alive).pc # "add" /\ Telling(r, r.todo).pc # "add"
      BY <1>a, <1>e, <3>1
    <3> QED
      BY <1>1, <2>2, <3>2 DEF ListDevices, Told, Read
  <2>3. CASE Unlisted(p) \/ Removed(p)
    <3>1. r.kind = "withdraw"
      BY <1>a, <2>3 DEF Unlisted, Removed, Withdrawing
    <3>2. Removing(r, Alive).pc # "add" /\ Removing(r, r.todo).pc # "add"
      BY <1>a, <1>d, <3>1
    <3> QED
      BY <1>1, <2>3, <3>2 DEF Unlisted, Removed, Read
  <2>4. CASE UpdateGameList(p)
    BY <1>0, <1>1, <1>2, <2>4, GoesOn DEF UpdateGameList, TryGame, Finish
  <2>5. CASE GetGameInfo(p)
    <3>1. [r EXCEPT !.found = {<<r.game, r.ver>>} \cap versions, !.pc = "version"].pc = "version"
      BY <1>a DEF Request
    <3> QED
      BY <1>1, <2>5, <3>1 DEF GetGameInfo, Read
  <2>6. CASE SaveVersion(p)
    BY <1>0, <1>1, <1>2, <2>6, GoesOn DEF SaveVersion, TryGame, Finish
  <2>7. CASE Tell(p)
    BY <1>0, <1>1, <1>2, <2>7, GoesOn DEF Tell, TryGame, Finish
  <2>8. CASE Unlist(p) \/ RemoveGame(p) \/ RemoveVersions(p)
    BY <1>0, <1>1, <1>2, <2>8, GoesOn DEF Unlist, RemoveGame, RemoveVersions, TryGame, Finish
  <2> QED
    BY <1>5, <2>2, <2>3, <2>4, <2>5, <2>6, <2>7, <2>8 DEF GameStep
<1>6. CASE DropStep(p)
  <2>1. CASE Undeploy(p)
    BY <1>0, <1>1, <2>1, GoesOn DEF Undeploy, Goto
  <2>2. CASE Undeployed(p)
    <3>1. r.kind = "drop" /\ r.addr = Nowhere
      BY <1>a, <2>2 DEF Undeployed, Dropping
    <3>2. Undeploying(r, Rest(r.list)).pc # "add"
      BY <1>0, <1>a, <1>c, <3>1, ListIs
    <3> QED
      BY <1>1, <2>2, <3>2 DEF Undeployed, Read
  <2>3. CASE Drop(p) \/ Erase(p)
    BY <1>1, <1>2, <2>3 DEF Drop, Erase, TryAddress, Finish
  <2> QED
    BY <1>6, <2>1, <2>2, <2>3 DEF DropStep
<1>7. CASE DeployStep(p)
  <2>1. CASE Look(p)
    <3>1. r.kind = "deploy" /\ r.addr \in Address
      BY <1>a, <2>1 DEF Look, Deploying, Early
    <3>2. Located(r).pc # "add"
      BY <1>a, <1>b, <3>1
    <3> QED
      BY <1>1, <1>2, <2>1, <3>2 DEF Look, Read
  <2>2. CASE CreateAddress(p) \/ CreateDevice(p)
    BY <1>0, <1>1, <1>2, <2>2, GoesOn DEF CreateAddress, CreateDevice, TryAddress, Finish
  <2>3. CASE Uncount(p)
    BY <1>0, <1>1, <1>2, <2>3, GoesOn DEF Uncount, TryAddress, Finish
  <2>6. CASE Recount(p)
    <3>1. [r EXCEPT !.n = num[r.addr], !.pc = IF r.old = Unborn THEN "count" ELSE "move"].pc \in {"count", "move"}
      BY <1>a DEF Request
    <3> QED
      BY <1>1, <1>2, <2>6, <3>1 DEF Recount, Read
  <2>4. CASE Count(p) \/ Move(p) \/ Record(p)
    BY <1>0, <1>1, <1>2, <2>4, GoesOn DEF Count, Move, Record, TryAddress, Finish
  <2>5. CASE AddListed(p)
    BY <1>0, <1>1, <1>2, <2>5, GoesOn DEF AddListed, Goto, Finish
  <2> QED
    BY <1>7, <2>1, <2>2, <2>3, <2>4, <2>5, <2>6 DEF DeployStep
<1> QED
  BY <1>3, <1>4, <1>5, <1>6, <1>7 DEF Serve

(* Whoever adds games to its device knows what games the device has *)
LEMMA SeenKept ==
  ASSUME RInv, NEW p \in Req, Stepped(p), Accept(p) \/ Serve(p) \/ Crash(p), NEW o \in Req
  PROVE  Seen(o)'
<1>a. TInv /\ Met /\ racedDevices \subseteq racedDevices'
  BY DEF Stepped, CInv, Alone
<1>1. CASE o # p
  <2>1. req'[o] = req[o] /\ req[o].dev \in Device
    BY <1>1, <1>a, MadeIs DEF Stepped, Alone, TInv, Requests
  <2> SUFFICES ASSUME req[o].pc = "add", req[o].dev \notin racedDevices PROVE games'[req[o].dev] = games[req[o].dev]
    BY <1>a, <2>1 DEF Seen, RInv
  <2>2. Moving(o) /\ Devices(o) = {req[o].dev}
    BY <1>a, MovingIs, MovingHas DEF Deploying, Filling
  <2>3. req[o].dev \notin Devices(p) /\ ~Listing(p)
    BY <1>1, <1>a, <2>2 DEF Met
  <2> QED
    BY <1>a, <2>1, <2>3, GamesFramed
<1>2. CASE o = p
  <2> SUFFICES ASSUME req'[p].pc = "add" PROVE req'[p].seen = games'[req'[p].dev]
    BY <1>2 DEF Seen
  <2> PICK r : r = req[p] /\ Made(r)
    BY <1>a DEF TInv, Requests
  <2>1. \A q : Set(p, q) => req'[p] = q
    BY <1>a DEF Set, TInv, Requests
  <2>2. Idle.pc # "add"
    BY IdleMade
  <2>3. ASSUME NEW l \in SUBSET ListEntry, Read(p, Adding(r, l)), r.pc \in {"games", "next"}
        PROVE  req'[p].seen = games'[req'[p].dev]
    <3> PICK q : q = Adding(r, l)
      OBVIOUS
    <3>1. req'[p] = q /\ games' = games
      BY <2>1, <2>3 DEF Read, gameVars
    <3>2. q.seen = games[r.dev] /\ q.dev = r.dev
      BY <1>a, <2>2, <2>3, <3>1, AddingIs DEF Same
    <3> QED
      BY <3>1, <3>2
  <2>4. ListGames(p) \/ NextListed(p)
    BY <1>a, OnlyAdding
  <2> QED
    BY <1>a, <2>3, <2>4, ListIs DEF ListGames, NextListed
<1> QED
  BY <1>1, <1>2

(* For a device p has in hand alone: it is written down, or p will do so *)
Noted(p, d) == place[d] \in Address => logged[d] = place[d] \/ Logs(p, d)

(* A step that touches neither the device nor its record *)
LEMMA NotedRead ==
  ASSUME NEW p \in Req, NEW d, Noted(p, d), UNCHANGED <<place, logged>>, ~Logs(p, d) \/ Logs(p, d)'
  PROVE  Noted(p, d)'
BY DEF Noted

LEMMA DeployNoted ==
  ASSUME NEW p \in Req, Stepped(p), NEW d \in Device, DeployStep(p), Noted(p, d), Seen(p),
         d = req[p].dev, d \notin racedDevices, d \in Alive'
  PROVE  Noted(p, d)'
<1> DEFINE r == req[p]
<1>1. Made(r) /\ TInv
  BY Knows DEF Stepped, CInv
<1>2. r.pc \in Deploying
  BY DEF DeployStep, CreateAddress, Look, CreateDevice, Uncount, Recount, Count, Move, ListGames, AddListed,
     NextListed, Record, Deploying, Early, Relocating, Filling
<1>3. Where(r) /\ r.addr \in Address /\ Moving(p)
  BY <1>1, <1>2, MadeIs, MovingIs DEF Sure, Stepped, CInv
<1>4. \A q : Set(p, q) => req'[p] = q
  BY <1>1 DEF Set, TInv, Requests
<1>5. \A e \in Device : place[e] \in Address => place[e] \in sites
  BY <1>1 DEF TInv, Placed
<1>6. UNCHANGED addressVars => place' = place /\ logged' = logged
  BY DEF addressVars
<1>7. ASSUME NEW q, req'[p] = q, q.pc \in Filling \cup {"record"}, Same(q, r),
             place' = place /\ logged' = logged
      PROVE  Noted(p, d)'
  BY <1>7, NotedRead DEF Logs, Same
<1>8. CASE CreateAddress(p)
  BY <1>6, <1>8, NotedRead DEF CreateAddress, TryAddress, InsertAddress, Logs, Filling
<1>9. CASE Look(p)
  BY <1>6, <1>9, NotedRead DEF Look, Read, Logs, Filling
<1>10. CASE CreateDevice(p)
  <2>1. CASE MayInsert(r.dev, r.addr)
    <3> PICK q : q = [r EXCEPT !.pc = "recount"]
      OBVIOUS
    <3>1. q.pc = "recount" /\ q.dev = d /\ q.addr = r.addr
      BY <1>1, <1>10, GoesOn DEF CreateDevice, Same
    <3>2. req'[p] = q /\ InsertDevice(r.dev, r.addr)
      BY <1>4, <1>10, <2>1 DEF CreateDevice, TryAddress
    <3>3. place'[d] = r.addr
      BY <1>1, <3>2 DEF InsertDevice, TInv, Placed, AddressTypeOK
    <3> QED
      BY <3>1, <3>2, <3>3 DEF Noted, Logs, Filling
  <2>2. CASE ~MayInsert(r.dev, r.addr)
    BY <1>6, <1>10, <2>2, NotedRead DEF CreateDevice, TryAddress, Logs, Filling
  <2> QED
    BY <2>1, <2>2
<1>11. CASE Uncount(p)
  BY <1>6, <1>11, NotedRead DEF Uncount, TryAddress, SaveNum, Logs, Filling
<1>12. CASE Recount(p)
  <2>1. place' = place /\ logged' = logged
    BY <1>6, <1>12 DEF Recount, Read
  <2>2. CASE r.addr \notin sites
    BY <1>5, <2>1, <2>2, NotedRead DEF Logs, Noted
  <2>3. CASE r.addr \in sites
    <3> PICK q : q = [r EXCEPT !.n = num[r.addr], !.pc = IF r.old = Unborn THEN "count" ELSE "move"]
      OBVIOUS
    <3>1. req'[p] = q
      BY <1>4, <1>12, <2>3 DEF Recount, Read
    <3>2. Same(q, r) /\ q.pc = IF r.old = Unborn THEN "count" ELSE "move"
      BY <1>1, <1>12, RecountIs DEF Recount
    <3>3. CASE r.old = Unborn
      BY <1>7, <2>1, <3>1, <3>2, <3>3 DEF Filling
    <3>4. CASE r.old # Unborn
      <4>1. place[d] = r.old /\ r.old # r.addr
        BY <1>1, <1>2, <1>3, <1>12, <3>4 DEF Recount, Where, Made
      <4> QED
        BY <2>1, <4>1, NotedRead DEF Logs
    <3> QED
      BY <3>3, <3>4
  <2> QED
    BY <2>2, <2>3
<1>13. CASE Count(p)
  <2>1. place' = place /\ logged' = logged
    BY <1>6, <1>13 DEF Count, TryAddress, SaveNum
  <2>2. CASE r.addr \notin sites
    BY <1>5, <2>1, <2>2, NotedRead DEF Logs, Noted
  <2>3. CASE r.addr \in sites
    <3> PICK q : q = [r EXCEPT !.n = 0, !.pc = "games"]
      OBVIOUS
    <3>1. req'[p] = q
      BY <1>4, <1>13, <2>3 DEF Count, TryAddress
    <3>2. Same(q, r) /\ q.pc = "games"
      BY <1>1, <1>13, GoesOn DEF Count
    <3> QED
      BY <1>7, <2>1, <3>1, <3>2 DEF Filling
  <2> QED
    BY <2>2, <2>3
<1>14. CASE Move(p)
  <2>1. CASE MayMove(r.dev, r.addr)
    <3> PICK q : q = [r EXCEPT !.n = 0, !.pc = "record"]
      OBVIOUS
    <3>1. q.pc = "record" /\ q.dev = d /\ q.addr = r.addr
      BY <1>1, <1>14, GoesOn DEF Move, Same
    <3>2. req'[p] = q /\ MoveDevice(r.dev, r.addr, r.n + 1)
      BY <1>4, <1>14, <2>1 DEF Move, TryAddress
    <3>3. place'[d] = r.addr
      BY <1>1, <3>2 DEF MoveDevice, TInv, Placed, AddressTypeOK
    <3> QED
      BY <3>1, <3>2, <3>3 DEF Noted, Logs
  <2>2. CASE ~MayMove(r.dev, r.addr)
    BY <1>6, <1>14, <2>2, NotedRead DEF Move, TryAddress, Logs, Filling
  <2> QED
    BY <2>1, <2>2
<1>15. CASE ListGames(p) \/ NextListed(p)
  <2>1. PICK l \in SUBSET ListEntry : Read(p, Adding(r, l)) /\ r.pc \in {"games", "next"}
    BY <1>1, <1>15, ListIs DEF ListGames, NextListed
  <2> PICK q : q = Adding(r, l)
    OBVIOUS
  <2>2. req'[p] = q /\ place' = place /\ logged' = logged
    BY <1>4, <1>6, <2>1 DEF Read
  <2>3. r.dev \in Alive
    BY <2>2 DEF Alive
  <2>4. Same(q, r) /\ q.pc \in {"add", "record"}
    BY <1>1, <2>1, <2>3, AddingIs
  <2> QED
    BY <1>7, <2>2, <2>4 DEF Filling
<1>16. CASE AddListed(p)
  <2>1. r.pc = "add" /\ place' = place /\ logged' = logged
    BY <1>6, <1>16 DEF AddListed
  <2>2. r.seen = games[d]
    BY <2>1 DEF Seen
  <2>3. Goto(p, "next")
    BY <1>16, <2>2 DEF AddListed, MayAddGame
  <2> PICK q : q = [r EXCEPT !.pc = "next"]
    OBVIOUS
  <2>4. req'[p] = q /\ q.pc = "next" /\ Same(q, r)
    BY <1>1, <1>4, <2>1, <2>3, GoesOn DEF Goto
  <2> QED
    BY <1>7, <2>1, <2>4 DEF Filling
<1>17. CASE Record(p)
  <2>1. InsertDeploy(r.dev, r.addr) /\ r.pc = "record"
    BY <1>17 DEF Record, TryAddress
  <2>2. place[d] = r.addr
    BY <1>3, <2>1 DEF Where
  <2> QED
    BY <1>1, <2>1, <2>2 DEF InsertDeploy, Noted, TInv, Placed, AddressTypeOK
<1> QED
  BY <1>8, <1>9, <1>10, <1>11, <1>12, <1>13, <1>14, <1>15, <1>16, <1>17 DEF DeployStep

LEMMA DropNoted ==
  ASSUME NEW p \in Req, Stepped(p), NEW d \in Device, DropStep(p), Noted(p, d), d \in Alive'
  PROVE  Noted(p, d)' \/ d \notin Devices(p)
<1> DEFINE r == req[p]
<1>1. Made(r) /\ TInv /\ place \in [Device -> Address \cup {Unborn, Gone, Nowhere}]
  BY Knows DEF Stepped, CInv, TInv, Placed, AddressTypeOK
<1>2. ~Logs(p, d)
  BY DEF DropStep, Undeploy, Undeployed, Drop, Erase, Logs, Filling
<1>3. UNCHANGED addressVars => place' = place /\ logged' = logged
  BY DEF addressVars
<1>4. CASE Undeploy(p) \/ Undeployed(p)
  BY <1>2, <1>3, <1>4, NotedRead DEF Undeploy, Undeployed, Read
<1>5. CASE Drop(p)
  <2>1. CASE MayDelete(r.old, r.n)
    <3>1. r.pc = "drop" /\ place' = [place EXCEPT ![r.dev] = Gone]
      BY <1>5, <2>1 DEF Drop, TryAddress, DeleteDevice
    <3>2. Devices(p) = {r.dev}
      BY <1>1, <3>1, MovingIs, MovingHas DEF Dropping
    <3> QED
      BY <1>1, <3>1, <3>2 DEF Alive
  <2>2. CASE ~MayDelete(r.old, r.n)
    BY <1>2, <1>3, <1>5, <2>2, NotedRead DEF Drop, TryAddress
  <2> QED
    BY <2>1, <2>2
<1>6. CASE Erase(p)
  <2>1. CASE MayErase(r.addr, r.todo)
    <3>1. r.pc = "erase" /\ EraseAddress(r.addr, r.todo)
      BY <1>6, <2>1 DEF Erase, TryAddress
    <3>2. Devices(p) = r.todo
      BY <1>1, <3>1, MadeIs, ErasingHas
    <3> QED
      BY <3>1, <3>2, Names DEF EraseAddress, Noted
  <2>2. CASE ~MayErase(r.addr, r.todo)
    BY <1>2, <1>3, <1>6, <2>2, NotedRead DEF Erase, TryAddress
  <2> QED
    BY <2>1, <2>2
<1> QED
  BY <1>4, <1>5, <1>6 DEF DropStep

LEMMA RInitially == Init => RInv
<1> SUFFICES ASSUME Init PROVE RInv
  OBVIOUS
<1>1. \A d \in Device : Logged(d)
  BY DEF Init, Settled, Logged
<1>2. \A p \in Req : Seen(p)
  BY IdleMade DEF Init, Seen
<1> QED
  BY <1>1, <1>2, CInitially DEF RInv

LEMMA RInductive == RInv /\ [Next]_vars => RInv'
<1> SUFFICES ASSUME RInv, [Next]_vars PROVE RInv'
  OBVIOUS
<1>1. CInv /\ CInv' /\ TInv /\ TInv' /\ Met /\ Met'
  BY CInductive DEF RInv, CInv
<1>2. CASE UNCHANGED vars
  <2>1. req' = req /\ place' = place /\ logged' = logged /\ games' = games /\ UNCHANGED history
    BY <1>2 DEF vars, addressVars, gameVars
  <2>2. \A d \in Device : Logged(d)'
    BY <2>1 DEF RInv, Logged, Logs, Alive, history
  <2>3. \A p \in Req : Seen(p)'
    BY <2>1 DEF RInv, Seen, history
  <2> QED
    BY <1>1, <2>2, <2>3 DEF RInv
<1>3. ASSUME NEW p \in Req, raced \subseteq raced', racedDevices \subseteq racedDevices',
             Accept(p) \/ Serve(p) \/ (Crash(p) /\ Devices(p) \subseteq racedDevices')
      PROVE  RInv'
  <2>1. Stepped(p)
    BY <1>1, <1>3, Framed, OthersWait DEF Stepped, Alone
  <2>2. \A o \in Req : Seen(o)'
    BY <1>3, <2>1, SeenKept
  <2>3. ASSUME NEW d \in Device PROVE Logged(d)'
    <3> SUFFICES ASSUME d \in Alive', d \notin racedDevices', place'[d] \in Address
                 PROVE  logged'[d] = place'[d] \/ \E o \in Req : Logs(o, d)'
      BY DEF Logged
    <3>1. d \notin racedDevices /\ Logged(d)
      BY <1>3 DEF RInv
    <3>2. place[d] \in Address => d \in Alive
      BY Names DEF Alive
    <3>3. CASE d \notin Devices(p)
      <4>1. place'[d] = place[d]
        BY <2>1, <3>3 DEF Stepped, Frame
      <4>2. logged'[d] = logged[d]
        <5>1. CASE Record(p)
          <6>1. req[p].pc = "record" /\ InsertDeploy(req[p].dev, req[p].addr)
            BY <5>1 DEF Record, TryAddress
          <6>2. req[p].dev # d
            BY <1>1, <3>3, <6>1, MovingIs, MovingHas DEF Deploying
          <6> QED
            BY <1>1, <6>1, <6>2 DEF InsertDeploy, TInv, Placed, AddressTypeOK
        <5>2. CASE ~Record(p)
          BY <1>1, <1>3, <5>2, LogFramed
        <5> QED
          BY <5>1, <5>2
      <4>3. ~Logs(p, d)
        BY <1>1, <3>3, LogsHas
      <4>4. \A o \in Req \ {p} : Logs(o, d) => Logs(o, d)'
        BY <2>1, <4>1 DEF Logs, Stepped, Alone
      <4> QED
        BY <3>1, <3>2, <4>1, <4>2, <4>3, <4>4 DEF Logged
    <3>4. CASE d \in Devices(p)
      <4>1. \A o \in Req \ {p} : ~Logs(o, d)
        BY <1>1, <3>1, <3>4, LogsHas DEF Met
      <4>2. Noted(p, d)
        BY <3>1, <3>2, <4>1 DEF Logged, Noted
      <4>3. Accept(p) \/ Serve(p)
        BY <1>3, <3>4
      <4>4. ~Accept(p)
        <5>1. Accept(p) => req[p].pc = "idle"
          BY DEF Accept, Deploy, DropDevice, DropAddress, Withdraw, Publish, Begin
        <5> QED
          BY <3>4, <5>1, IdleHas
      <4>5. ~GameStep(p)
        <5>1. GameStep(p) => Listing(p)
          BY <1>1, MovingIs DEF GameStep, UpdateGameList, GetGameInfo, SaveVersion, ListDevices, Tell, Told,
             Unlist, Unlisted, RemoveGame, Removed, RemoveVersions, Publishing, Informing, Withdrawing
        <5> QED
          BY <3>4, <5>1, IdleHas
      <4>6. CASE DeployStep(p)
        <5>1. req[p].pc \in Deploying
          BY <4>6 DEF DeployStep, CreateAddress, Look, CreateDevice, Uncount, Recount, Count, Move, ListGames,
             AddListed, NextListed, Record, Deploying, Early, Relocating, Filling
        <5>2. d = req[p].dev
          BY <1>1, <3>4, <5>1, MovingIs, MovingHas
        <5>3. Seen(p)
          BY DEF RInv
        <5>4. Noted(p, d)'
          BY <2>1, <3>1, <4>2, <4>6, <5>2, <5>3, DeployNoted
        <5> QED
          BY <5>4 DEF Noted
      <4>7. CASE DropStep(p)
        <5>1. Noted(p, d)'
          BY <2>1, <3>4, <4>2, <4>7, DropNoted
        <5> QED
          BY <5>1 DEF Noted
      <4> QED
        BY <4>3, <4>4, <4>5, <4>6, <4>7 DEF Serve
    <3> QED
      BY <3>3, <3>4
  <2> QED
    BY <1>1, <2>2, <2>3 DEF RInv
<1> QED
  BY <1>2, <1>3 DEF Next

(* A device that nobody raced for is written down at its address, or the   *)
(* request that brought it there has still to come to Deploy.create.       *)
THEOREM RecordsInvariant == Spec => []RInv
BY RInitially, RInductive, PTL DEF Spec

(* The newest deployment record of a device says where it is (Deploy.create *)
(* comes last in deploy_device), once nobody moves it, if no two requests   *)
(* ever had the device in hand together and none died with it.              *)
THEOREM EveryMoveRecorded == Spec => []RecordsAgree
<1>1. RInv => RecordsAgree
  <2> SUFFICES ASSUME RInv, NEW d \in Alive \ racedDevices, place[d] \in Address,
                      \A p \in Req : ~InHand(p, d)
               PROVE  logged[d] = place[d]
    BY DEF RecordsAgree
  <2>1. TInv /\ Logged(d)
    BY DEF RInv, CInv, Alive
  <2>2. \A p \in Req : ~Logs(p, d)
    BY <2>1, LogsHas DEF InHand, Logs
  <2> QED
    BY <2>1, <2>2 DEF Logged
<1> QED
  BY <1>1, RecordsInvariant, PTL
-----------------------------------------------------------------------------
(* The games of the devices *)

(* Only a request for the game changes its rows, and only one for the game *)
(* or for the device the games of the device                               *)
LEMMA ListFramed ==
  ASSUME TInv, NEW p \in Req, Accept(p) \/ Serve(p) \/ Crash(p), NEW g \in Game, g \notin Listed(p)
  PROVE  /\ listed'[g] = listed[g]
         /\ \A v : <<g, v>> \in versions' <=> <<g, v>> \in versions
         /\ ~Moving(p) => \A d \in Device : games'[d][g] = games[d][g]
<1> DEFINE r == req[p]
<1>1. Made(r) /\ r.dev \in Device /\ r.game \in Game
  BY MadeIs DEF TInv, Requests
<1>2. CASE Accept(p) \/ Crash(p)
  BY <1>2 DEF Accept, Crash, Deploy, DropDevice, DropAddress, Withdraw, Publish, Begin, Read, gameVars
<1>3. CASE DeployStep(p)
  <2>1. r.pc \in Deploying
    BY <1>3 DEF DeployStep, CreateAddress, Look, CreateDevice, Uncount, Recount, Count, Move, ListGames,
       AddListed, NextListed, Record, Deploying, Early, Relocating, Filling
  <2>2. listed' = listed /\ versions' = versions
    BY <1>3 DEF DeployStep, CreateAddress, Look, CreateDevice, Uncount, Recount, Count, Move, ListGames,
       AddListed, NextListed, Record, TryAddress, Read, gameVars, AddGame
  <2> QED
    BY <2>1, <2>2, MovingIs
<1>4. CASE DropStep(p)
  <2>1. CASE Undeploy(p)
    <3>1. Moving(p)
      BY <2>1, MovingIs DEF Undeploy, Dropping
    <3> QED
      BY <2>1, <3>1 DEF Undeploy, DeleteGame
  <2>2. CASE Undeployed(p) \/ Drop(p) \/ Erase(p)
    BY <2>2 DEF Undeployed, Drop, Erase, TryAddress, Read, gameVars
  <2> QED
    BY <1>4, <2>1, <2>2 DEF DropStep
<1>5. CASE GameStep(p)
  <2>1. r.pc \in Publishing \cup Withdrawing
    BY <1>5 DEF GameStep, UpdateGameList, GetGameInfo, SaveVersion, ListDevices, Tell, Told, Unlist, Unlisted,
       RemoveGame, Removed, RemoveVersions, Publishing, Informing, Withdrawing
  <2>2. g # r.game
    BY <2>1, MovingIs DEF Listed
  <2>3. listed \in [Game -> SUBSET ListRow] /\ games \in [Device -> [Game -> GameVersion \cup {NoVersion}]]
    BY DEF TInv, Games
  <2>4. CASE UpdateGameList(p)
    BY <1>1, <2>2, <2>3, <2>4 DEF UpdateGameList, TryGame, InsertList, UpdateList, gameVars
  <2>5. CASE SaveVersion(p)
    BY <2>2, <2>5 DEF SaveVersion, TryGame, InsertVersion, gameVars
  <2>6. CASE Tell(p)
    BY <1>1, <2>2, <2>3, <2>6 DEF Tell, TryGame, AddGame, gameVars
  <2>7. CASE Unlist(p)
    BY <1>1, <2>2, <2>3, <2>7 DEF Unlist, TryGame, DeleteList
  <2>8. CASE RemoveGame(p)
    BY <1>1, <2>2, <2>3, <2>8 DEF RemoveGame, TryGame, DeleteGame
  <2>9. CASE RemoveVersions(p)
    <3>1. \A gv \in r.found : gv[1] = r.game
      BY <1>1, <2>9 DEF RemoveVersions, Made
    <3> QED
      BY <2>2, <2>9, <3>1 DEF RemoveVersions, TryGame, DeleteVersions
  <2> QED
    BY <1>5, <2>4, <2>5, <2>6, <2>7, <2>8, <2>9
       DEF GameStep, GetGameInfo, ListDevices, Told, Unlisted, Removed, Read, gameVars
<1> QED
  BY <1>2, <1>3, <1>4, <1>5 DEF Serve

LEMMA AliveFramed ==
  ASSUME TInv, NEW p \in Req, Accept(p) \/ Serve(p) \/ Crash(p), ~Moving(p)
  PROVE  Alive' = Alive /\ \A d \in Device : place'[d] = place[d] \/ place'[d] = Nowhere
<1>1. CASE place' = place
  BY <1>1 DEF Alive
<1>2. CASE Accept(p) \/ Crash(p) \/ GameStep(p)
  BY <1>1, <1>2 DEF Accept, Crash, Deploy, DropDevice, DropAddress, Withdraw, Publish, Begin, Read,
       GameStep, UpdateGameList, GetGameInfo, SaveVersion, ListDevices, Tell, Told, Unlist, Unlisted,
       RemoveGame, Removed, RemoveVersions, TryGame, addressVars
<1>3. CASE DeployStep(p)
  <2>1. req[p].pc \in Deploying
    BY <1>3 DEF DeployStep, CreateAddress, Look, CreateDevice, Uncount, Recount, Count, Move, ListGames,
       AddListed, NextListed, Record, Deploying, Early, Relocating, Filling
  <2> QED
    BY <2>1, MovingIs
<1>4. CASE DropStep(p)
  <2>1. CASE Undeploy(p) \/ Undeployed(p) \/ Drop(p)
    BY <2>1, MovingIs DEF Undeploy, Undeployed, Drop, Dropping
  <2>2. CASE Erase(p)
    BY <1>1, <2>2, Names DEF Erase, TryAddress, EraseAddress, MayErase, addressVars, Alive
  <2> QED
    BY <1>4, <2>1, <2>2 DEF DropStep
<1> QED
  BY <1>2, <1>3, <1>4 DEF Serve

LEMMA StaysBorn ==
  ASSUME NEW p \in Req, Frame(p), NEW d \in Device, place[d] # Unborn
  PROVE  place'[d] # Unborn
BY Names DEF Frame, Sites

LEMMA Nobody == NoGames \in [Game -> {NoVersion}] /\ \A g \in Game : NoGames[g] = NoVersion
BY DEF NoGames

LEMMA UnbornsKept ==
  ASSUME TInv, Unborns, NEW p \in Req, Born(p), Frame(p), Accept(p) \/ Serve(p) \/ Crash(p)
  PROVE  Unborns'
<1> DEFINE r == req[p]
<1>1. Made(r) /\ r.dev \in Device /\ r.game \in Game /\ games \in [Device -> [Game -> GameVersion \cup {NoVersion}]]
  BY MadeIs DEF TInv, Requests, Games
<1> SUFFICES ASSUME NEW d \in Device, place'[d] = Unborn PROVE games'[d] = NoGames
  BY DEF Unborns
<1>2. place[d] = Unborn /\ games[d] = NoGames
  BY StaysBorn DEF Unborns
<1>3. CASE games' = games
  BY <1>2, <1>3
<1>4. CASE AddListed(p) \/ Tell(p)
  <2>1. r.dev # d
    BY <1>2, <1>4 DEF AddListed, Tell, Born, Filling
  <2> QED
    BY <1>1, <1>2, <1>4, <2>1 DEF AddListed, Tell, TryGame, AddGame, gameVars
<1>5. ASSUME NEW g, DeleteGame(r.dev, g) PROVE games'[d] = NoGames
  <2>1. games' = [games EXCEPT ![r.dev] = [games[r.dev] EXCEPT ![g] = NoVersion]]
    BY <1>5 DEF DeleteGame
  <2>2. r.dev = d => games'[d] = [NoGames EXCEPT ![g] = NoVersion]
    BY <1>1, <1>2, <2>1
  <2>3. [NoGames EXCEPT ![g] = NoVersion] = NoGames
    BY DEF NoGames
  <2> QED
    BY <1>1, <1>2, <2>1, <2>2, <2>3
<1>6. CASE Undeploy(p) \/ RemoveGame(p)
  BY <1>5, <1>6 DEF Undeploy, RemoveGame, TryGame
<1>7. CASE ~AddListed(p) /\ ~Tell(p) /\ ~Undeploy(p) /\ ~RemoveGame(p)
  BY <1>3, <1>7 DEF Accept, Crash, Deploy, DropDevice, DropAddress, Withdraw, Publish, Begin, Read, Serve,
       GameStep, UpdateGameList, GetGameInfo, SaveVersion, ListDevices, Told, Unlist, Unlisted,
       Removed, RemoveVersions, TryGame, gameVars, InsertList, UpdateList, InsertVersion, DeleteList,
       DeleteVersions, DeployStep, CreateAddress, Look, CreateDevice, Uncount, Recount, Count, Move,
       ListGames, NextListed, Record, TryAddress, DropStep, Undeployed, Drop, Erase
<1> QED
  BY <1>4, <1>6, <1>7

(* A device that p alone has in hand *)
LEMMA OwnFill ==
  ASSUME GInv, NEW p \in Req, Moving(p), NEW d \in Device, d = req[p].dev, d \notin racedDevices,
         place[d] \in Address, NEW g \in Game \ racedGames
  PROVE  Match(d, g) \/ Fills(p, d, g)
<1>1. Matched(d, g) /\ Met
  BY DEF GInv, Follows, RInv, CInv
<1>2. d \in Alive
  BY Names DEF Alive
<1>3. \A o \in Req \ {p} : g \notin Listed(o) /\ ~Fills(o, d, g)
  <2> TAKE o \in Req \ {p}
  <2>1. ~Listing(o) /\ d \notin Devices(o)
    BY <1>1 DEF Met, Devices
  <2> QED
    BY <2>1 DEF Listed, Fills, Devices
<1>4. g \notin Listed(p)
  BY DEF Listed, Listing, Moving
<1> QED
  BY <1>1, <1>2, <1>3, <1>4 DEF Matched

(* What a step of deploy_device or delete_device leaves of the games of d *)
Served(p, d) ==
    /\ Born(p)' /\ Listed(p)' = {} /\ UNCHANGED <<listed, versions>>
    /\ \A g \in Game \ racedGames : Full(p, g)'
    /\ \A g \in Game \ racedGames :
          d \notin racedDevices /\ d \in Alive' /\ place'[d] \in Address => Match(d, g)' \/ Fills(p, d, g)'

GStepped(p) == GInv /\ Stepped(p) /\ (\A q : Set(p, q) => req'[p] = q)

LEMMA Stops ==
  ASSUME NEW p \in Req, req'[p] = Idle
  PROVE  Born(p)' /\ Listed(p)' = {} /\ \A g \in Game \ racedGames : Full(p, g)'
BY IdleMade DEF Born, Listed, Listing, Full, Relocating, Filling

LEMMA Continues ==
  ASSUME NEW p \in Req, NEW q, req'[p] = q, q.kind \in {"deploy", "drop"}, q.pc \notin {"add", "next"}
  PROVE  Listed(p)' = {} /\ \A g \in Game \ racedGames : Full(p, g)'
BY DEF Listed, Listing, Full

(* with the same device where it was and nothing of its games changed *)
LEMMA MatchStays ==
  ASSUME GInv, NEW p \in Req, Moving(p), NEW d \in Device, d = req[p].dev, UNCHANGED <<place, games, listed>>,
         \A g \in Game \ racedGames : Fills(p, d, g) => Match(d, g) \/ Fills(p, d, g)'
  PROVE  \A g \in Game \ racedGames :
           d \notin racedDevices /\ d \in Alive' /\ place'[d] \in Address => Match(d, g)' \/ Fills(p, d, g)'
<1> SUFFICES ASSUME NEW g \in Game \ racedGames, d \notin racedDevices, place[d] \in Address
             PROVE  Match(d, g)' \/ Fills(p, d, g)'
  OBVIOUS
<1>1. Match(d, g)' <=> Match(d, g)
  BY DEF Match
<1> QED
  BY <1>1, OwnFill

LEMMA DeployOwn ==
  ASSUME NEW p \in Req, GStepped(p), DeployStep(p)
  PROVE  LET r == req[p] IN
         /\ Made(r) /\ r.dev \in Device /\ r.pc \in Deploying /\ r.kind = "deploy" /\ r.addr \in Address
         /\ Moving(p) /\ TInv /\ GInv /\ Stepped(p)
         /\ r.dev \notin racedDevices => Where(r)
         /\ Born(p) /\ Frame(p)
         /\ \A e \in Device : place[e] \in Address => place[e] \in sites
         /\ \A q : Set(p, q) => req'[p] = q
<1> DEFINE r == req[p]
<1>1. r.pc \in Deploying
  BY DEF DeployStep, CreateAddress, Look, CreateDevice, Uncount, Recount, Count, Move, ListGames, AddListed,
     NextListed, Record, Deploying, Early, Relocating, Filling
<1>2. TInv /\ GInv /\ Stepped(p) /\ Born(p) /\ Frame(p) /\ Sure(p)
  BY DEF GStepped, Stepped, CInv, GInv
<1>3. Made(r)
  BY <1>2 DEF TInv, Requests
<1>4. Moving(p) /\ r.dev \in Device /\ r.kind = "deploy" /\ r.addr \in Address
  BY <1>1, <1>2, <1>3, MadeIs, MovingIs
<1>5. r.dev \notin racedDevices => Where(r)
  BY <1>2, <1>4 DEF Sure
<1>6. \A e \in Device : place[e] \in Address => place[e] \in sites
  BY <1>2 DEF TInv, Placed
<1> QED
  BY <1>1, <1>2, <1>3, <1>4, <1>5, <1>6 DEF GStepped

LEMMA ReadIs == ASSUME NEW p, NEW q, Read(p, q)
                PROVE  Set(p, q) /\ UNCHANGED <<sites, num, place, logged, listed, versions, games>>
BY DEF Read, addressVars, gameVars

LEMMA EarlyServed ==
  ASSUME NEW p \in Req, GStepped(p), CreateAddress(p) \/ Look(p) \/ CreateDevice(p)
  PROVE  Served(p, req[p].dev)
<1> DEFINE r == req[p]
<1> PICK d : d = r.dev
  OBVIOUS
<1>0. DeployStep(p)
  BY DEF DeployStep
<1>1. /\ Made(r) /\ d \in Device /\ r.kind = "deploy" /\ r.addr \in Address
      /\ Moving(p) /\ TInv /\ GInv /\ Stepped(p)
      /\ d \notin racedDevices => Where(r)
      /\ \A q : Set(p, q) => req'[p] = q
  BY <1>0, DeployOwn
<1>2. \A g \in Game : ~Fills(p, d, g)
  BY <1>1 DEF Fills, CreateAddress, Look, CreateDevice
<1>3. ASSUME UNCHANGED <<place, games, listed, versions>>, Born(p)', Listed(p)' = {},
             \A g \in Game \ racedGames : Full(p, g)'
      PROVE  Served(p, d)
  BY <1>1, <1>2, <1>3, MatchStays DEF Served
<1>4. CASE Finish(p) /\ UNCHANGED <<addressVars, gameVars>>
  <2>1. req'[p] = Idle /\ UNCHANGED <<place, games, listed, versions>>
    BY <1>1, <1>4 DEF Finish, addressVars, gameVars
  <2> QED
    BY <1>3, <2>1, Stops
<1>5. CASE CreateAddress(p)
  <2>1. CASE r.addr \notin sites
    <3> PICK q : q = [r EXCEPT !.pc = "look"]
      OBVIOUS
    <3>1. q.pc = "look" /\ q.kind = "deploy"
      BY <1>1, <1>5, GoesOn DEF CreateAddress, Same
    <3>2. req'[p] = q /\ UNCHANGED <<place, games, listed, versions>>
      BY <1>1, <1>5, <2>1 DEF CreateAddress, TryAddress, InsertAddress, gameVars
    <3>3. Born(p)'
      BY <3>1, <3>2 DEF Born, Relocating, Filling
    <3> QED
      BY <1>3, <3>1, <3>2, <3>3, Continues
  <2> QED
    BY <1>4, <1>5, <2>1 DEF CreateAddress, TryAddress
<1>6. CASE Look(p)
  <2>1. CASE r.addr \in sites
    <3> PICK q : q = Located(r)
      OBVIOUS
    <3>1. req'[p] = q /\ UNCHANGED <<place, games, listed, versions>>
      BY <1>1, <1>6, <2>1, ReadIs DEF Look
    <3>2. CASE q = Idle
      BY <1>3, <3>1, <3>2, Stops
    <3>3. CASE q # Idle
      <4>1. /\ q.kind = "deploy" /\ q.dev = d
            /\ q.pc = "device" \/ (q.pc \in {"uncount", "move"} /\ place[d] \in Address)
        BY <1>1, <3>3, LocatedIs, MadeIs
      <4>2. Born(p)'
        BY <3>1, <4>1, Names DEF Born, Relocating, Filling
      <4> QED
        BY <1>3, <3>1, <4>1, <4>2, Continues
    <3> QED
      BY <3>2, <3>3
  <2>2. CASE r.addr \notin sites
    <3>1. req'[p] = Idle /\ UNCHANGED <<place, games, listed, versions>>
      BY <1>1, <1>6, <2>2, ReadIs DEF Look
    <3> QED
      BY <1>3, <3>1, Stops
  <2> QED
    BY <2>1, <2>2
<1>7. CASE CreateDevice(p)
  <2>1. CASE MayInsert(r.dev, r.addr)
    <3> PICK q : q = [r EXCEPT !.pc = "recount"]
      OBVIOUS
    <3>0. r.pc = "device" /\ r.old = Unborn
      BY <1>1, <1>7 DEF CreateDevice, Made
    <3>1. q.pc = "recount" /\ q.kind = "deploy" /\ q.dev = d /\ q.old = Unborn
      BY <1>1, <3>0, GoesOn DEF Same
    <3>2. req'[p] = q /\ InsertDevice(d, r.addr) /\ UNCHANGED <<games, listed, versions>>
      BY <1>1, <1>7, <2>1 DEF CreateDevice, TryAddress, gameVars
    <3>3. place[d] = Unborn /\ place'[d] = r.addr
      BY <1>1, <3>2 DEF InsertDevice, MayInsert, TInv, Placed, AddressTypeOK
    <3>4. games'[d] = NoGames
      BY <1>1, <3>2, <3>3 DEF GInv, Unborns
    <3>5. Born(p)'
      BY <1>1, <3>1, <3>2, <3>3, Names DEF Born
    <3>6. Moving(p)'
      BY <3>1, <3>2 DEF Moving
    <3>7. \A g \in Game : Fills(p, d, g)'
      BY <3>1, <3>2, <3>4, <3>6 DEF Fills
    <3> QED
      BY <3>1, <3>2, <3>5, <3>7, Continues DEF Served
  <2> QED
    BY <1>4, <1>7, <2>1 DEF CreateDevice, TryAddress
<1> QED
  BY <1>5, <1>6, <1>7

LEMMA MovingServed ==
  ASSUME NEW p \in Req, GStepped(p), Uncount(p) \/ Recount(p) \/ Count(p) \/ Move(p)
  PROVE  Served(p, req[p].dev)
<1> DEFINE r == req[p]
<1> PICK d : d = r.dev
  OBVIOUS
<1>0. DeployStep(p)
  BY DEF DeployStep
<1>1. /\ Made(r) /\ d \in Device /\ r.kind = "deploy" /\ r.addr \in Address
      /\ Moving(p) /\ TInv /\ GInv /\ Stepped(p) /\ Born(p) /\ Frame(p)
      /\ d \notin racedDevices => Where(r)
      /\ \A e \in Device : place[e] \in Address => place[e] \in sites
      /\ \A q : Set(p, q) => req'[p] = q
  BY <1>0, DeployOwn
<1>2. place'[d] # Unborn
  BY <1>1, StaysBorn DEF Born, Uncount, Recount, Count, Move, Relocating, Filling
<1>3. UNCHANGED <<games, listed, versions>>
  BY DEF Uncount, Recount, Count, Move, TryAddress, Read, gameVars
<1>4. ASSUME place' = place, Born(p)', Listed(p)' = {}, \A g \in Game \ racedGames : Full(p, g)',
             \A g \in Game : Fills(p, d, g) => Fills(p, d, g)'
      PROVE  Served(p, d)
  BY <1>1, <1>3, <1>4, MatchStays DEF Served
<1>5. ASSUME UNCHANGED addressVars, req'[p] = Idle, r.addr \notin sites \/ r.pc = "uncount" PROVE Served(p, d)
  <2>1. place' = place
    BY <1>5 DEF addressVars
  <2>2. ASSUME NEW g \in Game \ racedGames, d \notin racedDevices, place'[d] \in Address
        PROVE  Match(d, g)'
    <3>1. Match(d, g) \/ Fills(p, d, g)
      BY <1>1, <2>1, <2>2, OwnFill
    <3>2. ~Fills(p, d, g)
      <4> SUFFICES ASSUME Fills(p, d, g) PROVE FALSE
        OBVIOUS
      <4>1. r.pc \in {"recount", "count", "games"} /\ (r.old = Unborn \/ r.pc = "count")
        BY <1>1, <1>5 DEF Fills, Uncount, Recount, Count, Move
      <4>2. place[d] = r.addr
        BY <1>1, <2>2, <4>1 DEF Where, Uncount, Recount, Count, Move
      <4> QED
        BY <1>1, <1>5, <4>1, <4>2 DEF Uncount
    <3> QED
      BY <1>3, <3>1, <3>2 DEF Match
  <2> QED
    BY <1>3, <1>5, <2>2, Stops DEF Served
<1>6. CASE Uncount(p)
  <2>1. CASE r.old \in sites
    <3> PICK q : q = [r EXCEPT !.oldNum = 0, !.pc = "recount"]
      OBVIOUS
    <3>1. q.pc = "recount" /\ q.kind = "deploy" /\ q.dev = d
      BY <1>1, <1>6, GoesOn DEF Uncount, Same
    <3>2. req'[p] = q /\ place' = place
      BY <1>1, <1>6, <2>1 DEF Uncount, TryAddress, SaveNum
    <3>3. Born(p)' /\ \A g \in Game : ~Fills(p, d, g)
      BY <1>1, <1>2, <1>6, <3>1, <3>2 DEF Born, Fills, Uncount
    <3> QED
      BY <1>4, <3>1, <3>2, <3>3, Continues
  <2>2. CASE r.old \notin sites
    BY <1>1, <1>5, <1>6, <2>2 DEF Uncount, TryAddress, Finish
  <2> QED
    BY <2>1, <2>2
<1>7. CASE Recount(p)
  <2>1. CASE r.addr \in sites
    <3> PICK q : q = [r EXCEPT !.n = num[r.addr], !.pc = IF r.old = Unborn THEN "count" ELSE "move"]
      OBVIOUS
    <3>1. Same(q, r) /\ q.pc = IF r.old = Unborn THEN "count" ELSE "move"
      BY <1>1, <1>7, RecountIs DEF Recount
    <3>2. req'[p] = q /\ place' = place
      BY <1>1, <1>7, <2>1, ReadIs DEF Recount
    <3>3. Born(p)' /\ Moving(p)' /\ q.pc \notin {"add", "next"}
      BY <1>1, <1>2, <3>1, <3>2 DEF Born, Moving, Same
    <3>4. \A g \in Game : Fills(p, d, g) => Fills(p, d, g)'
      BY <1>1, <1>3, <1>7, <3>1, <3>2, <3>3 DEF Fills, Recount, Same
    <3> QED
      BY <1>1, <1>4, <3>1, <3>2, <3>3, <3>4, Continues DEF Same
  <2>2. CASE r.addr \notin sites
    <3>1. req'[p] = Idle /\ UNCHANGED addressVars
      BY <1>1, <1>7, <2>2 DEF Recount, Read
    <3> QED
      BY <1>5, <2>2, <3>1
  <2> QED
    BY <2>1, <2>2
<1>8. CASE Count(p)
  <2>1. CASE r.addr \in sites
    <3> PICK q : q = [r EXCEPT !.n = 0, !.pc = "games"]
      OBVIOUS
    <3>1. Same(q, r) /\ q.pc = "games"
      BY <1>1, <1>8, GoesOn DEF Count
    <3>2. req'[p] = q /\ place' = place
      BY <1>1, <1>8, <2>1 DEF Count, TryAddress, SaveNum
    <3>3. Born(p)' /\ Moving(p)' /\ q.pc \notin {"add", "next"}
      BY <1>1, <1>2, <3>1, <3>2 DEF Born, Moving, Same
    <3>4. \A g \in Game : Fills(p, d, g) => Fills(p, d, g)'
      BY <1>1, <1>3, <1>8, <3>1, <3>2, <3>3 DEF Fills, Count, Same
    <3> QED
      BY <1>1, <1>4, <3>1, <3>2, <3>3, <3>4, Continues DEF Same
  <2>2. CASE r.addr \notin sites
    BY <1>1, <1>5, <1>8, <2>2 DEF Count, TryAddress, Finish
  <2> QED
    BY <2>1, <2>2
<1>9. CASE Move(p)
  <2>1. r.pc = "move" /\ \A g \in Game : ~Fills(p, d, g)
    BY <1>1, <1>9 DEF Move, Fills
  <2>2. Born(p)' /\ Listed(p)' = {} /\ \A g \in Game \ racedGames : Full(p, g)'
    <3>1. CASE MayMove(r.dev, r.addr)
      <4> PICK q : q = [r EXCEPT !.n = 0, !.pc = "record"]
        OBVIOUS
      <4>1. q.kind = "deploy" /\ q.dev = d /\ q.pc = "record"
        BY <1>1, <1>9, GoesOn DEF Move, Same
      <4>2. req'[p] = q
        BY <1>1, <1>9, <3>1 DEF Move, TryAddress
      <4> QED
        BY <1>2, <4>1, <4>2, Continues DEF Born
    <3>2. CASE ~MayMove(r.dev, r.addr)
      BY <1>1, <1>9, <3>2, Stops DEF Move, TryAddress, Finish
    <3> QED
      BY <3>1, <3>2
  <2>3. ASSUME NEW g \in Game \ racedGames, d \notin racedDevices PROVE Match(d, g)'
    <3>1. place[d] \in Address
      BY <1>1, <2>1, <2>3 DEF Where, Relocating, Made
    <3>2. Match(d, g)
      BY <1>1, <2>1, <2>3, <3>1, OwnFill
    <3> QED
      BY <1>3, <3>2 DEF Match
  <2>4. Served(p, d)
    BY <1>3, <2>2, <2>3, Zenon DEF Served
  <2> QED
    BY <2>4
<1> QED
  BY <1>6, <1>7, <1>8, <1>9

(* The rows that are listed, as a request goes through them *)
LEMMA ListHas ==
  ASSUME TInv, NEW g \in Game
  PROVE  /\ \A w \in listed[g] : \E e \in GameList : e.game = g /\ e.ver = w.ver
         /\ \A e \in GameList : e.game = g => \E w \in listed[g] : w.ver = e.ver
         /\ \A w \in listed[g] : w.ver \in GameVersion
<1>1. listed[g] \subseteq ListRow
  BY DEF TInv, Games
<1>2. ASSUME NEW w \in listed[g] PROVE \E e \in GameList : e.game = g /\ e.ver = w.ver
  <2>1. [id |-> w.id, game |-> g, ver |-> w.ver] \in GameList
    BY <1>2 DEF GameList
  <2> QED
    BY <2>1
<1>3. ASSUME NEW e \in GameList, e.game = g PROVE \E w \in listed[g] : w.ver = e.ver
  <2>1. PICK h \in Game : \E w \in listed[h] : e = [id |-> w.id, game |-> h, ver |-> w.ver]
    BY <1>3 DEF GameList
  <2>2. PICK w \in listed[h] : e = [id |-> w.id, game |-> h, ver |-> w.ver]
    BY <2>1
  <2>3. e.game = h /\ e.ver = w.ver
    BY <2>2
  <2> QED
    BY <1>3, <2>3
<1> QED
  BY <1>1, <1>2, <1>3 DEF ListRow

(* d has what is listed of g, or it is in l *)
Open(d, l, g) ==
    /\ \A w \in listed[g] : games[d][g] = w.ver \/ \E e \in l : e.game = g /\ e.ver = w.ver
    /\ \A e \in l : e.game = g => \E w \in listed[g] : w.ver = e.ver
    /\ games[d][g] = NoVersion \/ \E w \in listed[g] : w.ver = games[d][g]

LEMMA Closed ==
  ASSUME TInv, NEW d \in Device, NEW g \in Game
  PROVE  /\ Open(d, {}, g) => Match(d, g)
         /\ Match(d, g) => Open(d, GameList, g)
         /\ games[d] = NoGames => Open(d, GameList, g)
<1>1. \A w \in listed[g] : w.ver # NoVersion
  BY ListHas, GameAssumption
<1>2. Open(d, {}, g) => Match(d, g)
  <2> HAVE Open(d, {}, g)
  <2>1. \A w \in listed[g] : games[d][g] = w.ver
    BY DEF Open
  <2>2. games[d][g] = NoVersion \/ \E w \in listed[g] : w.ver = games[d][g]
    BY DEF Open
  <2> QED
    BY <1>1, <2>1, <2>2 DEF Match
<1>3. \A e \in GameList : e.game = g => \E w \in listed[g] : w.ver = e.ver
  BY ListHas
<1>4. Match(d, g) => Open(d, GameList, g)
  <2> HAVE Match(d, g)
  <2>1. \A w \in listed[g] : w.ver = games[d][g]
    <3> TAKE w \in listed[g]
    <3>1. w.ver \in {r.ver : r \in listed[g]}
      OBVIOUS
    <3> QED
      BY <3>1 DEF Match
  <2>2. games[d][g] # NoVersion => games[d][g] \in {r.ver : r \in listed[g]}
    BY DEF Match
  <2> QED
    BY <1>3, <2>1, <2>2 DEF Open
<1>5. games[d] = NoGames => Open(d, GameList, g)
  BY <1>3, ListHas, Nobody DEF Open
<1> QED
  BY <1>2, <1>4, <1>5

LEMMA LoopServed ==
  ASSUME NEW p \in Req, GStepped(p), ListGames(p) \/ NextListed(p), NEW l \in SUBSET ListEntry,
         Read(p, Adding(req[p], l)),
         req[p].dev \notin racedDevices => \A g \in Game \ racedGames : Open(req[p].dev, l, g)
  PROVE  Served(p, req[p].dev)
<1> PICK r : r = req[p]
  OBVIOUS
<1> PICK d : d = r.dev
  OBVIOUS
<1> PICK q : q = Adding(r, l)
  OBVIOUS
<1>0. DeployStep(p) /\ r.pc \in {"games", "next"}
  BY DEF DeployStep, ListGames, NextListed
<1>1. /\ Made(r) /\ d \in Device /\ r.kind = "deploy"
      /\ TInv /\ GInv /\ Stepped(p) /\ Born(p) /\ Frame(p)
      /\ \A s : Set(p, s) => req'[p] = s
  BY <1>0, DeployOwn
<1>2. req'[p] = q /\ UNCHANGED <<place, games, listed, versions>>
  BY <1>1, ReadIs
<1>3. place'[d] # Unborn
  BY <1>0, <1>1, StaysBorn DEF Born, Filling
<1>4. racedDevices \subseteq racedDevices'
  BY <1>1 DEF Stepped, Alone
<1>5. CASE q = Idle /\ d \notin Alive
  BY <1>2, <1>5, Stops DEF Served, Alive
<1>6. CASE q.pc = "record" /\ l = {} /\ Same(q, r)
  <2>1. ASSUME NEW g \in Game \ racedGames, d \notin racedDevices PROVE Match(d, g)'
    <3>1. Match(d, g)
      BY <1>1, <1>6, <2>1, Closed
    <3> QED
      BY <1>2, <3>1 DEF Match
  <2>2. Born(p)'
    BY <1>2, <1>3, <1>6 DEF Born, Same
  <2>3. Listed(p)' = {} /\ \A g \in Game \ racedGames : Full(p, g)'
    BY <1>1, <1>2, <1>6, Continues DEF Same
  <2>4. Served(p, d)
    BY <1>2, <2>1, <2>2, <2>3, Zenon DEF Served
  <2> QED
    BY <2>4
<1>7. CASE q.pc = "add" /\ q.list = l /\ Same(q, r)
  <2>1. q.dev = d /\ q.kind = "deploy"
    BY <1>1, <1>7 DEF Same
  <2>2. Born(p)'
    BY <1>2, <1>3, <1>7, <2>1 DEF Born
  <2>3. Listed(p)' = {} /\ Moving(p)'
    BY <1>2, <1>7, <2>1 DEF Listed, Listing, Moving
  <2>4. \A g \in Game : Fills(p, d, g)'
    BY <1>2, <1>7, <2>1, <2>3 DEF Fills
  <2>5. ASSUME NEW g \in Game \ racedGames PROVE Full(p, g)'
    <3> SUFFICES ASSUME d \notin racedDevices' PROVE Filled(q, g)'
      BY <1>2, <2>1 DEF Full
    <3>1. Open(d, l, g)
      BY <1>4
    <3>2. Filled(q, g)
      BY <1>7, <2>1, <3>1 DEF Filled, Open, ToGo
    <3> QED
      BY <1>2, <3>2 DEF Filled
  <2>6. Served(p, d)
    BY <1>2, <2>2, <2>3, <2>4, <2>5, Zenon DEF Served
  <2> QED
    BY <2>6
<1> QED
  BY <1>0, <1>1, <1>5, <1>6, <1>7, AddingIs

LEMMA AddServed ==
  ASSUME NEW p \in Req, GStepped(p), AddListed(p), Seen(p)
  PROVE  Served(p, req[p].dev)
<1> PICK r : r = req[p]
  OBVIOUS
<1> PICK d : d = r.dev
  OBVIOUS
<1> PICK e : e = First(r.list)
  OBVIOUS
<1> PICK q : q = [r EXCEPT !.pc = "next"]
  OBVIOUS
<1>0. DeployStep(p) /\ r.pc = "add"
  BY DEF DeployStep, AddListed
<1>1. /\ Made(r) /\ d \in Device /\ r.kind = "deploy"
      /\ TInv /\ GInv /\ Stepped(p) /\ Born(p) /\ Frame(p)
      /\ \A s : Set(p, s) => req'[p] = s
  BY <1>0, DeployOwn
<1>2. UNCHANGED <<place, listed, versions>>
  BY DEF AddListed, AddGame, addressVars, gameVars
<1>3. place'[d] # Unborn
  BY <1>0, <1>1, StaysBorn DEF Born, Filling
<1>4. racedDevices \subseteq racedDevices'
  BY <1>1 DEF Stepped, Alone
<1>a. Made(r) /\ r.pc = "add"
  BY <1>0, <1>1
<1>b. q.pc = "next" /\ Same(q, r) /\ q.list = r.list
  BY <1>a DEF Made, Request, Same
<1>5. q.pc = "next" /\ q.kind = "deploy" /\ q.dev = d /\ q.list = r.list
  BY <1>1, <1>b DEF Same
<1>6. e \in r.list /\ e \in ListEntry
  BY <1>0, <1>1, FirstIs, MadeIs DEF Made
<1>7. d \notin racedDevices => r.seen = games[d]
  BY <1>0 DEF Seen
<1>8. CASE Finish(p)
  <2>1. d \in racedDevices \/ req'[p] = q
    BY <1>0, <1>1, <1>7 DEF AddListed, MayAddGame, Goto
  <2>2. CASE d \in racedDevices
    <3>1. req'[p] = Idle
      BY <1>1, <1>8 DEF Finish
    <3> QED
      BY <1>2, <2>2, <3>1, Stops DEF Served
  <2>3. CASE req'[p] = q
    BY <1>1, <1>5, <1>8, <2>3, IdleMade DEF Finish
  <2> QED
    BY <2>1, <2>2, <2>3
<1>9. CASE Goto(p, "next")
  <2>1. req'[p] = q
    BY <1>1, <1>9 DEF Goto
  <2>2. Born(p)'
    BY <1>3, <1>5, <2>1 DEF Born
  <2>3. Listed(p)' = {} /\ Moving(p)'
    BY <1>5, <2>1 DEF Listed, Listing, Moving
  <2>4. \A g \in Game : Fills(p, d, g)'
    BY <1>5, <2>1, <2>3 DEF Fills
  <2>5. ASSUME NEW g \in Game \ racedGames PROVE Full(p, g)'
    <3> SUFFICES ASSUME d \notin racedDevices' PROVE Filled(q, g)'
      BY <1>5, <2>1 DEF Full
    <3>1. r.seen = games[d] /\ AddGame(d, e.game, e.ver, games[d][e.game])
      BY <1>4, <1>7 DEF AddListed, MayAddGame
    <3>2. games \in [Device -> [Game -> GameVersion \cup {NoVersion}]]
      BY <1>1 DEF TInv, Games
    <3>3. OneRow(g) /\ Full(p, g)
      BY <1>1 DEF GInv, Follows
    <3>4. Open(d, r.list, g)
      BY <1>0, <1>4, <3>3 DEF Full, Filled, Open, ToGo
    <3>5. games'[d][g] = IF g = e.game THEN e.ver ELSE games[d][g]
      BY <1>1, <1>6, <3>1, <3>2 DEF AddGame, ListEntry
    <3>6. \A f \in r.list : f.game = g /\ g # e.game => f \in Rest(r.list)
      BY DEF Rest
    <3>7. games'[d][g] = NoVersion \/ \E w \in listed[g] : w.ver = games'[d][g]
      BY <1>6, <3>4, <3>5 DEF Open
    <3>8. \A w \in listed[g] : games'[d][g] = w.ver \/ \E f \in Rest(r.list) : f.game = g /\ f.ver = w.ver
      <4>1. CASE g = e.game
        BY <1>6, <3>3, <3>4, <3>5, <4>1 DEF Open, OneRow
      <4>2. CASE g # e.game
        BY <3>4, <3>5, <3>6, <4>2 DEF Open
      <4> QED
        BY <4>1, <4>2
    <3> QED
      BY <1>2, <1>5, <3>4, <3>7, <3>8 DEF Filled, ToGo, Open
  <2>6. Served(p, d)
    BY <1>2, <2>2, <2>3, <2>4, <2>5, Zenon DEF Served
  <2> QED
    BY <2>6
<1> QED
  BY <1>8, <1>9 DEF AddListed

LEMMA DeployServed ==
  ASSUME NEW p \in Req, GStepped(p), DeployStep(p)
  PROVE  Served(p, req[p].dev)
<1> PICK r : r = req[p]
  OBVIOUS
<1> PICK d : d = r.dev
  OBVIOUS
<1>1. /\ Made(r) /\ d \in Device /\ r.addr \in Address
      /\ Moving(p) /\ TInv /\ GInv /\ Stepped(p)
      /\ d \notin racedDevices => Where(r)
      /\ \A s : Set(p, s) => req'[p] = s
  BY DeployOwn
<1>2. CASE ListGames(p)
  <2>1. Read(p, Adding(r, GameList)) /\ r.pc = "games" /\ GameList \in SUBSET ListEntry
    BY <1>1, <1>2, GameListIs DEF ListGames
  <2>2. ASSUME NEW g \in Game \ racedGames, d \notin racedDevices PROVE Open(d, GameList, g)
    <3>1. place[d] \in Address
      BY <1>1, <2>1, <2>2 DEF Where
    <3>2. Match(d, g) \/ Fills(p, d, g)
      BY <1>1, <2>2, <3>1, OwnFill
    <3>3. Fills(p, d, g) => games[d] = NoGames
      BY <1>1, <2>1, MadeIs DEF Fills, Deploying, Filling
    <3> QED
      BY <1>1, <3>2, <3>3, Closed
  <2> QED
    BY <1>2, <2>1, <2>2, LoopServed
<1>3. CASE NextListed(p)
  <2>1. Read(p, Adding(r, Rest(r.list))) /\ r.pc = "next" /\ Rest(r.list) \in SUBSET ListEntry
    BY <1>1, <1>3, MadeIs DEF NextListed, Rest
  <2>2. ASSUME NEW g \in Game \ racedGames, d \notin racedDevices PROVE Open(d, Rest(r.list), g)
    <3>1. Full(p, g)
      BY <1>1 DEF GInv, Follows
    <3>2. Filled(r, g)
      BY <2>1, <2>2, <3>1 DEF Full
    <3>3. Rest(r.list) \subseteq r.list
      BY DEF Rest
    <3> QED
      BY <2>1, <3>2, <3>3 DEF Filled, Open, ToGo
  <2> QED
    BY <1>3, <2>1, <2>2, LoopServed
<1>4. CASE AddListed(p)
  <2>1. Seen(p)
    BY <1>1 DEF GInv, RInv
  <2> QED
    BY <1>4, <2>1, AddServed
<1>5. CASE Record(p)
  <2>1. req'[p] = Idle /\ UNCHANGED <<place, games, listed, versions>> /\ r.pc = "record"
    BY <1>1, <1>5 DEF Record, TryAddress, InsertDeploy, gameVars
  <2>2. \A g \in Game : ~Fills(p, d, g)
    BY <1>1, <2>1, MadeIs DEF Fills, Deploying
  <2>3. \A g \in Game \ racedGames :
           d \notin racedDevices /\ d \in Alive' /\ place'[d] \in Address => Match(d, g)' \/ Fills(p, d, g)'
    BY <1>1, <2>1, <2>2, MatchStays
  <2>4. Born(p)' /\ Listed(p)' = {} /\ \A g \in Game \ racedGames : Full(p, g)'
    BY <2>1, Stops
  <2>5. Served(p, d)
    BY <2>1, <2>3, <2>4, Zenon DEF Served
  <2> QED
    BY <2>5
<1> QED
  BY <1>2, <1>3, <1>4, <1>5, EarlyServed, MovingServed DEF DeployStep

LEMMA DropServed ==
  ASSUME NEW p \in Req, GStepped(p), Undeploy(p) \/ Undeployed(p) \/ Drop(p)
  PROVE  Served(p, req[p].dev)
<1> PICK r : r = req[p]
  OBVIOUS
<1> PICK d : d = r.dev
  OBVIOUS
<1>0. r.pc \in Dropping
  BY DEF Undeploy, Undeployed, Drop, Dropping
<1>1. /\ Made(r) /\ d \in Device /\ r.kind = "drop" /\ r.addr = Nowhere
      /\ Moving(p) /\ TInv /\ GInv /\ Stepped(p) /\ Sure(p)
  <2>1. TInv /\ GInv /\ Stepped(p) /\ Sure(p)
    BY DEF GStepped, GInv, Stepped, CInv
  <2>2. Made(r)
    BY <2>1 DEF TInv, Requests
  <2> QED
    BY <1>0, <2>1, <2>2, MadeIs, MovingIs
<1>2. \A s : Set(p, s) => req'[p] = s
  BY DEF GStepped
<1>3. ASSUME NEW q, req'[p] = q, q.kind = "drop", q.dev = d, q.pc \in Dropping, UNCHANGED <<listed, versions>>
      PROVE  Served(p, d)
  <2>1. Listed(p)' = {} /\ (\A g \in Game \ racedGames : Full(p, g)') /\ Born(p)'
    BY <1>3, Continues DEF Born, Dropping, Relocating, Filling
  <2>2. \A g \in Game : Fills(p, d, g)'
    BY <1>3 DEF Fills, Moving, Dropping
  <2> QED
    BY <1>3, <2>1, <2>2 DEF Served
<1>4. CASE Undeploy(p)
  <2> PICK q : q = [r EXCEPT !.pc = "undeployed"]
    OBVIOUS
  <2>a. Made(r) /\ r.pc = "undeploy"
    BY <1>1, <1>4 DEF Undeploy
  <2>1. q.pc = "undeployed" /\ Same(q, r)
    BY <2>a DEF Made, Request, Same
  <2>2. req'[p] = q /\ UNCHANGED <<listed, versions>>
    BY <1>2, <1>4 DEF Undeploy, Goto, DeleteGame
  <2> QED
    BY <1>1, <1>3, <2>1, <2>2 DEF Same, Dropping
<1>5. CASE Undeployed(p)
  <2> PICK q : q = Undeploying(r, Rest(r.list))
    OBVIOUS
  <2>1. req'[p] = q /\ UNCHANGED <<place, listed, versions>>
    BY <1>2, <1>5, ReadIs DEF Undeployed
  <2>2. CASE q = Idle /\ d \notin Alive
    BY <2>1, <2>2, Stops DEF Served, Alive
  <2>3. CASE q.pc \in {"undeploy", "drop"} /\ q.kind = r.kind /\ q.dev = r.dev
    BY <1>1, <1>3, <2>1, <2>3 DEF Dropping
  <2>4. r \in Request /\ Rest(r.list) \in SUBSET ListEntry
    BY <1>1, MadeIs DEF Rest
  <2> QED
    BY <1>1, <2>2, <2>3, <2>4, UndeployingIs DEF Same
<1>6. CASE Drop(p)
  <2>1. r.pc = "drop" /\ req'[p] = Idle /\ UNCHANGED <<listed, versions>>
    BY <1>2, <1>6 DEF Drop, TryAddress, Finish, gameVars
  <2>2. ASSUME d \notin racedDevices, d \in Alive', place'[d] \in Address PROVE FALSE
    <3>1. CASE MayDelete(r.old, r.n)
      <4>1. place' = [place EXCEPT ![d] = Gone]
        BY <1>6, <3>1 DEF Drop, TryAddress, DeleteDevice
      <4> QED
        BY <1>1, <2>2, <4>1 DEF Alive, TInv, Placed, AddressTypeOK
    <3>2. CASE ~MayDelete(r.old, r.n)
      <4>1. place' = place
        BY <1>6, <3>2 DEF Drop, TryAddress, addressVars
      <4>2. place[d] = r.old
        BY <1>1, <2>1, <2>2 DEF Sure, Where
      <4>3. place[d] \in sites
        BY <1>1, <2>2, <4>1 DEF TInv, Placed
      <4> QED
        BY <2>2, <3>2, <4>1, <4>2, <4>3, Names DEF MayDelete
    <3> QED
      BY <3>1, <3>2
  <2> QED
    BY <2>1, <2>2, Stops DEF Served
<1> QED
  BY <1>4, <1>5, <1>6
-----------------------------------------------------------------------------
(* What a request for a game makes of it *)

LEMMA ReadPublished ==
  ASSUME NEW q, Published(q), UNCHANGED <<place, listed, versions, games>>
  PROVE  Published(q)'
BY DEF Published, Spread, FirstRow, Alive

LEMMA TellingPublished ==
  ASSUME TInv, NEW r, Made(r), r.kind = "publish", r.ver \in GameVersion, NEW D \in SUBSET Alive,
         listed[r.game] # {}, \A w \in listed[r.game] : w.ver = r.ver, <<r.game, r.ver>> \in versions,
         \A d \in Alive : d \in D \/ games[d][r.game] = r.ver
  PROVE  LET q == Telling(r, D) IN
         \/ q = Idle /\ \A d \in Alive : Match(d, r.game)
         \/ q.pc = "tell" /\ Made(q) /\ q.game = r.game /\ q.dev \in Alive /\ Published(q)
<1> PICK q : q = Telling(r, D)
  OBVIOUS
<1>1. D \in SUBSET Device /\ r \in Request
  BY MadeIs DEF Alive
<1>2. CASE q = Idle /\ D = {}
  <2> SUFFICES ASSUME NEW d \in Alive PROVE Match(d, r.game)
    BY <1>2
  <2>1. games[d][r.game] = r.ver /\ r.ver # NoVersion
    BY <1>2, GameAssumption
  <2>2. {w.ver : w \in listed[r.game]} = {r.ver}
    OBVIOUS
  <2> QED
    BY <2>1, <2>2 DEF Match
<1>3. CASE /\ q.pc = "tell" /\ Made(q) /\ q.game = r.game /\ q.ver = r.ver
           /\ q.dev \in D \cap Alive /\ q.todo = D \ {q.dev} /\ q.seen = games[q.dev]
  <2>1. Spread(q, q.ver)
    BY <1>3 DEF Spread
  <2>2. Published(q)
    BY <1>3, <2>1 DEF Published, Publishing, Informing, Withdrawing
  <2> QED
    BY <1>3, <2>2
<1> QED
  BY <1>1, <1>2, <1>3, TellingIs

LEMMA RemovingPublished ==
  ASSUME TInv, NEW r \in Request, r.kind = "withdraw", NEW D \in SUBSET Alive, listed[r.game] = {},
         \A d \in Alive : d \in D \/ games[d][r.game] = NoVersion
  PROVE  LET q == Removing(r, D) IN
         q.pc \in {"versions", "remove"} /\ Made(q) /\ q.game = r.game /\ Published(q)
<1> PICK q : q = Removing(r, D)
  OBVIOUS
<1>1. D \in SUBSET Device /\ r.game \in Game
  BY DEF Alive, Request
<1> DEFINE free(d) == d \in Alive /\ games[d][r.game] = NoVersion
<1>2. CASE /\ q.pc = "versions" /\ Made(q) /\ q.game = r.game /\ q.todo = {}
           /\ \A d \in D : free(d)
  <2>1. Spread(q, NoVersion)
    BY <1>2 DEF Spread
  <2> QED
    BY <1>2, <2>1 DEF Published, Publishing, Informing, Withdrawing
<1>3. CASE /\ q.pc = "remove" /\ Made(q) /\ q.game = r.game /\ q.todo \subseteq D
           /\ \A d \in D : d \in q.todo \/ d = q.dev \/ free(d)
  <2>1. Spread(q, NoVersion)
    BY <1>3 DEF Spread
  <2> QED
    BY <1>3, <2>1 DEF Published, Publishing, Informing, Withdrawing
<1>4. \/ q = Idle /\ \E d \in D : d \notin Alive
      \/ /\ q.pc = "versions" /\ Made(q) /\ q.kind = r.kind /\ q.game = r.game
         /\ q.todo = {} /\ q.found = {gv \in versions : gv[1] = r.game}
         /\ \A d \in D : free(d)
      \/ /\ q.pc = "remove" /\ Made(q) /\ q.kind = r.kind /\ q.game = r.game
         /\ q.dev \in D \cap Alive /\ q.todo \subseteq D
         /\ \A d \in D : d \in q.todo \/ d = q.dev \/ free(d)
  BY <1>1, RemovingIs
<1> QED
  BY <1>2, <1>3, <1>4

(* What a step of update_game or delete_game leaves of its game *)
Handled(p, g) ==
    /\ OneRow(g)' /\ Versioned(g)'
    /\ \/ /\ req'[p].pc \in Publishing \cup Withdrawing /\ req'[p].game = g /\ Made(req'[p])
          /\ Published(req[p])'
       \/ req'[p] = Idle /\ \A d \in Alive' : Match(d, g)'

LEMMA GameOwn ==
  ASSUME NEW p \in Req, GStepped(p), GameStep(p)
  PROVE  LET r == req[p] IN
         /\ Made(r) /\ r.dev \in Device /\ r.game \in Game /\ TInv /\ Listing(p) /\ Listed(p) = {r.game}
         /\ r.pc \in Publishing => r.kind = "publish" /\ r.ver \in GameVersion
         /\ r.pc \in Withdrawing => r.kind = "withdraw"
         /\ r.game \notin racedGames => Published(r) /\ OneRow(r.game) /\ Versioned(r.game)
         /\ \A q : Set(p, q) => req'[p] = q
<1> DEFINE r == req[p]
<1>1. r.pc \in Publishing \cup Withdrawing
  BY DEF GameStep, UpdateGameList, GetGameInfo, SaveVersion, ListDevices, Tell, Told,
     Unlist, Unlisted, RemoveGame, Removed, RemoveVersions, Publishing, Informing, Withdrawing
<1>2. GInv /\ TInv /\ \A q : Set(p, q) => req'[p] = q
  BY DEF GStepped, Stepped, CInv
<1>3. Made(r)
  BY <1>2 DEF TInv, Requests
<1>4. Listing(p) /\ Listed(p) = {r.game}
  BY <1>1, <1>2, MovingIs DEF Listed
<1>5. r.game \in Game
  BY <1>3, MadeIs
<1>6. r.game \notin racedGames => Published(r) /\ OneRow(r.game) /\ Versioned(r.game)
  BY <1>2, <1>4, <1>5 DEF GInv, Follows
<1> QED
  BY <1>2, <1>3, <1>4, <1>5, <1>6, MadeIs

LEMMA ListHandled ==
  ASSUME NEW p \in Req, GStepped(p), UpdateGameList(p), req[p].game \notin racedGames
  PROVE  Handled(p, req[p].game)
<1> PICK r : r = req[p]
  OBVIOUS
<1> PICK g : g = r.game
  OBVIOUS
<1> PICK q : q = [r EXCEPT !.row = 0, !.pc = "info"]
  OBVIOUS
<1>0. GameStep(p) /\ r.pc = "list"
  BY DEF GameStep, UpdateGameList
<1>1. /\ Made(r) /\ g \in Game /\ TInv /\ r.ver \in GameVersion
      /\ Published(r) /\ OneRow(g) /\ Versioned(g)
      /\ \A s : Set(p, s) => req'[p] = s
  BY <1>0, GameOwn DEF Publishing
<1>2. r.row = FirstRow(g)
  BY <1>0, <1>1 DEF Published
<1>3. q.pc = "info" /\ q.game = g /\ q.ver = r.ver
  BY <1>1 DEF Made, Request
<1>a. Made(q)
  BY <1>0, <1>1, GoesOn
<1>4. listed \in [Game -> SUBSET ListRow]
  BY <1>1 DEF TInv, Games
<1>5. /\ req'[p] = q /\ listed'[g] # {} /\ OneRow(g)'
      /\ \A w \in listed'[g] : w.ver = r.ver
  <2>1. CASE r.row = 0
    <3>1. listed[g] = {}
      BY <1>1, <1>2, <2>1, FirstRowIs
    <3>2. req'[p] = q /\ InsertList(g, r.ver)
      BY <1>1, <2>1 DEF UpdateGameList, TryGame
    <3>3. listed'[g] = {[id |-> lastId + 1, ver |-> r.ver]}
      BY <1>1, <1>4, <3>1, <3>2 DEF InsertList
    <3> QED
      BY <3>2, <3>3 DEF OneRow
  <2>2. CASE r.row # 0
    <3>1. HasRow(g, r.row)
      BY <1>1, <1>2, <2>2, FirstRowIs
    <3>2. req'[p] = q /\ UpdateList(g, r.row, r.ver)
      BY <1>1, <2>2, <3>1 DEF UpdateGameList, TryGame
    <3>3. PICK w \in listed[g] : w.id = r.row
      BY <3>1 DEF HasRow
    <3>4. listed[g] = {w} /\ w \in ListRow
      BY <1>1, <1>4, <3>3 DEF OneRow
    <3>5. listed'[g] = {IF s.id = r.row THEN [s EXCEPT !.ver = r.ver] ELSE s : s \in listed[g]}
      BY <1>1, <1>4, <3>2 DEF UpdateList
    <3>6. listed'[g] = {[w EXCEPT !.ver = r.ver]}
      BY <3>3, <3>4, <3>5
    <3>7. [w EXCEPT !.ver = r.ver].ver = r.ver
      BY <3>4 DEF ListRow
    <3> QED
      BY <3>2, <3>6, <3>7 DEF OneRow
  <2> QED
    BY <2>1, <2>2
<1>6. Versioned(g)'
  BY <1>3, <1>5 DEF Versioned
<1>7. Published(q)'
  BY <1>3, <1>5 DEF Published, Publishing, Informing, Withdrawing
<1>8. Published(req[p])'
  BY <1>5, <1>7
<1>9. Handled(p, g)
  BY <1>a, <1>3, <1>5, <1>6, <1>8 DEF Handled, Publishing
<1> QED
  BY <1>9

LEMMA VersionHandled ==
  ASSUME NEW p \in Req, GStepped(p), GetGameInfo(p) \/ SaveVersion(p), req[p].game \notin racedGames
  PROVE  Handled(p, req[p].game)
<1> PICK r : r = req[p]
  OBVIOUS
<1> PICK g : g = r.game
  OBVIOUS
<1>0. GameStep(p) /\ r.pc \in {"info", "version"}
  BY DEF GameStep, GetGameInfo, SaveVersion
<1>1. /\ Made(r) /\ g \in Game /\ TInv
      /\ Published(r) /\ OneRow(g) /\ Versioned(g)
      /\ \A s : Set(p, s) => req'[p] = s
  BY <1>0, GameOwn
<1>2. listed[g] # {} /\ \A w \in listed[g] : w.ver = r.ver
  BY <1>0, <1>1 DEF Published, Publishing
<1>3. versions \subseteq Game \X GameVersion
  BY <1>1 DEF TInv, Games
<1>4. CASE GetGameInfo(p)
  <2> PICK q : q = [r EXCEPT !.found = {<<r.game, r.ver>>} \cap versions, !.pc = "version"]
    OBVIOUS
  <2>1. Made(q) /\ Same(q, r) /\ q.pc = "version" /\ q.found = {<<r.game, r.ver>>} \cap versions
    <3>1. r.pc = "info" /\ Made(r) /\ versions \subseteq Game \X GameVersion
      BY <1>1, <1>3, <1>4 DEF GetGameInfo
    <3>2. Made(q)
      BY <3>1, InfoIs
    <3>3. Same(q, r) /\ q.pc = "version" /\ q.found = {<<r.game, r.ver>>} \cap versions
      BY <3>1 DEF Made, Request, Same
    <3> QED
      BY <3>2, <3>3
  <2>2. req'[p] = q /\ UNCHANGED <<place, listed, versions, games>>
    BY <1>1, <1>4, ReadIs DEF GetGameInfo
  <2>3. Published(q)
    BY <1>2, <2>1 DEF Same, Published, Publishing, Informing, Withdrawing
  <2>4. Published(req[p])'
    BY <2>2, <2>3, ReadPublished
  <2>5. OneRow(g)' /\ Versioned(g)'
    BY <1>1, <2>1, <2>2 DEF OneRow, Versioned, Same
  <2>6. Handled(p, g)
    BY <2>1, <2>2, <2>4, <2>5 DEF Handled, Publishing, Same
  <2> QED
    BY <2>6
<1>5. CASE SaveVersion(p)
  <2> PICK q : q = [r EXCEPT !.found = {}, !.pc = "devices"]
    OBVIOUS
  <2>1. q.pc = "devices" /\ q.game = g /\ q.ver = r.ver
    BY <1>1 DEF Made, Request
  <2>2. Made(q)
    BY <1>1, <1>5, GoesOn DEF SaveVersion
  <2>3. r.pc = "version" /\ r.found = {<<g, r.ver>>} \cap versions
    BY <1>1, <1>5 DEF SaveVersion, Published
  <2>4. req'[p] = q /\ listed' = listed /\ <<g, r.ver>> \in versions'
    <3>1. CASE r.found = {}
      BY <1>1, <1>5, <2>3, <3>1 DEF SaveVersion, TryGame, InsertVersion
    <3>2. CASE r.found # {}
      BY <1>1, <1>5, <2>3, <3>2 DEF SaveVersion, TryGame, gameVars
    <3> QED
      BY <3>1, <3>2
  <2>5. Published(q)'
    BY <1>2, <2>1, <2>4 DEF Published, Publishing, Informing, Withdrawing
  <2>6. Published(req[p])'
    BY <2>4, <2>5
  <2>7. OneRow(g)' /\ Versioned(g)'
    BY <1>1, <1>2, <2>4 DEF OneRow, Versioned
  <2>8. Handled(p, g)
    BY <2>1, <2>2, <2>4, <2>6, <2>7 DEF Handled, Publishing, Informing
  <2> QED
    BY <2>8
<1> QED
  BY <1>4, <1>5

LEMMA TellHandled ==
  ASSUME NEW p \in Req, GStepped(p), ListDevices(p) \/ Tell(p) \/ Told(p), req[p].game \notin racedGames
  PROVE  Handled(p, req[p].game)
<1> PICK r : r = req[p]
  OBVIOUS
<1> PICK g : g = r.game
  OBVIOUS
<1>0. GameStep(p) /\ r.pc \in Informing /\ r.pc \in Publishing
  BY DEF GameStep, ListDevices, Tell, Told, Informing, Publishing
<1>1. /\ Made(r) /\ r.dev \in Device /\ g \in Game /\ TInv /\ r.kind = "publish" /\ r.ver \in GameVersion
      /\ Published(r) /\ OneRow(g) /\ Versioned(g)
      /\ \A s : Set(p, s) => req'[p] = s
  BY <1>0, GameOwn
<1>2. listed[g] # {} /\ (\A w \in listed[g] : w.ver = r.ver) /\ <<g, r.ver>> \in versions
  BY <1>0, <1>1 DEF Published, Informing
<1>3. ASSUME NEW D \in SUBSET Alive, Read(p, Telling(r, D)), \A d \in Alive : d \in D \/ games[d][g] = r.ver
      PROVE  Handled(p, g)
  <2> PICK q : q = Telling(r, D)
    OBVIOUS
  <2>1. \/ q = Idle /\ \A d \in Alive : Match(d, g)
        \/ q.pc = "tell" /\ Made(q) /\ q.game = r.game /\ q.dev \in Alive /\ Published(q)
    BY <1>1, <1>2, <1>3, TellingPublished
  <2>2. req'[p] = q /\ UNCHANGED <<place, listed, versions, games>>
    BY <1>1, <1>3, ReadIs
  <2>3. OneRow(g)' /\ Versioned(g)'
    BY <1>1, <1>2, <2>2 DEF OneRow, Versioned
  <2>4. CASE q = Idle /\ \A d \in Alive : Match(d, g)
    BY <2>2, <2>3, <2>4 DEF Handled, Match, Alive
  <2>5. CASE q.pc = "tell" /\ Made(q) /\ q.game = r.game /\ Published(q)
    <3>1. Published(req[p])'
      BY <2>2, <2>5, ReadPublished
    <3> QED
      BY <2>2, <2>3, <2>5, <3>1 DEF Handled, Publishing, Informing
  <2> QED
    BY <2>1, <2>4, <2>5
<1>4. CASE ListDevices(p)
  <2>1. Read(p, Telling(r, Alive))
    BY <1>4 DEF ListDevices
  <2>2. Handled(p, g)
    BY <1>3, <2>1
  <2> QED
    BY <2>2
<1>5. CASE Told(p)
  <2>1. Read(p, Telling(r, r.todo)) /\ r.todo \subseteq Alive
    BY <1>1, <1>5 DEF Told, Published
  <2>2. \A d \in Alive : d \in r.todo \/ games[d][g] = r.ver
    BY <1>1, <1>5 DEF Told, Published, Spread
  <2>3. Handled(p, g)
    BY <1>3, <2>1, <2>2
  <2> QED
    BY <2>3
<1>6. CASE Tell(p)
  <2> PICK q : q = [r EXCEPT !.pc = "told"]
    OBVIOUS
  <2>0. r.pc = "tell"
    BY <1>6 DEF Tell
  <2>1. q.pc = "told" /\ q.game = g /\ q.ver = r.ver /\ q.todo = r.todo
    BY <1>1 DEF Made, Request
  <2>2. Made(q)
    BY <1>1, <2>0, GoesOn
  <2>3. r.seen[g] = games[r.dev][g] /\ Spread(r, r.ver) /\ r.todo \subseteq Alive
    BY <1>1, <2>0 DEF Published
  <2>4. req'[p] = q /\ AddGame(r.dev, g, r.ver, r.seen[g]) /\ UNCHANGED <<place, listed, versions>>
    BY <1>1, <1>6, <2>3 DEF Tell, TryGame, MayAddGame, AddGame, addressVars
  <2>5. /\ games'[r.dev][g] = r.ver
        /\ \A d \in Device : d # r.dev => games'[d][g] = games[d][g]
    BY <1>1, <2>3, <2>4 DEF AddGame, TInv, Games
  <2>6. Spread(q, q.ver)'
    BY <2>0, <2>1, <2>3, <2>4, <2>5 DEF Spread, Alive
  <2>7. Published(q)'
    BY <1>2, <2>1, <2>3, <2>4, <2>6 DEF Published, Publishing, Informing, Withdrawing, Alive
  <2>8. Published(req[p])'
    BY <2>4, <2>7
  <2>9. OneRow(g)' /\ Versioned(g)'
    BY <1>1, <1>2, <2>4 DEF OneRow, Versioned
  <2>10. Handled(p, g)
    BY <2>1, <2>2, <2>4, <2>8, <2>9 DEF Handled, Publishing, Informing
  <2> QED
    BY <2>10
<1> QED
  BY <1>4, <1>5, <1>6

LEMMA WithdrawHandled ==
  ASSUME NEW p \in Req, GStepped(p), req[p].game \notin racedGames,
         Unlist(p) \/ Unlisted(p) \/ RemoveGame(p) \/ Removed(p) \/ RemoveVersions(p)
  PROVE  Handled(p, req[p].game)
<1> PICK r : r = req[p]
  OBVIOUS
<1> PICK g : g = r.game
  OBVIOUS
<1>0. GameStep(p) /\ r.pc \in Withdrawing
  BY DEF GameStep, Unlist, Unlisted, RemoveGame, Removed, RemoveVersions, Withdrawing
<1>1. /\ Made(r) /\ r.dev \in Device /\ g \in Game /\ TInv /\ r.kind = "withdraw"
      /\ Published(r) /\ OneRow(g)
      /\ \A s : Set(p, s) => req'[p] = s
  BY <1>0, GameOwn
<1>2. r.pc # "unlist" => listed[g] = {}
  BY <1>0, <1>1 DEF Published
<1>3. ASSUME NEW D \in SUBSET Alive, Read(p, Removing(r, D)), listed[g] = {},
             \A d \in Alive : d \in D \/ games[d][g] = NoVersion
      PROVE  Handled(p, g)
  <2> PICK q : q = Removing(r, D)
    OBVIOUS
  <2>0. r \in Request
    BY <1>1, MadeIs
  <2>1. q.pc \in {"versions", "remove"} /\ Made(q) /\ q.game = g /\ Published(q)
    BY <1>1, <1>3, <2>0, RemovingPublished
  <2>2. req'[p] = q /\ UNCHANGED <<place, listed, versions, games>>
    BY <1>1, <1>3, ReadIs
  <2>3. OneRow(g)' /\ Versioned(g)'
    BY <1>3, <2>2 DEF OneRow, Versioned
  <2>4. Published(req[p])'
    BY <2>1, <2>2, ReadPublished
  <2> QED
    BY <2>1, <2>2, <2>3, <2>4 DEF Handled, Withdrawing
<1>4. CASE Unlisted(p)
  <2>1. Read(p, Removing(r, Alive)) /\ listed[g] = {}
    BY <1>2, <1>4 DEF Unlisted
  <2>2. Handled(p, g)
    BY <1>3, <2>1
  <2> QED
    BY <2>2
<1>5. CASE Removed(p)
  <2>1. Read(p, Removing(r, r.todo)) /\ r.todo \subseteq Alive /\ listed[g] = {}
    BY <1>1, <1>2, <1>5 DEF Removed, Published
  <2>2. \A d \in Alive : d \in r.todo \/ games[d][g] = NoVersion
    BY <1>1, <1>5 DEF Removed, Published, Spread
  <2>3. Handled(p, g)
    BY <1>3, <2>1, <2>2
  <2> QED
    BY <2>3
<1>6. CASE Unlist(p)
  <2> PICK q : q = [r EXCEPT !.row = 0, !.pc = "unlisted"]
    OBVIOUS
  <2>0. r.pc = "unlist" /\ r.row = FirstRow(g)
    BY <1>1, <1>6 DEF Unlist, Published
  <2>1. q.pc = "unlisted" /\ q.game = g
    BY <1>1 DEF Made, Request
  <2>2. Made(q)
    BY <1>1, <2>0, GoesOn
  <2>3. req'[p] = q /\ DeleteList(g, r.row)
    BY <1>1, <1>6 DEF Unlist, TryGame
  <2>4. listed[g] # {} => HasRow(g, r.row)
    BY <1>1, <2>0, FirstRowIs
  <2>5. \A w \in listed[g] : w.id = r.row
    BY <1>1, <2>4 DEF HasRow, OneRow
  <2>6. listed'[g] = {}
    BY <1>1, <2>3, <2>5 DEF DeleteList, TInv, Games
  <2>7. OneRow(g)' /\ Versioned(g)'
    BY <2>6 DEF OneRow, Versioned
  <2>8. Published(q)'
    BY <2>1, <2>6 DEF Published, Publishing, Informing, Withdrawing
  <2>9. Published(req[p])'
    BY <2>3, <2>8
  <2>10. Handled(p, g)
    BY <2>1, <2>2, <2>3, <2>7, <2>9 DEF Handled, Withdrawing
  <2> QED
    BY <2>10
<1>7. CASE RemoveGame(p)
  <2> PICK q : q = [r EXCEPT !.pc = "removed"]
    OBVIOUS
  <2>0. r.pc = "remove" /\ listed[g] = {}
    BY <1>2, <1>7 DEF RemoveGame
  <2>1. q.pc = "removed" /\ q.game = g /\ q.todo = r.todo
    BY <1>1 DEF Made, Request
  <2>2. Made(q)
    BY <1>1, <2>0, GoesOn
  <2>3. req'[p] = q /\ DeleteGame(r.dev, g) /\ place' = place
    BY <1>1, <1>7 DEF RemoveGame, TryGame, addressVars
  <2>4. Spread(r, NoVersion) /\ r.todo \subseteq Alive
    BY <1>1, <2>0 DEF Published
  <2>5. /\ games'[r.dev][g] = NoVersion /\ listed' = listed
        /\ \A d \in Device : d # r.dev => games'[d][g] = games[d][g]
    BY <1>1, <2>3 DEF DeleteGame, TInv, Games
  <2>6. Spread(q, NoVersion)'
    BY <2>0, <2>1, <2>3, <2>4, <2>5 DEF Spread, Alive
  <2>7. Published(q)'
    BY <2>0, <2>1, <2>3, <2>4, <2>5, <2>6 DEF Published, Publishing, Informing, Withdrawing, Alive
  <2>8. Published(req[p])'
    BY <2>3, <2>7
  <2>9. OneRow(g)' /\ Versioned(g)'
    BY <2>0, <2>5 DEF OneRow, Versioned
  <2>10. Handled(p, g)
    BY <2>1, <2>2, <2>3, <2>8, <2>9 DEF Handled, Withdrawing
  <2> QED
    BY <2>10
<1>8. CASE RemoveVersions(p)
  <2>1. r.pc = "versions" /\ req'[p] = Idle /\ DeleteVersions(r.found) /\ place' = place
    BY <1>1, <1>8 DEF RemoveVersions, TryGame, addressVars
  <2>2. Spread(r, NoVersion) /\ listed[g] = {}
    BY <1>1, <1>2, <2>1 DEF Published
  <2>3. \A d \in Alive : games[d][g] = NoVersion
    <3>1. r.todo = {}
      BY <1>1, <2>1 DEF Published
    <3> QED
      BY <2>1, <2>2, <3>1 DEF Spread
  <2>4. \A d \in Alive' : Match(d, g)'
    BY <2>1, <2>2, <2>3 DEF DeleteVersions, Match, Alive
  <2>5. OneRow(g)' /\ Versioned(g)'
    BY <2>1, <2>2 DEF DeleteVersions, OneRow, Versioned
  <2>6. Handled(p, g)
    BY <2>1, <2>4, <2>5 DEF Handled
  <2> QED
    BY <2>6
<1> QED
  BY <1>4, <1>5, <1>6, <1>7, <1>8

LEMMA GameHandled ==
  ASSUME NEW p \in Req, GStepped(p), GameStep(p), req[p].game \notin racedGames
  PROVE  Handled(p, req[p].game)
BY ListHandled, VersionHandled, TellHandled, WithdrawHandled DEF GameStep

(* Whatever a step of update_game or delete_game meets, it leads to another *)
(* one of its steps or to the end                                           *)
LEMMA GameGoes ==
  ASSUME TInv, NEW p \in Req, GameStep(p)
  PROVE  \/ req'[p].pc = "idle"
         \/ /\ req'[p].pc \in Publishing \cup Withdrawing /\ req'[p].game = req[p].game
            /\ req'[p].pc = "tell" => req'[p].dev \in Alive
<1> PICK r : r = req[p] /\ Made(r)
  BY DEF TInv, Requests
<1>1. \A q : Set(p, q) => req'[p] = q
  BY DEF Set, TInv, Requests
<1>2. Idle.pc = "idle" /\ r \in Request /\ r.todo \in SUBSET Device /\ Alive \in SUBSET Device
  BY IdleMade, MadeIs DEF Alive
<1>4. CASE ListDevices(p) \/ Told(p)
  <2>1. r.kind = "publish" /\ r.ver \in GameVersion
    BY <1>4, MadeIs DEF ListDevices, Told, Publishing, Informing
  <2>2. PICK D \in SUBSET Device : Read(p, Telling(r, D))
    BY <1>2, <1>4 DEF ListDevices, Told
  <2> PICK q : q = Telling(r, D)
    OBVIOUS
  <2>3. q = Idle \/ (q.pc = "tell" /\ q.game = r.game /\ q.dev \in Alive)
    BY <1>2, <2>1, TellingIs
  <2> QED
    BY <1>1, <1>2, <2>2, <2>3, ReadIs DEF Publishing, Informing
<1>5. CASE Unlisted(p) \/ Removed(p)
  <2>1. r.kind = "withdraw"
    BY <1>5, MadeIs DEF Unlisted, Removed, Withdrawing
  <2>2. PICK D \in SUBSET Device : Read(p, Removing(r, D))
    BY <1>2, <1>5 DEF Unlisted, Removed
  <2> PICK q : q = Removing(r, D)
    OBVIOUS
  <2>3. q = Idle \/ (q.pc \in {"versions", "remove"} /\ q.game = r.game)
    BY <1>2, <2>1, RemovingIs
  <2> QED
    BY <1>1, <1>2, <2>2, <2>3, ReadIs DEF Withdrawing
<1>6. CASE UpdateGameList(p)
  <2> PICK q : q = [r EXCEPT !.row = 0, !.pc = "info"]
    OBVIOUS
  <2>1. q.pc = "info" /\ q.game = r.game
    BY <1>2 DEF Request
  <2> QED
    BY <1>1, <1>2, <1>6, <2>1 DEF UpdateGameList, TryGame, Finish, Publishing
<1>7. CASE GetGameInfo(p)
  <2> PICK q : q = [r EXCEPT !.found = {<<r.game, r.ver>>} \cap versions, !.pc = "version"]
    OBVIOUS
  <2>1. q.pc = "version" /\ q.game = r.game
    BY <1>2 DEF Request
  <2> QED
    BY <1>1, <1>7, <2>1, ReadIs DEF GetGameInfo, Publishing
<1>8. CASE SaveVersion(p)
  <2> PICK q : q = [r EXCEPT !.found = {}, !.pc = "devices"]
    OBVIOUS
  <2>1. q.pc = "devices" /\ q.game = r.game
    BY <1>2 DEF Request
  <2> QED
    BY <1>1, <1>2, <1>8, <2>1 DEF SaveVersion, TryGame, Finish, Publishing, Informing
<1>9. CASE Tell(p)
  <2> PICK q : q = [r EXCEPT !.pc = "told"]
    OBVIOUS
  <2>1. q.pc = "told" /\ q.game = r.game
    BY <1>2 DEF Request
  <2> QED
    BY <1>1, <1>2, <1>9, <2>1 DEF Tell, TryGame, Finish, Publishing, Informing
<1>10. CASE Unlist(p)
  <2> PICK q : q = [r EXCEPT !.row = 0, !.pc = "unlisted"]
    OBVIOUS
  <2>1. q.pc = "unlisted" /\ q.game = r.game
    BY <1>2 DEF Request
  <2> QED
    BY <1>1, <1>10, <2>1 DEF Unlist, TryGame, Withdrawing
<1>11. CASE RemoveGame(p)
  <2> PICK q : q = [r EXCEPT !.pc = "removed"]
    OBVIOUS
  <2>1. q.pc = "removed" /\ q.game = r.game
    BY <1>2 DEF Request
  <2> QED
    BY <1>1, <1>11, <2>1 DEF RemoveGame, TryGame, Withdrawing
<1>12. CASE RemoveVersions(p)
  BY <1>1, <1>2, <1>12 DEF RemoveVersions, TryGame
<1> QED
  BY <1>4, <1>5, <1>6, <1>7, <1>8, <1>9, <1>10, <1>11, <1>12 DEF GameStep

(* A request that was just accepted *)
Fresh(p) ==
    /\ Born(p)'
    /\ \A g \in Game \ racedGames : Full(p, g)' /\ (g \in Listed(p)' => Published(req[p])')

LEMMA AcceptFresh ==
  ASSUME NEW p \in Req, GStepped(p), Accept(p)
  PROVE  Fresh(p)
<1>1. TInv /\ \A q : Set(p, q) => req'[p] = q
  BY DEF GStepped, Stepped, CInv
<1>2. UNCHANGED <<place, listed, versions, games>>
  BY DEF Accept, Deploy, DropDevice, DropAddress, Withdraw, Publish, Begin, Read, addressVars, gameVars
<1>3. ASSUME NEW q, req'[p] = q, q.kind \in {"deploy", "drop", "erase"},
             q.pc \in {"create", "device", "undeploy", "drop", "erase"}
             \/ (q.pc \in {"uncount", "move"} /\ place[q.dev] \in Address)
      PROVE  Fresh(p)
  <2>1. Listed(p)' = {} /\ \A g \in Game \ racedGames : Full(p, g)'
    BY <1>3 DEF Listed, Listing, Full
  <2>2. Born(p)'
    BY <1>2, <1>3, Names DEF Born, Relocating, Filling
  <2> QED
    BY <2>1, <2>2 DEF Fresh
<1>4. ASSUME NEW q, req'[p] = q, q.pc \in {"list", "unlist", "versions", "remove"}, Published(q)
      PROVE  Fresh(p)
  <2>1. Published(req[p])'
    BY <1>2, <1>4, ReadPublished
  <2>2. Born(p)' /\ \A g \in Game \ racedGames : Full(p, g)'
    BY <1>4 DEF Born, Full, Relocating, Filling
  <2> QED
    BY <2>1, <2>2 DEF Fresh
<1>5. ASSUME NEW d \in Device, NEW a \in Address, Deploy(p, d, a) PROVE Fresh(p)
  <2> PICK r : r = [Idle EXCEPT !.kind = "deploy", !.dev = d, !.addr = a]
    OBVIOUS
  <2>1. r \in Request /\ r.kind = "deploy" /\ r.addr = a /\ r.dev = d
    BY IdleIs DEF Request, Kind
  <2>2. CASE a \in sites
    <3> PICK q : q = Located(r)
      OBVIOUS
    <3>1. req'[p] = q /\ q.pc # "idle"
      BY <1>1, <1>5, <2>2, ReadIs DEF Deploy, Begin
    <3>2. /\ q.kind = "deploy" /\ q.dev = d /\ q.old = place[d]
          /\ q.pc = "device" \/ (q.pc \in {"uncount", "move"} /\ q.old \in Address)
      BY <1>1, <2>1, <3>1, LocatedIs, IdleMade
    <3> QED
      BY <1>3, <3>1, <3>2
  <2>3. CASE a \notin sites
    <3> PICK q : q = [r EXCEPT !.pc = "create"]
      OBVIOUS
    <3>1. req'[p] = q
      BY <1>1, <1>5, <2>3, ReadIs DEF Deploy, Begin
    <3>2. q.kind = "deploy" /\ q.pc = "create"
      BY <2>1 DEF Request
    <3> QED
      BY <1>3, <3>1, <3>2
  <2> QED
    BY <2>2, <2>3
<1>6. ASSUME NEW d \in Device, DropDevice(p, d) PROVE Fresh(p)
  <2> PICK r : r = [Idle EXCEPT !.kind = "drop", !.dev = d]
    OBVIOUS
  <2> PICK q : q = Undeploying(r, GameList)
    OBVIOUS
  <2>1. r \in Request /\ r.kind = "drop" /\ r.addr = Nowhere
    BY DropAccepted
  <2>2. req'[p] = q /\ q.pc # "idle"
    BY <1>1, <1>6, ReadIs DEF DropDevice, Begin
  <2>3. q.kind = "drop" /\ q.pc \in {"undeploy", "drop"}
    <3>1. q # Idle /\ GameList \in SUBSET ListEntry
      BY <1>1, <2>2, GameListIs, IdleMade
    <3> QED
      BY <1>1, <2>1, <3>1, UndeployingIs DEF Same
  <2> QED
    BY <1>3, <2>2, <2>3
<1>7. ASSUME NEW a \in Address, DropAddress(p, a) PROVE Fresh(p)
  <2> PICK q : q = [Idle EXCEPT !.kind = "erase", !.addr = a, !.todo = DevicesAt(a), !.pc = "erase"]
    OBVIOUS
  <2>1. req'[p] = q
    BY <1>1, <1>7, ReadIs DEF DropAddress, Begin
  <2>2. q.kind = "erase" /\ q.pc = "erase"
    BY EraseAccepted
  <2> QED
    BY <1>3, <2>1, <2>2
<1>8. ASSUME NEW g \in Game, NEW v \in GameVersion, Publish(p, g, v) PROVE Fresh(p)
  <2> PICK q : q = [Idle EXCEPT !.kind = "publish", !.game = g, !.ver = v, !.row = FirstRow(g), !.pc = "list"]
    OBVIOUS
  <2>1. req'[p] = q
    BY <1>1, <1>8, ReadIs DEF Publish, Begin
  <2>2. q.game = g /\ q.row = FirstRow(g) /\ q.pc = "list"
    BY <1>1, PublishAccepted
  <2>3. Published(q)
    BY <2>2 DEF Published, Publishing, Informing, Withdrawing
  <2> QED
    BY <1>4, <2>1, <2>2, <2>3
<1>9. ASSUME NEW g \in Game, Withdraw(p, g) PROVE Fresh(p)
  <2> PICK r : r = [Idle EXCEPT !.kind = "withdraw", !.game = g]
    OBVIOUS
  <2>1. r \in Request /\ r.kind = "withdraw" /\ r.game = g
    BY <1>1, WithdrawAccepted
  <2>2. CASE listed[g] = {}
    <3> PICK q : q = Removing(r, Alive)
      OBVIOUS
    <3>1. req'[p] = q
      BY <1>1, <1>9, <2>2, ReadIs DEF Withdraw, Begin
    <3>2. q.pc \in {"versions", "remove"} /\ Published(q)
      BY <1>1, <2>1, <2>2, RemovingPublished
    <3> QED
      BY <1>4, <3>1, <3>2
  <2>3. CASE listed[g] # {}
    <3> PICK q : q = [r EXCEPT !.row = FirstRow(g), !.pc = "unlist"]
      OBVIOUS
    <3>1. req'[p] = q
      BY <1>1, <1>9, <2>3, ReadIs DEF Withdraw, Begin
    <3>2. q.game = g /\ q.row = FirstRow(g) /\ q.pc = "unlist"
      BY <2>1 DEF Request
    <3>3. Published(q)
      BY <3>2 DEF Published, Publishing, Informing, Withdrawing
    <3> QED
      BY <1>4, <3>1, <3>2, <3>3
  <2> QED
    BY <2>2, <2>3
<1> QED
  BY <1>5, <1>6, <1>7, <1>8, <1>9 DEF Accept

(* What a step of p leaves of the others *)
LEMMA OthersPublished ==
  ASSUME GInv, NEW p \in Req, Stepped(p), Accept(p) \/ Serve(p) \/ Crash(p),
         NEW o \in Req \ {p}, NEW g \in Game \ racedGames, g \in Listed(o)
  PROVE  g \in Listed(o)' /\ Published(req[o])'
<1>1. TInv /\ Met /\ Published(req[o])
  BY DEF GInv, Stepped, CInv, Follows
<1>2. Listing(o) /\ req[o].game = g
  BY DEF Listed
<1>3. ~Moving(p) /\ g \notin Listed(p)
  <2>1. Listed(o) = {g}
    BY <1>2 DEF Listed
  <2>2. ~SharesGames(o, p)
    BY <1>1, <2>1 DEF Met
  <2>3. Listed(p) = {} \/ Listed(p) = {req[p].game}
    BY DEF Listed
  <2> QED
    BY <1>2, <2>1, <2>2, <2>3 DEF SharesGames
<1>4. /\ Alive' = Alive /\ listed'[g] = listed[g]
      /\ \A v : <<g, v>> \in versions' <=> <<g, v>> \in versions
      /\ \A d \in Device : games'[d][g] = games[d][g]
  BY <1>1, <1>3, AliveFramed, ListFramed
<1> PICK r : r = req[o]
  OBVIOUS
<1>5. Made(r) /\ r.dev \in Device /\ Alive \subseteq Device
  BY <1>1, MadeIs DEF TInv, Requests, Alive
<1>6. req'[o] = r
  BY DEF Stepped, Alone
<1>7. Published(r)'
  <2>1. FirstRow(g)' = FirstRow(g)
    BY <1>4 DEF FirstRow
  <2>2. \A v : Spread(r, v) => Spread(r, v)'
    BY <1>2, <1>4, <1>5 DEF Spread
  <2>3. {<<g, r.ver>>} \cap versions' = {<<g, r.ver>>} \cap versions
    BY <1>4
  <2>4. Published(r) /\ r.game = g
    BY <1>1, <1>2
  <2> QED
    BY <1>4, <1>5, <2>1, <2>2, <2>3, <2>4 DEF Published
<1> QED
  BY <1>2, <1>6, <1>7 DEF Listed, Listing

LEMMA OthersFull ==
  ASSUME GInv, NEW p \in Req, Stepped(p), Accept(p) \/ Serve(p) \/ Crash(p),
         NEW o \in Req \ {p}, NEW g \in Game \ racedGames
  PROVE  Full(o, g)'
<1> PICK r : r = req[o]
  OBVIOUS
<1>1. TInv /\ Met /\ Full(o, g) /\ racedDevices \subseteq racedDevices'
  BY DEF GInv, Stepped, Alone, CInv, Follows
<1>2. req'[o] = r
  BY DEF Stepped, Alone
<1> SUFFICES ASSUME r.pc \in {"add", "next"}, r.dev \notin racedDevices PROVE Filled(r, g)'
  BY <1>1, <1>2 DEF Full
<1>3. Filled(r, g)
  BY <1>1 DEF Full
<1>4. Moving(o) /\ Devices(o) = {r.dev} /\ r.dev \in Device
  BY <1>1, MovingIs, MovingHas, MadeIs DEF TInv, Requests, Deploying, Filling
<1>5. r.dev \notin Devices(p) /\ ~Listing(p)
  BY <1>1, <1>4 DEF Met
<1>6. games'[r.dev] = games[r.dev] /\ listed'[g] = listed[g]
  BY <1>1, <1>4, <1>5, GamesFramed, ListFramed DEF Listed
<1> QED
  BY <1>3, <1>6 DEF Filled

(* A device p does not have in hand *)
LEMMA FarMatched ==
  ASSUME GInv, NEW p \in Req, Stepped(p), Accept(p) \/ Serve(p) \/ Crash(p),
         NEW g \in Game \ racedGames, NEW d \in Alive' \ racedDevices', d \notin Devices(p), place'[d] \in Address,
         g \in Listed(p) => Match(d, g)' \/ g \in Listed(p)'
  PROVE  Match(d, g)' \/ \E o \in Req : g \in Listed(o)' \/ Fills(o, d, g)'
<1>1. TInv /\ Met /\ Frame(p) /\ d \in Device /\ Matched(d, g) /\ racedDevices \subseteq racedDevices'
  BY DEF GInv, Follows, Stepped, Alone, CInv, Alive
<1>2. place'[d] = place[d]
  BY <1>1 DEF Frame
<1>3. d \in Alive /\ d \notin racedDevices /\ place[d] \in Address
  BY <1>1, <1>2, Names DEF Alive
<1>4. CASE g \in Listed(p)
  BY <1>4
<1>5. CASE g \notin Listed(p) /\ Match(d, g)
  <2>1. listed'[g] = listed[g] /\ (~Moving(p) => games'[d][g] = games[d][g])
    BY <1>1, <1>5, ListFramed
  <2>2. Moving(p) => games'[d] = games[d]
    BY <1>1, GamesFramed DEF Moving, Listing
  <2> QED
    BY <1>5, <2>1, <2>2 DEF Match
<1>6. ASSUME NEW o \in Req \ {p}, g \in Listed(o) PROVE g \in Listed(o)'
  BY <1>6, OthersPublished
<1>7. ASSUME NEW o \in Req \ {p}, Fills(o, d, g) PROVE Fills(o, d, g)'
  <2>1. Moving(o) /\ req[o].dev = d /\ req'[o] = req[o]
    BY <1>7 DEF Fills, Stepped, Alone
  <2>2. ~Listing(p)
    BY <1>1, <1>3, <2>1 DEF Met
  <2>3. games'[d] = games[d]
    BY <1>1, <2>2, GamesFramed
  <2> QED
    BY <1>7, <2>1, <2>3 DEF Fills, Moving
<1>8. ~Fills(p, d, g)
  BY MovingHas DEF Fills
<1> QED
  BY <1>1, <1>3, <1>4, <1>5, <1>6, <1>7, <1>8 DEF Matched

(* A device p has in hand *)
LEMMA OwnMatched ==
  ASSUME NEW p \in Req, GStepped(p), Accept(p) \/ Serve(p),
         NEW g \in Game \ racedGames, NEW d \in Alive' \ racedDevices', d \in Devices(p), place'[d] \in Address
  PROVE  Match(d, g)' \/ \E o \in Req : g \in Listed(o)' \/ Fills(o, d, g)'
<1>1. GInv /\ Stepped(p) /\ TInv /\ Met /\ d \notin racedDevices
  BY DEF GStepped, Stepped, Alone, CInv
<1>2. d \in Device
  BY DEF Alive
<1>3. ~Accept(p)
  <2>1. Accept(p) => req[p].pc = "idle"
    BY DEF Accept, Deploy, DropDevice, DropAddress, Withdraw, Publish, Begin
  <2> QED
    BY <2>1, IdleHas
<1>4. ~GameStep(p)
  BY GameOwn, IdleHas
<1>5. CASE DeployStep(p)
  <2>1. d = req[p].dev
    BY <1>5, DeployOwn, MovingHas
  <2>2. Served(p, d)
    BY <1>5, <2>1, DeployServed
  <2> QED
    BY <1>1, <2>2 DEF Served
<1>6. CASE Undeploy(p) \/ Undeployed(p) \/ Drop(p)
  <2>1. d = req[p].dev
    BY <1>1, <1>6, MovingIs, MovingHas DEF Undeploy, Undeployed, Drop, Dropping
  <2>2. Served(p, d)
    BY <1>6, <2>1, DropServed
  <2> QED
    BY <1>1, <2>2 DEF Served
<1>7. CASE Erase(p)
  <2> PICK r : r = req[p]
    OBVIOUS
  <2>1. Devices(p) = r.todo /\ r.pc = "erase" /\ ~Moving(p)
    BY <1>1, <1>7, MadeIs, ErasingHas DEF Erase, TInv, Requests, Moving
  <2>2. CASE MayErase(r.addr, r.todo)
    BY <1>2, <1>7, <2>1, <2>2, Names DEF Erase, TryAddress, EraseAddress
  <2>3. CASE ~MayErase(r.addr, r.todo)
    <3>1. UNCHANGED <<place, listed, games>>
      BY <1>7, <2>3 DEF Erase, TryAddress, addressVars, gameVars
    <3>2. Matched(d, g) /\ d \in Alive
      BY <1>1, <1>2, <3>1 DEF GInv, Follows, Alive
    <3>3. ~Listing(p) /\ Listed(p) = {}
      BY <1>1, IdleHas DEF Listed
    <3>4. ASSUME NEW o \in Req, g \in Listed(o) PROVE g \in Listed(o)'
      BY <1>1, <1>7, <3>3, <3>4, OthersPublished DEF Serve, DropStep
    <3>5. ASSUME NEW o \in Req, Fills(o, d, g) PROVE Fills(o, d, g)'
      BY <1>1, <2>1, <3>1, <3>5 DEF Fills, Moving, Stepped, Alone
    <3>6. Match(d, g) => Match(d, g)'
      BY <3>1 DEF Match
    <3> QED
      BY <1>1, <3>1, <3>2, <3>4, <3>5, <3>6 DEF Matched
  <2> QED
    BY <2>2, <2>3
<1> QED
  BY <1>3, <1>4, <1>5, <1>6, <1>7 DEF Serve, DropStep

LEMMA GInitially == Init => GInv
<1> SUFFICES ASSUME Init PROVE GInv
  OBVIOUS
<1>1. RInv /\ TInv
  BY RInitially DEF RInv, CInv
<1>2. \A p \in Req : req[p] = Idle /\ req[p].pc = "idle"
  BY IdleMade DEF Init
<1>3. Unborns /\ \A p \in Req : Born(p)
  BY <1>2 DEF Init, Unborns, Born, Relocating, Filling
<1>4. \A p \in Req, g \in Game : g \notin Listed(p) /\ Full(p, g)
  BY <1>2 DEF Listed, Listing, Full
<1>5. PICK pub \in [Game -> GameVersion \cup {NoVersion}], id \in Injection(Game, 1..lastId) :
          /\ listed = [g \in Game |-> {[id |-> id[g], ver |-> v] : v \in {pub[g]} \ {NoVersion}}]
          /\ games = [d \in Device |-> IF place[d] = Unborn THEN NoGames ELSE pub]
  BY DEF Init
<1>6. ASSUME NEW g \in Game PROVE OneRow(g) /\ Versioned(g)
  <2>1. listed[g] = {[id |-> id[g], ver |-> v] : v \in {pub[g]} \ {NoVersion}}
    BY <1>5
  <2>2. OneRow(g)
    BY <2>1 DEF OneRow
  <2>3. \A r \in listed[g] : <<g, r.ver>> \in versions
    BY DEF Init, Settled
  <2> QED
    BY <2>2, <2>3 DEF Versioned
<1>7. ASSUME NEW g \in Game, NEW d \in Device PROVE Matched(d, g)
  <2> SUFFICES ASSUME place[d] # Unborn PROVE Match(d, g)
    BY Names DEF Matched
  <2>1. games[d][g] = pub[g]
    BY <1>5
  <2>2. listed[g] = {[id |-> id[g], ver |-> v] : v \in {pub[g]} \ {NoVersion}}
    BY <1>5
  <2>3. {r.ver : r \in listed[g]} = {pub[g]} \ {NoVersion}
    <3>1. \A r \in listed[g] : r.ver \in {pub[g]} \ {NoVersion}
      BY <2>2
    <3>2. ASSUME NEW v \in {pub[g]} \ {NoVersion} PROVE \E r \in listed[g] : r.ver = v
      <4>1. [id |-> id[g], ver |-> v] \in listed[g]
        BY <2>2
      <4>2. [id |-> id[g], ver |-> v].ver = v
        OBVIOUS
      <4> QED
        BY <4>1, <4>2
    <3> QED
      BY <3>1, <3>2
  <2> QED
    BY <2>1, <2>3 DEF Match
<1> QED
  BY <1>1, <1>3, <1>4, <1>6, <1>7 DEF GInv, Follows

(* The request that makes the step *)
LEMMA OwnRequest ==
  ASSUME NEW p \in Req, GStepped(p), Accept(p) \/ Serve(p) \/ Crash(p)
  PROVE  /\ Born(p)'
         /\ \A g \in Game \ racedGames :
              /\ Full(p, g)'
              /\ g \in Listed(p)' => Published(req[p])'
<1>1. TInv /\ \A q : Set(p, q) => req'[p] = q
  BY DEF GStepped, Stepped, CInv
<1>2. CASE req'[p] = Idle
  BY <1>2, Stops
<1>3. CASE Accept(p)
  BY <1>3, AcceptFresh DEF Fresh
<1>4. CASE DeployStep(p)
  BY <1>4, DeployServed DEF Served
<1>5. CASE DropStep(p)
  <2>1. CASE Erase(p)
    BY <1>1, <1>2, <2>1 DEF Erase, TryAddress, Finish
  <2> QED
    BY <1>5, <2>1, DropServed DEF Served, DropStep
<1>6. CASE Crash(p)
  BY <1>1, <1>2, <1>6, CrashIdles
<1>7. CASE GameStep(p)
  <2>1. UNCHANGED place
    BY <1>7 DEF GameStep, UpdateGameList, GetGameInfo, SaveVersion, ListDevices, Tell, Told, Unlist, Unlisted,
       RemoveGame, Removed, RemoveVersions, TryGame, Read, addressVars
  <2>2. \/ req'[p].pc = "idle"
        \/ /\ req'[p].pc \in Publishing \cup Withdrawing /\ req'[p].game = req[p].game
           /\ req'[p].pc = "tell" => req'[p].dev \in Alive
    BY <1>1, <1>7, GameGoes
  <2>3. Born(p)' /\ \A g \in Game : Full(p, g)'
    BY <2>1, <2>2 DEF Born, Full, Alive, Relocating, Filling, Publishing, Informing, Withdrawing
  <2>4. ASSUME NEW g \in Game \ racedGames, g \in Listed(p)' PROVE Published(req[p])'
    <3>1. g = req[p].game
      BY <2>2, <2>4 DEF Listed, Listing
    <3>2. Handled(p, g)
      BY <1>7, <2>4, <3>1, GameHandled
    <3>3. req'[p] # Idle
      BY <2>4, IdleMade DEF Listed, Listing
    <3> QED
      BY <3>2, <3>3 DEF Handled
  <2> QED
    BY <1>7, <2>3, <2>4
<1> QED
  BY <1>3, <1>4, <1>5, <1>6, <1>7 DEF Serve

LEMMA GInductive == GInv /\ [Next]_vars => GInv'
<1> SUFFICES ASSUME GInv, [Next]_vars PROVE GInv'
  OBVIOUS
<1>1. RInv /\ RInv' /\ CInv /\ TInv /\ TInv' /\ Met /\ Met'
  BY RInductive DEF GInv, RInv, CInv
<1>2. CASE UNCHANGED vars
  <2>1. /\ req' = req /\ place' = place /\ listed' = listed /\ games' = games /\ versions' = versions
        /\ UNCHANGED history
    BY <1>2 DEF vars, addressVars, gameVars
  <2>2. Unborns' /\ \A p \in Req : Born(p)'
    BY <2>1 DEF GInv, Unborns, Born
  <2>3. ASSUME NEW g \in Game \ racedGames PROVE Follows(g)'
    <3>1. Follows(g)
      BY DEF GInv
    <3>2. \A p \in Req : Listed(p)' = Listed(p) /\ Moving(p)' = Moving(p)
      BY <2>1 DEF Listed, Listing, Moving
    <3>3. OneRow(g)' /\ Versioned(g)'
      BY <2>1, <3>1 DEF Follows, OneRow, Versioned
    <3>4. ASSUME NEW p \in Req PROVE (g \in Listed(p)' => Published(req[p])') /\ Full(p, g)'
      <4>1. g \in Listed(p) => Published(req[p])
        BY <3>1 DEF Follows
      <4>2. PICK r : r = req[p]
        OBVIOUS
      <4>3. Published(r) => Published(r)'
        BY <2>1, ReadPublished
      <4>4. Full(p, g)'
        BY <2>1, <3>1 DEF Follows, Full, Filled, history
      <4> QED
        BY <2>1, <3>2, <4>1, <4>2, <4>3, <4>4
    <3>5. ASSUME NEW d \in Device PROVE Matched(d, g)'
      <4>1. Matched(d, g)
        BY <3>1 DEF Follows
      <4>2. \A p \in Req : Fills(p, d, g)' = Fills(p, d, g)
        BY <2>1, <3>2 DEF Fills
      <4> QED
        BY <2>1, <3>2, <4>1, <4>2 DEF Matched, Match, Alive, history
    <3> QED
      BY <3>3, <3>4, <3>5 DEF Follows
  <2>4. racedGames' = racedGames
    BY <2>1 DEF history
  <2> QED
    BY <1>1, <2>2, <2>3, <2>4 DEF GInv
<1>3. ASSUME NEW p \in Req, raced \subseteq raced', racedDevices \subseteq racedDevices',
             racedGames \subseteq racedGames',
             \/ Accept(p) \/ Serve(p)
             \/ Crash(p) /\ Devices(p) \subseteq racedDevices' /\ Listed(p) \subseteq racedGames'
      PROVE  GInv'
  <2>a. Accept(p) \/ Serve(p) \/ Crash(p)
    BY <1>3
  <2>b. Frame(p) /\ \A o \in Req \ {p} : req'[o] = req[o]
    BY <1>1, <2>a, Framed, OthersWait
  <2>0. Stepped(p)
    BY <1>1, <1>3, <2>b DEF Stepped, Alone
  <2>1. Stepped(p) /\ GStepped(p)
    BY <1>1, <2>0 DEF GStepped, Set, TInv, Requests
  <2>2. Unborns'
    BY <1>1, <2>a, <2>1, UnbornsKept DEF GInv, Stepped
  <2>3. ASSUME NEW o \in Req PROVE Born(o)'
    <3>1. CASE o = p
      BY <2>a, <2>1, <3>1, OwnRequest
    <3>2. CASE o # p
      <4>1. req'[o] = req[o] /\ Born(o) /\ req[o].dev \in Device
        BY <1>1, <2>1, <3>2, MadeIs DEF GInv, Stepped, Alone, TInv, Requests
      <4> QED
        BY <2>1, <4>1, StaysBorn DEF Born, Stepped
    <3> QED
      BY <3>1, <3>2
  <2>4. ASSUME NEW g \in Game \ racedGames' PROVE Follows(g)'
    <3>0. g \in Game \ racedGames /\ Follows(g)
      BY <1>3 DEF GInv
    <3>1. Listed(p) = {} \/ Listed(p) = {req[p].game}
      BY DEF Listed
    <3>2. g \in Listed(p) => GameStep(p)
      <4>1. ASSUME g \in Listed(p), ~GameStep(p) PROVE FALSE
        <5>1. Listing(p)
          BY <4>1 DEF Listed
        <5>2. Accept(p) \/ Serve(p)
          BY <1>3, <3>0, <4>1
        <5>3. Accept(p) => req[p].pc = "idle"
          BY DEF Accept, Deploy, DropDevice, DropAddress, Withdraw, Publish, Begin
        <5>4. DeployStep(p) => Moving(p)
          BY <2>1, DeployOwn
        <5>5. DropStep(p) => Moving(p) \/ req[p].kind = "erase"
          BY <1>1, MovingIs DEF DropStep, Undeploy, Undeployed, Drop, Erase, Dropping, TInv, Requests, Made
        <5> QED
          BY <4>1, <5>1, <5>2, <5>3, <5>4, <5>5 DEF Serve, Listing, Moving
      <4> QED
        BY <4>1
    <3>3. g \in Listed(p) => Handled(p, g)
      BY <2>1, <3>0, <3>1, <3>2, GameHandled
    <3>4. g \in Listed(p) => g \in Listed(p)' \/ \A d \in Alive' : Match(d, g)'
      <4> HAVE g \in Listed(p)
      <4>0. SUFFICES ASSUME ~(\A d \in Alive' : Match(d, g)') PROVE g \in Listed(p)'
        OBVIOUS
      <4>1. req'[p].pc \in Publishing \cup Withdrawing /\ req'[p].game = g /\ Made(req'[p])
        BY <3>3, <4>0 DEF Handled
      <4>2. Listing(p)'
        BY <4>1 DEF Listing, Made, Publishing, Informing, Withdrawing
      <4> QED
        BY <4>1, <4>2 DEF Listed
    <3>5. OneRow(g)' /\ Versioned(g)'
      <4>1. CASE g \in Listed(p)
        BY <3>3, <4>1 DEF Handled
      <4>2. CASE g \notin Listed(p)
        <5>1. listed'[g] = listed[g] /\ \A v : <<g, v>> \in versions' <=> <<g, v>> \in versions
          BY <1>1, <2>a, <3>0, <4>2, ListFramed
        <5>2. \A o \in Req : req[o].pc \in {"info", "version"} /\ req[o].game = g => o # p
          BY <1>1, <4>2, MovingIs DEF Listed, Publishing
        <5>3. \A o \in Req \ {p} : req'[o] = req[o]
          BY <2>1 DEF Stepped, Alone
        <5> QED
          BY <3>0, <5>1, <5>2, <5>3 DEF Follows, OneRow, Versioned
      <4> QED
        BY <4>1, <4>2
    <3>6. ASSUME NEW o \in Req PROVE g \in Listed(o)' => Published(req[o])'
      <4>1. CASE o # p
        <5>1. Listed(o)' = Listed(o)
          BY <2>1, <4>1 DEF Stepped, Alone, Listed, Listing
        <5> QED
          BY <2>a, <2>1, <3>0, <4>1, <5>1, OthersPublished DEF GStepped
      <4>2. CASE o = p
        BY <2>a, <2>1, <3>0, <4>2, OwnRequest
      <4> QED
        BY <4>1, <4>2
    <3>7. \A o \in Req : Full(o, g)'
      BY <2>a, <2>1, <3>0, OwnRequest, OthersFull DEF GStepped
    <3>8. ASSUME NEW d \in Device PROVE Matched(d, g)'
      <4> SUFFICES ASSUME d \in Alive' \ racedDevices', place'[d] \in Address
                   PROVE  Match(d, g)' \/ \E o \in Req : g \in Listed(o)' \/ Fills(o, d, g)'
        BY DEF Matched
      <4>1. CASE d \in Devices(p)
        <5>1. Accept(p) \/ Serve(p)
          BY <1>3, <4>1
        <5> QED
          BY <2>1, <3>0, <4>1, <5>1, OwnMatched
      <4>2. CASE d \notin Devices(p)
        BY <2>a, <2>1, <3>0, <3>4, <4>2, FarMatched DEF GStepped
      <4> QED
        BY <4>1, <4>2
    <3> QED
      BY <3>5, <3>6, <3>7, <3>8 DEF Follows
  <2> QED
    BY <1>1, <2>2, <2>3, <2>4 DEF GInv
<1>4. ASSUME NEW p \in Req, Accept(p) \/ Serve(p), raced' = raced \cup MeetingSites',
             racedDevices' = racedDevices \cup MeetingDevices', racedGames' = racedGames \cup MeetingGames'
      PROVE  GInv'
  BY <1>3, <1>4
<1>5. ASSUME NEW p \in Req, Crash(p), raced' = raced \cup Sites(p),
             racedDevices' = racedDevices \cup Devices(p), racedGames' = racedGames \cup Listed(p)
      PROVE  GInv'
  BY <1>3, <1>5
<1> QED
  BY <1>2, <1>4, <1>5 DEF Next

(* A game nobody raced for has one row, its version and its devices follow *)
(* it, or the request that will see to it is still there (update_game,     *)
(* delete_game, deploy_device, delete_device).                             *)
THEOREM GamesInvariant == Spec => []GInv
BY GInitially, GInductive, PTL DEF Spec

(* Every deployed device has exactly the published games, each at the       *)
(* published version, and that version has an md5 (update_game, delete_game, *)
(* deploy_device_game), once nobody deploys the device or handles the game, *)
(* if no requests for either ever overlapped or died.                       *)
THEOREM EveryDeviceFollows == Spec => []GamesFollowList
<1>1. GInv => GamesFollowList
  <2> SUFFICES ASSUME GInv, NEW d \in Alive \ racedDevices, NEW g \in Game \ racedGames,
                      place[d] \in Address, \A p \in Req : ~InHand(p, d) /\ g \notin Listed(p)
               PROVE  Match(d, g) /\ \A r \in listed[g] : <<g, r.ver>> \in versions
    BY DEF GamesFollowList, Match
  <2>1. Follows(g) /\ Matched(d, g) /\ TInv
    BY DEF GInv, Follows, RInv, CInv, Alive
  <2>2. \A p \in Req : ~Fills(p, d, g)
    BY DEF Fills, InHand
  <2>3. \A p \in Req : ~(req[p].pc \in {"info", "version"} /\ req[p].game = g)
    BY <2>1, MovingIs DEF Listed, Publishing
  <2> QED
    BY <2>1, <2>2, <2>3 DEF Matched, Follows, Versioned
<1> QED
  BY <1>1, GamesInvariant, PTL

=============================================================================
