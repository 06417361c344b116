---------------------------- MODULE Session_proofs ----------------------------
(***************************************************************************)
(* What is proved of the sessions, for any users, devices and requests.    *)
(* TInv types the variables and says what a request has in hand where it   *)
(* stands; Held, that whoever is between lock and leave holds the lock of  *)
(* his user; KInv, that the keys of a user are set and deleted under it in *)
(* an order that never leaves one behind; BInv, that a busy row is either  *)
(* being written, held by a session nobody has billed yet, or left by a    *)
(* login that redis broke off before the charging text; VInv, that         *)
(* later records have seen later versions; RInv, that who sets a charging  *)
(* text or bills one is not behind another request of the same player and  *)
(* device.                                                                 *)
(***************************************************************************)
EXTENDS Session, SequenceTheorems, FiniteSetTheorems, TLAPS

LoginAt == {"checked", "state", "setRecord", "setUser", "setDevice"}
LogoutAt == {"recheck", "bill", "settle", "delRecord", "delUser", "delDevice"}

(* The records created and those about to be *)
Checked == {q \in Req : At(q, "checked")}
Room == Len(record) + Cardinality(Checked) <= MaxRecord

(* r is the number of a record of token t *)
RecordOf(r, t) == r \in 1..Len(record) /\ record[r] = t

(* Where a request stands says what it has in hand *)
Placed ==
    \A p \in Req :
        /\ req[p].pc # "idle" => req[p].tok \in Token
        /\ req[p].pc \in LoginAt => req[p].kind = "login"
        /\ req[p].pc \in LogoutAt => req[p].kind = "logout"
        /\ req[p].pc \notin {"idle", "checked"} => RecordOf(req[p].rec, req[p].tok)

KeysPlaced == \A t \in Token : recordKey[t] # 0 => RecordOf(recordKey[t], t)

TInv ==
    /\ TypeOK
    /\ billed \in Seq(Nat) /\ Len(billed) = Len(record)
    /\ Room /\ Placed /\ KeysPlaced

-----------------------------------------------------------------------------
(* Types *)

LEMMA CheckedFinite == IsFiniteSet(Checked) /\ Cardinality(Checked) \in Nat
<1>1. IsFiniteSet(Checked)
  BY SessionAssumption, FS_Subset DEF Checked
<1> QED
  BY <1>1, FS_CardinalityType

(* As long as nobody else is about to create a record there is room *)
LEMMA RoomStays ==
  ASSUME TInv, Checked' \subseteq Checked, record' = record
  PROVE  Room'
<1>1. /\ IsFiniteSet(Checked) /\ Cardinality(Checked) \in Nat
      /\ Cardinality(Checked') \in Nat /\ Cardinality(Checked') <= Cardinality(Checked)
  BY CheckedFinite, FS_Subset, FS_CardinalityType
<1>2. Room /\ Len(record) \in Nat
  BY DEF TInv, TypeOK
<1> QED
  BY <1>1, <1>2, SessionAssumption DEF Room

(* A request that puts r in hand leaves the others as they are *)
LEMMA Turns ==
  ASSUME TInv, NEW p \in Req, NEW r \in Request, req' = [req EXCEPT ![p] = r]
  PROVE  /\ req' \in [Req -> Request]
         /\ req'[p] = r
         /\ \A q \in Req \ {p} : req'[q] = req[q]
BY DEF TInv, TypeOK

(* Most steps of a request only move it on *)
LEMMA Moves ==
  ASSUME TInv, NEW p \in Req, NEW l \in Label, Goto(p, l)
  PROVE  /\ req' \in [Req -> Request]
         /\ req'[p] \in Request
         /\ req'[p].pc = l /\ req'[p].kind = req[p].kind /\ req'[p].tok = req[p].tok
         /\ req'[p].rec = req[p].rec /\ req'[p].seen = req[p].seen
         /\ \A q \in Req \ {p} : req'[q] = req[q]
<1> DEFINE r == [req[p] EXCEPT !.pc = l]
<1>1. req[p] \in Request
  BY DEF TInv, TypeOK
<1>2. r \in Request /\ r.pc = l /\ r.kind = req[p].kind /\ r.tok = req[p].tok
      /\ r.rec = req[p].rec /\ r.seen = req[p].seen
  BY <1>1 DEF Request
<1>3. req' = [req EXCEPT ![p] = r]
  BY DEF Goto
<1> HIDE DEF r
<1> QED
  BY <1>2, <1>3, Turns

LEMMA MovesKeep ==
  ASSUME TInv, NEW p \in Req, NEW l \in Label \ {"checked", "idle"}, Goto(p, l),
         req[p].pc \notin {"idle", "checked"},
         l \in LoginAt => req[p].kind = "login",
         l \in LogoutAt => req[p].kind = "logout",
         record' = record
  PROVE  req' \in [Req -> Request] /\ Placed' /\ Room'
<1>1. /\ req' \in [Req -> Request]
      /\ req'[p].pc = l /\ req'[p].kind = req[p].kind /\ req'[p].tok = req[p].tok
      /\ req'[p].rec = req[p].rec
      /\ \A q \in Req \ {p} : req'[q] = req[q]
  BY Moves
<1>2. Placed'
  BY <1>1 DEF TInv, Placed, RecordOf
<1>3. Checked' \subseteq Checked
  BY <1>1 DEF Checked, At
<1> QED
  BY <1>1, <1>2, <1>3, RoomStays

LEMMA IdleTyped == Idle \in Request /\ Idle.pc = "idle"
  BY SessionAssumption DEF Idle, Request, Label, Row, NoRow

(* A request that is over, however it ends *)
LEMMA EndKeeps ==
  ASSUME TInv, NEW p \in Req, req' = [req EXCEPT ![p] = Idle], record' = record
  PROVE  req' \in [Req -> Request] /\ Placed' /\ Room'
<1>1. /\ req' \in [Req -> Request] /\ req'[p] = Idle
      /\ \A q \in Req \ {p} : req'[q] = req[q]
  BY IdleTyped, Turns
<1>2. Placed'
  BY <1>1, IdleTyped DEF TInv, Placed, RecordOf, LoginAt, LogoutAt
<1>3. Checked' \subseteq Checked
  BY <1>1, IdleTyped DEF Checked, At
<1> QED
  BY <1>1, <1>2, <1>3, RoomStays

LEMMA RowsTyped ==
  ASSUME NEW r \in Row
  PROVE  /\ r.ver \in Nat /\ r.state \in DeviceState /\ r.upd \in UpdateState
         /\ \A s \in DeviceState : /\ [r EXCEPT !.state = s] \in Row
                                   /\ [r EXCEPT !.state = s, !.ver = @ + 1] \in Row
                                   /\ [r EXCEPT !.ver = @ + 1, !.state = s] \in Row
         /\ \A u \in UpdateState : [r EXCEPT !.upd = u] \in Row
<1>1. r.ver \in Nat /\ r.state \in DeviceState /\ r.upd \in UpdateState
  BY DEF Row
<1>2. r.ver + 1 \in Nat
  BY <1>1
<1>3. ASSUME NEW s \in DeviceState
      PROVE  /\ [r EXCEPT !.state = s] \in Row
             /\ [r EXCEPT !.state = s, !.ver = @ + 1] \in Row
             /\ [r EXCEPT !.ver = @ + 1, !.state = s] \in Row
  BY <1>2 DEF Row
<1>4. ASSUME NEW u \in UpdateState PROVE [r EXCEPT !.upd = u] \in Row
  BY DEF Row
<1> QED
  BY <1>1, <1>3, <1>4

(* What the handlers do with the row keeps it a row *)
LEMMA RowsKeep ==
  ASSUME RowTypeOK, NEW p \in Req
  PROVE  /\ Commit(p) => RowTypeOK'
         /\ Rollback(p) => RowTypeOK'
         /\ \A d \in Device : Latest(d) \in Row \cup {NoRow}
         /\ \A d \in Device, r \in Row : Put(p, d, r) /\ row' = row => RowTypeOK'
<1>1. Clean \in [by : Req \cup {NoReq}, row : Row \cup {NoRow}]
  BY DEF Clean
<1>2. \A d \in Device : dirty[d].row \in Row \cup {NoRow} /\ row[d] \in Row \cup {NoRow}
  BY DEF RowTypeOK
<1>3. Commit(p) => RowTypeOK'
  BY <1>1, <1>2 DEF Commit, RowTypeOK
<1>4. Rollback(p) => RowTypeOK'
  BY <1>1 DEF Rollback, RowTypeOK
<1>5. \A d \in Device, r \in Row : Put(p, d, r) /\ row' = row => RowTypeOK'
  BY DEF Put, RowTypeOK
<1> QED
  BY <1>2, <1>3, <1>4, <1>5 DEF Latest

(* What the steps of a request leave alone is still typed *)
LEMMA Rest ==
  ASSUME TInv, req' \in [Req -> Request], Placed', Room',
         RowTypeOK', KeysPlaced',
         recordKey' \in [Token -> 0..MaxRecord],
         userKey' \in [User -> Token \cup {NoToken}],
         deviceKey' \in [Device -> Token \cup {NoToken}],
         onlineKey' \subseteq Token,
         lockKey' \in [User -> {"absent", "left"} \cup Req],
         record' \in Seq(Token), billed' \in Seq(Nat),
         Len(record') <= MaxRecord, Len(billed') = Len(record'),
         order' \in Token \cup {NoToken},
         crashes' \in 0..MaxCrash, forced' \in 0..MaxForced, unopened' \subseteq Device
  PROVE  TInv'
<1>1. DOMAIN billed' = DOMAIN record'
  OBVIOUS
<1>2. \A r \in DOMAIN billed' : billed'[r] \in Nat
  OBVIOUS
<1> QED
  BY <1>1, <1>2 DEF TInv, TypeOK

LEMMA LockTyped ==
  ASSUME TInv, NEW p \in Req, Lock(p)
  PROVE  TInv'
<1>1. UNCHANGED <<rowVars, keyVars, recVars, order, countVars>>
  BY DEF Lock, EnterLock, FailLock, GiveUp, LeaveLock
<1>2. req[p].tok \in Token \/ req[p].pc = "idle"
  BY DEF TInv, Placed
<1>3. lockKey' \in [User -> {"absent", "left"} \cup Req]
  BY <1>2 DEF Lock, EnterLock, FailLock, GiveUp, LeaveLock, TInv, TypeOK
<1>4. PICK l \in Label \ {"checked", "idle"} :
         /\ Goto(p, l)
         /\ l \in LoginAt => req[p].kind = "login"
         /\ l \in LogoutAt => req[p].kind = "logout"
  <2>1. Body(p) \in Label \ {"checked", "idle"}
    BY DEF Body, Label
  <2>2. req[p].kind \in {"login", "logout"}
    BY DEF TInv, TypeOK, Request
  <2> QED
    BY <2>1, <2>2 DEF Lock, EnterLock, FailLock, GiveUp, LeaveLock, Body, Label,
                      LoginAt, LogoutAt
<1>5. req[p].pc \notin {"idle", "checked"}
  BY DEF Lock, EnterLock, FailLock, GiveUp, LeaveLock, At
<1>6. req' \in [Req -> Request] /\ Placed' /\ Room'
  BY <1>1, <1>4, <1>5, MovesKeep DEF recVars
<1> QED
  BY <1>1, <1>3, <1>6, Rest
     DEF TInv, TypeOK, rowVars, keyVars, recVars, countVars, RowTypeOK, KeysPlaced, RecordOf

LEMMA CreateRecordTyped ==
  ASSUME TInv, NEW p \in Req, CreateRecord(p)
  PROVE  TInv'
<1> DEFINE d == DeviceOf(p)
           l == IF row[d] = NoRow THEN "end" ELSE "lock"
           n == Len(record')
           r == [req[p] EXCEPT !.rec = n, !.seen = row[d], !.pc = l]
<1>1. req[p] \in Request /\ req[p].tok \in Token /\ req[p].pc = "checked"
      /\ req[p].kind = "login" /\ d \in Device
  BY DEF CreateRecord, At, TInv, TypeOK, Placed, LoginAt, DeviceOf, Token
<1>2. record \in Seq(Token) /\ record' = Append(record, req[p].tok)
      /\ billed \in Seq(Nat) /\ billed' = Append(billed, 0) /\ Len(billed) = Len(record)
  BY DEF CreateRecord, TInv, TypeOK
<1>3. /\ record' \in Seq(Token) /\ billed' \in Seq(Nat)
      /\ Len(record') = Len(record) + 1 /\ Len(billed') = Len(record')
      /\ \A i \in 1..Len(record) : record'[i] = record[i]
      /\ record'[n] = req[p].tok
  BY <1>1, <1>2
<1>4. Checked' = Checked \ {p} /\ p \in Checked
      /\ Cardinality(Checked') = Cardinality(Checked) - 1
  <2>1. \A q \in Req : req'[q].pc = "checked" <=> q # p /\ req[q].pc = "checked"
    BY DEF CreateRecord, TInv, TypeOK, Request
  <2>2. Checked' = Checked \ {p} /\ p \in Checked
    BY <1>1, <2>1 DEF Checked, At
  <2>3. Cardinality(Checked \ {p}) = Cardinality(Checked) - 1
    BY <2>2, CheckedFinite, FS_RemoveElement
  <2> QED
    BY <2>2, <2>3
<1>5. Room' /\ Len(record') <= MaxRecord
  <2>1. Cardinality(Checked') \in Nat
    BY <1>4, CheckedFinite, FS_Subset, FS_CardinalityType
  <2> QED
    BY <1>2, <1>3, <1>4, <2>1, CheckedFinite, SessionAssumption DEF Room, TInv
<1>6. req' = [req EXCEPT ![p] = r]
  BY DEF CreateRecord
<1>7. r \in Request /\ r.pc = l /\ r.kind = "login" /\ r.tok = req[p].tok /\ r.rec = n
  <2>1. n \in 0..MaxRecord /\ row[d] \in Row \cup {NoRow} /\ l \in Label
    BY <1>1, <1>2, <1>3, <1>5 DEF TInv, TypeOK, RowTypeOK, Label
  <2> HIDE DEF n, l
  <2> QED
    BY <1>1, <2>1 DEF Request
<1>8. Placed' /\ req' \in [Req -> Request]
  <2> HIDE DEF r
  <2>1. /\ req' \in [Req -> Request] /\ req'[p] = r
        /\ \A q \in Req \ {p} : req'[q] = req[q]
    BY <1>6, <1>7, Turns
  <2>2. \A i, t : RecordOf(i, t) => RecordOf(i, t)'
    BY <1>2, <1>3 DEF RecordOf
  <2>3. r.rec \in 1..Len(record') /\ record'[r.rec] = r.tok
    BY <1>2, <1>3, <1>7
  <2>4. l \notin LoginAt \cup LogoutAt
    BY DEF LoginAt, LogoutAt
  <2> HIDE DEF n, l
  <2> QED
    BY <1>1, <1>7, <2>1, <2>2, <2>3, <2>4 DEF TInv, Placed, RecordOf
<1>9. KeysPlaced' /\ RowTypeOK'
  BY <1>2, <1>3
     DEF CreateRecord, rowVars, keyVars, TInv, TypeOK, RowTypeOK, KeysPlaced, RecordOf
<1> QED
  BY <1>3, <1>5, <1>8, <1>9, Rest DEF CreateRecord, TInv, TypeOK, keyVars, countVars

LEMMA LoginTyped ==
  ASSUME TInv, NEW p \in Req, Login(p), ~CreateRecord(p)
  PROVE  TInv'
<1>1. UNCHANGED <<lockKey, recVars, order, crashes, forced>> /\ unopened' \subseteq Device
  BY DEF Login, SetBusy, SetRecordKey, SetUserKey, SetDeviceKeys, countVars, TInv, TypeOK
<1>2. /\ req[p].pc \in LoginAt \ {"checked"} /\ req[p].kind = "login"
      /\ req[p].tok \in Token /\ RecordOf(req[p].rec, req[p].tok)
      /\ UserOf(p) \in User /\ DeviceOf(p) \in Device
      /\ req[p] \in Request
  BY DEF Login, SetBusy, SetRecordKey, SetUserKey, SetDeviceKeys, At, LoginAt,
         TInv, TypeOK, Placed, UserOf, DeviceOf, Token
<1>3. PICK l \in Label \ {"checked", "idle"} : Goto(p, l) /\ l \notin LogoutAt
  BY DEF Login, SetBusy, SetRecordKey, SetUserKey, SetDeviceKeys, Label, LogoutAt
<1>4. req' \in [Req -> Request] /\ Placed' /\ Room'
  BY <1>1, <1>2, <1>3, MovesKeep DEF recVars, LoginAt
<1>5. /\ userKey' \in [User -> Token \cup {NoToken}]
      /\ deviceKey' \in [Device -> Token \cup {NoToken}]
      /\ onlineKey' \subseteq Token
  BY <1>2 DEF Login, SetBusy, SetRecordKey, SetUserKey, SetDeviceKeys, keyVars, TInv, TypeOK
<1>6. recordKey' \in [Token -> 0..MaxRecord] /\ KeysPlaced'
  <2>1. CASE recordKey' = recordKey
    BY <1>1, <2>1 DEF recVars, TInv, TypeOK, KeysPlaced, RecordOf
  <2>2. CASE recordKey' = [recordKey EXCEPT ![req[p].tok] = req[p].rec]
    BY <1>1, <1>2, <2>2 DEF recVars, TInv, TypeOK, KeysPlaced, RecordOf, Request
  <2> QED
    BY <2>1, <2>2 DEF Login, SetBusy, SetRecordKey, SetUserKey, SetDeviceKeys, keyVars
<1>7. RowTypeOK'
  <2>1. CASE SetBusy(p)
    <3> DEFINE d == DeviceOf(p)
               r == [Latest(d) EXCEPT !.state = "busy", !.ver = @ + 1]
    <3>1. CASE UpdateStatus(p, d, req[p].seen.ver, "busy")
      <4>1. Latest(d) \in Row
        BY <1>2, <3>1, RowsKeep DEF UpdateStatus, VersionMatches, TInv, TypeOK
      <4>2. r \in Row
        BY <4>1, RowsTyped DEF DeviceState
      <4>3. Put(p, d, r) /\ row' = row
        BY <2>1, <3>1 DEF UpdateStatus, SetBusy
      <4> HIDE DEF r
      <4> QED
        BY <1>2, <4>2, <4>3, RowsKeep DEF TInv, TypeOK
    <3>2. CASE UNCHANGED rowVars
      BY <3>2 DEF rowVars, RowTypeOK, TInv, TypeOK
    <3> QED
      BY <2>1, <3>1, <3>2 DEF SetBusy, rowVars
  <2>2. CASE UNCHANGED rowVars
    BY <2>2 DEF rowVars, RowTypeOK, TInv, TypeOK
  <2> QED
    BY <2>1, <2>2 DEF Login, SetRecordKey, SetUserKey, SetDeviceKeys
<1> QED
  BY <1>1, <1>4, <1>5, <1>6, <1>7, Rest DEF TInv, TypeOK, recVars

(* A logout writes the row it releases, or the update state only *)
LEMMA SetReleasedTyped ==
  ASSUME TInv, NEW p \in Req, SetReleased(p)
  PROVE  RowTypeOK'
<1> DEFINE d == DeviceOf(p)
           u == IF req[p].seen.upd = "finish" THEN "check" ELSE Latest(d).upd
           s == IF req[p].seen.upd = "finish" THEN "lock" ELSE "free"
           tested == [Latest(d) EXCEPT !.upd = u]
<1>1. d \in Device
  BY DEF SetReleased, At, TInv, Placed, DeviceOf, Token
<1>2. RowTypeOK
  BY DEF TInv, TypeOK
<1>3. CASE UNCHANGED rowVars
  BY <1>2, <1>3 DEF rowVars, RowTypeOK
<1>4. CASE ~UNCHANGED rowVars
  <2>1. /\ Latest(d) # NoRow /\ row' = row
        /\ Put(p, d, tested) \/ Put(p, d, [tested EXCEPT !.ver = @ + 1, !.state = s])
    BY <1>4 DEF SetReleased, VersionMatches, rowVars
  <2>2. Latest(d) \in Row
    BY <1>1, <1>2, <2>1, RowsKeep
  <2>3. u \in UpdateState /\ s \in DeviceState
    BY <2>2, RowsTyped DEF UpdateState, DeviceState
  <2>4. tested \in Row
    BY <2>2, <2>3, RowsTyped
  <2>5. [tested EXCEPT !.ver = @ + 1, !.state = s] \in Row
    BY <2>3, <2>4, RowsTyped
  <2> QED
    BY <1>1, <1>2, <2>1, <2>4, <2>5, RowsKeep
<1> QED
  BY <1>3, <1>4

LEMMA RecheckTyped ==
  ASSUME TInv, NEW p \in Req, Recheck(p)
  PROVE  TInv'
<1> DEFINE x == DeviceRead(p)
           l == IF recordKey[req[p].tok] = 0 \/ x = NoRow THEN "leave" ELSE "bill"
           r == [req[p] EXCEPT !.seen = x, !.pc = l]
<1>1. /\ req[p] \in Request /\ req[p].pc = "recheck" /\ req[p].kind = "logout"
      /\ req[p].tok \in Token /\ DeviceOf(p) \in Device
      /\ RecordOf(req[p].rec, req[p].tok)
  BY DEF Recheck, At, TInv, TypeOK, Placed, LogoutAt, DeviceOf, Token
<1>2. x \in Row \cup {NoRow} /\ l \in {"leave", "bill"}
  BY <1>1 DEF DeviceRead, TInv, TypeOK, RowTypeOK, Request
<1>3. req' = [req EXCEPT ![p] = r]
  BY DEF Recheck
<1> HIDE DEF x, l
<1>4. r \in Request /\ r.pc = l /\ r.kind = "logout" /\ r.tok = req[p].tok
      /\ r.rec = req[p].rec
  BY <1>1, <1>2 DEF Request, Label
<1> HIDE DEF r
<1>5. /\ req' \in [Req -> Request] /\ req'[p] = r
      /\ \A q \in Req \ {p} : req'[q] = req[q]
  BY <1>3, <1>4, Turns
<1>6. Placed' /\ Checked' \subseteq Checked /\ record' = record
  BY <1>1, <1>2, <1>4, <1>5
     DEF TInv, Placed, RecordOf, LoginAt, Checked, At, Recheck, recVars
<1> QED
  BY <1>5, <1>6, RoomStays, Rest
     DEF Recheck, TInv, TypeOK, rowVars, keyVars, recVars, countVars, RowTypeOK,
         KeysPlaced, RecordOf

LEMMA LogoutTyped ==
  ASSUME TInv, NEW p \in Req, Logout(p)
  PROVE  TInv'
<1>1. CASE Recheck(p)
  BY <1>1, RecheckTyped
<1>2. CASE ~Recheck(p)
  <2>1. UNCHANGED <<lockKey, record, order, countVars>>
    BY <1>2 DEF Logout, SetReleased, Settle, DelRecordKey, DelUserKey, DelDeviceKeys, recVars
  <2>2. /\ req[p].pc \in LogoutAt /\ req[p].kind = "logout"
        /\ req[p].tok \in Token /\ RecordOf(req[p].rec, req[p].tok)
        /\ UserOf(p) \in User /\ DeviceOf(p) \in Device
    BY <1>2 DEF Logout, SetReleased, Settle, DelRecordKey, DelUserKey, DelDeviceKeys, At,
                LogoutAt, TInv, TypeOK, Placed, UserOf, DeviceOf, Token
  <2>3. PICK l \in Label \ {"checked", "idle"} : Goto(p, l) /\ l \notin LoginAt
    BY <1>2 DEF Logout, SetReleased, Settle, DelRecordKey, DelUserKey, DelDeviceKeys,
                Label, LoginAt
  <2>4. req' \in [Req -> Request] /\ Placed' /\ Room'
    BY <2>1, <2>2, <2>3, MovesKeep DEF LogoutAt
  <2>5. billed' \in Seq(Nat) /\ Len(billed') = Len(record')
    <3>1. billed \in Seq(Nat) /\ Len(billed) = Len(record)
      BY DEF TInv
    <3>2. CASE billed' = [billed EXCEPT ![req[p].rec] = @ + 1]
      <4>1. req[p].rec \in 1..Len(billed) /\ billed[req[p].rec] + 1 \in Nat
        BY <2>2, <3>1 DEF RecordOf
      <4> QED
        BY <2>1, <3>1, <3>2, <4>1
    <3>3. CASE billed' = billed
      BY <2>1, <3>1, <3>3
    <3> QED
      BY <1>2, <3>2, <3>3
         DEF Logout, SetReleased, Settle, DelRecordKey, DelUserKey, DelDeviceKeys, recVars
  <2>6. /\ recordKey' \in [Token -> 0..MaxRecord] /\ KeysPlaced'
        /\ userKey' \in [User -> Token \cup {NoToken}]
        /\ deviceKey' \in [Device -> Token \cup {NoToken}]
        /\ onlineKey' \subseteq Token
    <3>1. /\ recordKey \in [Token -> 0..MaxRecord] /\ KeysPlaced
          /\ userKey \in [User -> Token \cup {NoToken}]
          /\ deviceKey \in [Device -> Token \cup {NoToken}]
          /\ onlineKey \subseteq Token /\ 0 \in 0..MaxRecord
      BY SessionAssumption DEF TInv, TypeOK
    <3>2. CASE UNCHANGED keyVars
      BY <2>1, <3>1, <3>2 DEF keyVars, KeysPlaced, RecordOf
    <3>3. CASE DelRecordKey(p) \/ DelUserKey(p) \/ DelDeviceKeys(p)
      BY <2>1, <2>2, <3>1, <3>3 DEF DelRecordKey, DelUserKey, DelDeviceKeys, KeysPlaced,
                                    RecordOf
    <3> QED
      BY <1>2, <3>2, <3>3 DEF Logout, SetReleased, Settle
  <2>7. RowTypeOK'
    <3>1. CASE SetReleased(p)
      BY <3>1, SetReleasedTyped
    <3>2. CASE Settle(p)
      BY <3>2, RowsKeep DEF Settle, TInv, TypeOK
    <3>3. CASE UNCHANGED rowVars
      BY <3>3 DEF rowVars, RowTypeOK, TInv, TypeOK
    <3> QED
      BY <1>2, <3>1, <3>2, <3>3 DEF Logout, DelRecordKey, DelUserKey, DelDeviceKeys
  <2> QED
    BY <2>1, <2>4, <2>5, <2>6, <2>7, Rest DEF TInv, TypeOK, countVars
<1> QED
  BY <1>1, <1>2

LEMMA OverTyped ==
  ASSUME TInv, NEW p \in Req, Teardown(p) \/ Crash(p)
  PROVE  TInv'
<1>1. req' = [req EXCEPT ![p] = Idle] /\ UNCHANGED <<keyVars, recVars, order, forced, unopened>>
  BY DEF Teardown, Crash, countVars
<1>2. RowTypeOK'
  BY RowsKeep DEF Teardown, Crash, TInv, TypeOK
<1>3. lockKey' \in [User -> {"absent", "left"} \cup Req] /\ crashes' \in 0..MaxCrash
  BY SessionAssumption DEF Teardown, Crash, TInv, TypeOK, countVars
<1>4. req' \in [Req -> Request] /\ Placed' /\ Room'
  BY <1>1, EndKeeps DEF recVars
<1> QED
  BY <1>1, <1>2, <1>3, <1>4, Rest DEF TInv, TypeOK, keyVars, recVars, KeysPlaced, RecordOf

(* A request that redis breaks off leaves the rows and the keys as they are *)
LEMMA Broken ==
  ASSUME TInv, NEW p \in Req, Raises(p)
  PROVE  /\ Goto(p, "leave") /\ req' \in [Req -> Request]
         /\ req'[p].pc = "leave" /\ req'[p].kind = req[p].kind /\ req'[p].tok = req[p].tok
         /\ req'[p].rec = req[p].rec /\ req'[p].seen = req[p].seen
         /\ \A q \in Req \ {p} : req'[q] = req[q]
         /\ UNCHANGED <<row, dirty, recordKey, userKey, deviceKey, onlineKey, lockKey,
                        record, billed, order, forced>>
         /\ \/ /\ req[p].pc \in {"setRecord", "setUser", "setDevice"}
               /\ crashes' = crashes /\ unopened \subseteq unopened'
               /\ At(p, "setRecord") => DeviceOf(p) \in unopened'
            \/ /\ req[p].pc \in {"delRecord", "delUser", "delDevice"}
               /\ crashes' = crashes + 1 /\ crashes < MaxCrash /\ unopened' = unopened
         /\ unopened' \subseteq Device
<1>1. Goto(p, "leave")
  BY DEF Raises, LoginRaises, LogoutRaises
<1>2. /\ req' \in [Req -> Request]
      /\ req'[p].pc = "leave" /\ req'[p].kind = req[p].kind /\ req'[p].tok = req[p].tok
      /\ req'[p].rec = req[p].rec /\ req'[p].seen = req[p].seen
      /\ \A q \in Req \ {p} : req'[q] = req[q]
  BY <1>1, Moves DEF Label
<1>3. UNCHANGED <<row, dirty, recordKey, userKey, deviceKey, onlineKey, lockKey,
                  record, billed, order, forced>>
  BY DEF Raises, LoginRaises, LogoutRaises, rowVars, keyVars, recVars
<1>4. req[p].tok \in Token /\ unopened \subseteq Device
  BY DEF Raises, LoginRaises, LogoutRaises, TInv, TypeOK, Placed
<1>5. CASE LoginRaises(p)
  BY <1>1, <1>2, <1>3, <1>4, <1>5 DEF LoginRaises, At, DeviceOf, Token
<1>6. CASE LogoutRaises(p)
  BY <1>1, <1>2, <1>3, <1>4, <1>6 DEF LogoutRaises
<1> QED
  BY <1>5, <1>6 DEF Raises

LEMMA BrokenTyped ==
  ASSUME TInv, NEW p \in Req, Raises(p)
  PROVE  TInv'
<1>1. Placed' /\ Room' /\ req' \in [Req -> Request]
  BY Broken, MovesKeep DEF Label, LoginAt, LogoutAt
<1>2. crashes' \in 0..MaxCrash
  BY Broken, SessionAssumption DEF TInv, TypeOK
<1> QED
  BY <1>1, <1>2, Broken, Rest DEF TInv, TypeOK, RowTypeOK, KeysPlaced, RecordOf

(* A request that begins *)
LEMMA BeginTyped ==
  ASSUME TInv, NEW p \in Req, NEW r \in Request, req' = [req EXCEPT ![p] = r],
         UNCHANGED <<rowVars, keyVars, lockKey, recVars, countVars>>,
         r.tok \in Token,
         \/ r.pc = "checked" /\ r.kind = "login" /\ Room'
         \/ r.pc = "lock" /\ RecordOf(r.rec, r.tok),
         order' \in Token \cup {NoToken}
  PROVE  TInv'
<1>1. /\ req' \in [Req -> Request] /\ req'[p] = r
      /\ \A q \in Req \ {p} : req'[q] = req[q]
  BY Turns
<1>2. Placed'
  BY <1>1 DEF TInv, Placed, RecordOf, LoginAt, LogoutAt, recVars
<1>3. r.pc = "lock" => Checked' \subseteq Checked
  BY <1>1 DEF Checked, At
<1>4. Room'
  BY <1>3, RoomStays DEF recVars
<1> QED
  BY <1>1, <1>2, <1>4, Rest
     DEF TInv, TypeOK, rowVars, keyVars, recVars, countVars, RowTypeOK, KeysPlaced, RecordOf

LEMMA CheckLoginTyped ==
  ASSUME TInv, NEW p \in Req, NEW t \in Token, CheckLogin(p, t[1], t[2])
  PROVE  TInv'
<1> DEFINE r == [Idle EXCEPT !.tok = t, !.pc = "checked"]
<1>1. r \in Request /\ r.tok = t /\ r.pc = "checked" /\ r.kind = "login"
  BY IdleTyped DEF Idle, Request, Label
<1>2. t = <<t[1], t[2]>>
  BY DEF Token
<1>3. req' = [req EXCEPT ![p] = r]
  BY <1>2 DEF CheckLogin
<1> HIDE DEF r
<1>4. Checked' = Checked \cup {p}
  BY <1>1, <1>3, Turns DEF Checked, At
<1>5. Cardinality(Checked') <= Cardinality(Checked) + 1 /\ Cardinality(Checked') \in Nat
  <2>1. /\ IsFiniteSet(Checked \cup {p})
        /\ Cardinality(Checked \cup {p})
             = IF p \in Checked THEN Cardinality(Checked) ELSE Cardinality(Checked) + 1
    BY CheckedFinite, FS_AddElement
  <2>2. Cardinality(Checked) \in Nat
    BY CheckedFinite
  <2> QED
    BY <1>4, <2>1, <2>2
<1>6. Room'
  <2>1. Len(record) \in Nat /\ record' = record /\ MaxRecord \in Nat
    BY SessionAssumption DEF CheckLogin, recVars, TInv, TypeOK
  <2>2. Len(record) + Cardinality(Checked) < MaxRecord
    BY DEF CheckLogin, MayLogin, RoomForRecord, Checked
  <2> QED
    BY <1>5, <2>1, <2>2, CheckedFinite DEF Room
<1> QED
  BY <1>1, <1>3, <1>6, BeginTyped DEF CheckLogin, TInv, TypeOK

(* A logout that begins has the record of its token *)
LEMMA ReadChargingTyped ==
  ASSUME TInv, NEW p \in Req, NEW t \in Token, NEW seen \in Row \cup {NoRow},
         ReadCharging(p, t, seen),
         UNCHANGED <<rowVars, keyVars, lockKey, recVars, countVars>>,
         order' \in Token \cup {NoToken}
  PROVE  TInv'
<1> DEFINE r == [Idle EXCEPT !.kind = "logout", !.tok = t, !.rec = recordKey[t],
                             !.seen = seen, !.pc = "lock"]
<1>1. r \in Request /\ r.tok = t /\ r.pc = "lock" /\ r.rec = recordKey[t]
  BY IdleTyped DEF Idle, Request, Label, TInv, TypeOK
<1>2. req' = [req EXCEPT ![p] = r]
  BY DEF ReadCharging
<1>3. RecordOf(r.rec, r.tok)
  BY <1>1 DEF ReadCharging, TInv, KeysPlaced
<1> HIDE DEF r
<1> QED
  BY <1>1, <1>2, <1>3, BeginTyped

LEMMA AskTyped ==
  ASSUME TInv, NEW p \in Req, NEW t \in Token,
         CheckLogin(p, t[1], t[2]) \/ AskLogout(p, t) \/ Deliver(p)
  PROVE  TInv'
<1>1. CASE CheckLogin(p, t[1], t[2])
  BY <1>1, CheckLoginTyped
<1>2. CASE AskLogout(p, t)
  <2>1. PICK seen \in {NoRow, row[t[2]]} : ReadCharging(p, t, seen)
    BY <1>2 DEF AskLogout
  <2>2. seen \in Row \cup {NoRow}
    BY DEF TInv, TypeOK, RowTypeOK, Token
  <2> QED
    BY <1>2, <2>1, <2>2, ReadChargingTyped DEF AskLogout, TInv, TypeOK
<1>3. CASE Deliver(p)
  <2>1. order \in Token
    BY <1>3 DEF Deliver, TInv, TypeOK
  <2> QED
    BY <1>3, <2>1, ReadChargingTyped DEF Deliver
<1> QED
  BY <1>1, <1>2, <1>3

(* The world around the requests *)
World == \/ \E t \in Token : Sweep(t) \/ KeepAlive(t) \/ KeepAliveLost(t)
         \/ OrderLost
         \/ \E d \in Device : Maintain(d)

LEMMA WorldTyped == TInv /\ World => TInv'
<1> SUFFICES ASSUME TInv, World PROVE TInv'
  OBVIOUS
<1>1. UNCHANGED <<recordKey, userKey, deviceKey, lockKey, recVars, req, crashes, unopened>>
  BY DEF World, Sweep, KeepAlive, KeepAliveLost, OrderLost, Maintain, SelfCheckDone,
         UpdateWaits, DeleteDevice, keyVars, countVars
<1>2. /\ onlineKey' \subseteq Token /\ order' \in Token \cup {NoToken}
      /\ forced' \in 0..MaxForced
  <2>1. /\ onlineKey \subseteq Token /\ order \in Token \cup {NoToken}
        /\ forced \in 0..MaxForced /\ MaxForced \in Nat
    BY SessionAssumption DEF TInv, TypeOK
  <2>2. ASSUME NEW t \in Token, Sweep(t) \/ KeepAlive(t) \/ KeepAliveLost(t)
        PROVE  /\ onlineKey' \subseteq Token /\ order' \in Token \cup {NoToken}
               /\ forced' \in 0..MaxForced
    BY <2>1, <2>2 DEF Sweep, KeepAlive, KeepAliveLost, keyVars, countVars
  <2>3. CASE OrderLost \/ \E d \in Device : Maintain(d)
    BY <2>1, <2>3 DEF OrderLost, Maintain, SelfCheckDone, UpdateWaits, DeleteDevice,
                      keyVars, countVars
  <2> QED
    BY <2>2, <2>3 DEF World
<1>3. RowTypeOK'
  <2>1. RowTypeOK
    BY DEF TInv, TypeOK
  <2>2. CASE UNCHANGED rowVars
    BY <2>1, <2>2 DEF rowVars, RowTypeOK
  <2>3. ASSUME NEW d \in Device, SelfCheckDone(d) PROVE RowTypeOK'
    <3> DEFINE r == row[d]
               s == IF r.state = "lock" THEN "free" ELSE r.state
               v == IF r.state = "lock" THEN r.ver + 1 ELSE r.ver
               x == [r EXCEPT !.upd = "finish", !.state = s, !.ver = v]
    <3>1. r \in Row
      BY <2>1, <2>3 DEF RowTypeOK, SelfCheckDone, NoRow
    <3>2. r.ver \in Nat /\ r.state \in DeviceState
      BY <3>1, RowsTyped
    <3>3. row' = [row EXCEPT ![d] = x] /\ dirty' = dirty
      BY <2>3 DEF SelfCheckDone
    <3> HIDE DEF r
    <3>4. s \in DeviceState /\ v \in Nat
      BY <3>2 DEF DeviceState
    <3> HIDE DEF s, v
    <3>5. x \in Row
      BY <3>1, <3>4 DEF Row, UpdateState
    <3> QED
      BY <2>1, <3>3, <3>5 DEF RowTypeOK
  <2>4. ASSUME NEW d \in Device, UpdateWaits(d) PROVE RowTypeOK'
    <3>1. row[d] \in Row
      BY <2>1, <2>4 DEF RowTypeOK, UpdateWaits, NoRow
    <3>2. [row[d] EXCEPT !.upd = "wait"] \in Row
      BY <3>1, RowsTyped DEF UpdateState
    <3> QED
      BY <2>1, <2>4, <3>2 DEF UpdateWaits, RowTypeOK
  <2>5. ASSUME NEW d \in Device, DeleteDevice(d) PROVE RowTypeOK'
    BY <2>1, <2>5 DEF DeleteDevice, RowTypeOK
  <2> QED
    BY <2>2, <2>3, <2>4, <2>5 DEF World, Sweep, KeepAlive, KeepAliveLost, OrderLost, Maintain
<1>4. Checked' = Checked /\ record' = record
  BY <1>1 DEF Checked, At, recVars
<1>5. Room'
  BY <1>4, RoomStays
<1>6. Placed' /\ KeysPlaced'
  BY <1>1 DEF TInv, Placed, KeysPlaced, RecordOf, recVars
<1> QED
  BY <1>1, <1>2, <1>3, <1>5, <1>6, Rest DEF TInv, TypeOK, recVars

LEMMA TInvInductive == TInv /\ [Next]_vars => TInv'
<1> SUFFICES ASSUME TInv, [Next]_vars PROVE TInv'
  OBVIOUS
<1>1. ASSUME NEW p \in Req, Step(p) \/ Crash(p) PROVE TInv'
  BY <1>1, LockTyped, CreateRecordTyped, LoginTyped, LogoutTyped, OverTyped DEF Step
<1>2. ASSUME NEW p \in Req, NEW t \in Token, CheckLogin(p, t[1], t[2]) \/ AskLogout(p, t)
      PROVE  TInv'
  BY <1>2, AskTyped
<1>3. ASSUME NEW p \in Req, Deliver(p) PROVE TInv'
  <2>1. order \in Token
    BY <1>3 DEF Deliver, TInv, TypeOK
  <2> QED
    BY <1>3, <2>1, AskTyped
<1>4. CASE World
  BY <1>4, WorldTyped
<1>6. ASSUME NEW p \in Req, Raises(p) PROVE TInv'
  BY <1>6, BrokenTyped
<1>5. CASE UNCHANGED vars
  <2>1. Checked' = Checked /\ record' = record
    BY <1>5 DEF vars, recVars, Checked, At
  <2>2. UNCHANGED <<rowVars, keyVars, lockKey, recVars, order, req, countVars>>
    BY <1>5 DEF vars
  <2> QED
    BY <2>1, <2>2, RoomStays, Rest
       DEF rowVars, keyVars, recVars, countVars, TInv, TypeOK, RowTypeOK, Placed, KeysPlaced,
           RecordOf
<1> QED
  BY <1>1, <1>2, <1>3, <1>4, <1>5, <1>6 DEF Next, World

LEMMA TInvInit == Init => TInv
<1> SUFFICES ASSUME Init PROVE TInv
  OBVIOUS
<1>1. Clean \in [by : Req \cup {NoReq}, row : Row \cup {NoRow}] /\ NewRow \in Row
  BY DEF Clean, NewRow, Row, DeviceState, UpdateState
<1>2. RowTypeOK
  BY <1>1 DEF Init, RowInit, RowTypeOK
<1>3. Checked = {} /\ Cardinality({}) = 0
  BY IdleTyped, FS_EmptySet DEF Init, Checked, At
<1>4. record = << >> /\ billed = << >> /\ Len(record) = 0
  BY DEF Init
<1>5. record \in Seq(Token) /\ billed \in Seq(Nat) /\ Len(billed) = Len(record)
      /\ DOMAIN billed = DOMAIN record /\ \A r \in DOMAIN billed : billed[r] \in Nat
  BY <1>4
<1>6. Room /\ Len(record) <= MaxRecord
  BY <1>3, <1>4, SessionAssumption DEF Room
<1>7. Placed /\ KeysPlaced
  BY IdleTyped DEF Init, Placed, KeysPlaced, LoginAt, LogoutAt
<1>8. TypeOK
  BY <1>2, <1>5, <1>6, IdleTyped, SessionAssumption DEF Init, TypeOK
<1> QED
  BY <1>5, <1>6, <1>7, <1>8 DEF TInv

LEMMA Typed == Spec => []TInv
  BY TInvInit, TInvInductive, PTL DEF Spec

(* Every variable of the sessions keeps its type, and no run creates more   *)
(* records than it has room for, whoever is between its checks and its      *)
(* record.                                                                  *)
THEOREM SessionTypeOK == Spec => []TypeOK
<1>1. TInv => TypeOK
  BY DEF TInv
<1> QED
  BY <1>1, Typed, PTL
-----------------------------------------------------------------------------
(* The lock *)

Inside(p) == req[p].pc \in (LoginAt \cup LogoutAt) \ {"checked"}

(* Who is inside has set the key; a key is that of a request inside, or on *)
(* its way out                                                             *)
Held ==
    \A p \in Req, u \in User :
        /\ Inside(p) /\ UserOf(p) = u => lockKey[u] = p
        /\ lockKey[u] = p => (Inside(p) \/ At(p, "leave")) /\ UserOf(p) = u

(* Two requests are never inside for the same user *)
LEMMA Alone ==
  ASSUME TInv, Held, NEW p \in Req, NEW q \in Req, Inside(p), Inside(q), UserOf(p) = UserOf(q)
  PROVE  p = q
<1>1. UserOf(p) \in User
  BY DEF TInv, Placed, Inside, LoginAt, LogoutAt, UserOf, Token
<1> QED
  BY <1>1 DEF Held

LEMMA HeldStays ==
  ASSUME TInv, Held, NEW p \in Req, lockKey' = lockKey,
         \A q \in Req \ {p} : req'[q] = req[q],
         Inside(p)' => Inside(p) /\ req'[p].tok = req[p].tok,
         Inside(p) \/ At(p, "leave")
             => (Inside(p) \/ At(p, "leave"))' /\ req'[p].tok = req[p].tok
  PROVE  Held'
BY DEF Held, Inside, At, UserOf

LEMMA HeldStep ==
  ASSUME TInv, Held, NEW p \in Req, Step(p)
  PROVE  Held'
<1>1. CASE EnterLock(p)
  <2>1. Body(p) \in {"state", "recheck"}
    BY DEF Body
  <2>2. /\ req'[p].pc = Body(p) /\ req'[p].tok = req[p].tok
        /\ \A q \in Req \ {p} : req'[q] = req[q]
    BY <1>1, <2>1, Moves DEF EnterLock, Label
  <2>3. UserOf(p) \in User /\ ~Inside(p) /\ ~At(p, "leave")
    BY <1>1 DEF EnterLock, At, TInv, Placed, Inside, LoginAt, LogoutAt, UserOf, Token
  <2>4. Inside(p)' /\ UserOf(p)' = UserOf(p)
    BY <2>1, <2>2 DEF Inside, LoginAt, LogoutAt, UserOf
  <2>5. lockKey' = [lockKey EXCEPT ![UserOf(p)] = p] /\ lockKey[UserOf(p)] \notin Req
        /\ lockKey \in [User -> {"absent", "left"} \cup Req]
    BY <1>1, SessionAssumption DEF EnterLock, TInv, TypeOK
  <2>6. \A q \in Req \ {p} : /\ Inside(q)' = Inside(q) /\ At(q, "leave")' = At(q, "leave")
                             /\ UserOf(q)' = UserOf(q)
    BY <2>2 DEF Inside, At, UserOf
  <2> QED
    BY <2>3, <2>4, <2>5, <2>6 DEF Held
<1>2. CASE LeaveLock(p)
  <2>1. /\ req'[p].pc = "end"
        /\ \A q \in Req \ {p} : req'[q] = req[q]
    BY <1>2, Moves DEF LeaveLock, Label
  <2>2. UserOf(p) \in User /\ ~Inside(p)
    BY <1>2 DEF LeaveLock, At, TInv, Placed, Inside, LoginAt, LogoutAt, UserOf, Token
  <2>3. ~Inside(p)'
    BY <2>1 DEF Inside, LoginAt, LogoutAt
  <2>4. /\ lockKey \in [User -> {"absent", "left"} \cup Req]
        /\ \A u \in User :
              \/ lockKey'[u] = lockKey[u]
              \/ u = UserOf(p) /\ lockKey[u] \in {p, "left"} /\ lockKey'[u] = "absent"
        /\ lockKey'[UserOf(p)] # p
    BY <1>2, <2>2, SessionAssumption DEF LeaveLock, TInv, TypeOK
  <2>5. \A q \in Req \ {p} : /\ Inside(q)' = Inside(q) /\ At(q, "leave")' = At(q, "leave")
                             /\ UserOf(q)' = UserOf(q)
    BY <2>1 DEF Inside, At, UserOf
  <2>6. \A u \in User : lockKey[u] = p => u = UserOf(p)
    BY DEF Held
  <2>7. \A u \in User : lockKey'[u] # p
    BY <2>2, <2>4, <2>6, SessionAssumption
  <2>8. ASSUME NEW q \in Req, NEW u \in User
        PROVE  /\ Inside(q)' /\ UserOf(q)' = u => lockKey'[u] = q
               /\ lockKey'[u] = q => (Inside(q)' \/ At(q, "leave")') /\ UserOf(q)' = u
    <3>1. CASE q = p
      BY <2>3, <2>7, <3>1
    <3>2. CASE q # p
      BY <2>4, <2>5, <3>2, SessionAssumption DEF Held
    <3> QED
      BY <3>1, <3>2
  <2> QED
    BY <2>8 DEF Held
<1>3. CASE CreateRecord(p) \/ Teardown(p)
  <2>1. /\ req[p].pc \in {"checked", "end"} /\ lockKey' = lockKey
        /\ \E r \in {"idle", "end", "lock"} : req'[p].pc = r
        /\ \A q \in Req \ {p} : req'[q] = req[q]
    BY <1>3, IdleTyped DEF CreateRecord, Teardown, At, TInv, TypeOK, Request
  <2> QED
    BY <2>1, HeldStays DEF Inside, LoginAt, LogoutAt, At
<1>4. CASE FailLock(p) \/ GiveUp(p)
  <2>1. PICK l \in {"failed", "leave"} : Goto(p, l)
    BY <1>4 DEF FailLock, GiveUp
  <2>2. req[p].pc \in {"lock", "failed"} /\ lockKey' = lockKey
    BY <1>4 DEF FailLock, GiveUp, At
  <2>3. /\ req'[p].pc = l
        /\ \A q \in Req \ {p} : req'[q] = req[q]
    BY <2>1, Moves DEF Label
  <2> QED
    BY <2>1, <2>2, <2>3, HeldStays DEF Inside, LoginAt, LogoutAt, At
<1>5. CASE (Login(p) /\ ~CreateRecord(p)) \/ Logout(p)
  <2>1. Inside(p) /\ lockKey' = lockKey
    BY <1>5 DEF Login, SetBusy, SetRecordKey, SetUserKey, SetDeviceKeys,
                Logout, Recheck, SetReleased, Settle, DelRecordKey, DelUserKey, DelDeviceKeys,
                At, Inside, LoginAt, LogoutAt
  <2>2. /\ (Inside(p) \/ At(p, "leave"))' /\ req'[p].tok = req[p].tok
        /\ \A q \in Req \ {p} : req'[q] = req[q]
    <3>1. CASE Recheck(p)
      BY <3>1 DEF Recheck, TInv, TypeOK, Request, Inside, LogoutAt, At
    <3>2. CASE ~Recheck(p)
      <4>1. PICK l \in {"leave", "setRecord", "setUser", "setDevice", "settle", "delRecord",
                        "delUser", "delDevice"} : Goto(p, l)
        BY <1>5, <3>2
           DEF Login, SetBusy, SetRecordKey, SetUserKey, SetDeviceKeys,
               Logout, SetReleased, Settle, DelRecordKey, DelUserKey, DelDeviceKeys
      <4>2. /\ req'[p].pc = l /\ req'[p].tok = req[p].tok
            /\ \A q \in Req \ {p} : req'[q] = req[q]
        BY <4>1, Moves DEF Label
      <4> QED
        BY <4>1, <4>2 DEF Inside, LoginAt, LogoutAt, At
    <3> QED
      BY <3>1, <3>2
  <2> QED
    BY <2>1, <2>2, HeldStays
<1> QED
  BY <1>1, <1>2, <1>3, <1>4, <1>5 DEF Step, Lock, Login

LEMMA HeldInductive == TInv /\ Held /\ [Next]_vars => Held'
<1> SUFFICES ASSUME TInv, Held, [Next]_vars PROVE Held'
  OBVIOUS
<1>1. ASSUME NEW p \in Req, Step(p) PROVE Held'
  BY <1>1, HeldStep
<1>2. ASSUME NEW p \in Req, Crash(p) PROVE Held'
  <2>1. /\ req'[p].pc = "idle"
        /\ \A q \in Req \ {p} : req'[q] = req[q]
    BY <1>2, IdleTyped, Turns DEF Crash
  <2>2. \A u \in User : lockKey'[u] = IF lockKey[u] = p THEN "left" ELSE lockKey[u]
    BY <1>2 DEF Crash
  <2> QED
    BY <2>1, <2>2, SessionAssumption DEF Held, Inside, At, UserOf, LoginAt, LogoutAt
<1>3. ASSUME NEW p \in Req, NEW t \in Token, CheckLogin(p, t[1], t[2]) \/ AskLogout(p, t) \/ Deliver(p)
      PROVE  Held'
  <2>1. req[p].pc = "idle" /\ lockKey' = lockKey
    BY <1>3 DEF CheckLogin, AskLogout, Deliver, ReadCharging, At
  <2>2. /\ req'[p].pc \in {"checked", "lock"}
        /\ \A q \in Req \ {p} : req'[q] = req[q]
    <3>1. CASE CheckLogin(p, t[1], t[2])
      BY <3>1 DEF CheckLogin, Idle, TInv, TypeOK
    <3>2. ASSUME NEW o, NEW seen, ReadCharging(p, o, seen)
          PROVE  /\ req'[p].pc \in {"checked", "lock"}
                 /\ \A q \in Req \ {p} : req'[q] = req[q]
      BY <3>2 DEF ReadCharging, Idle, TInv, TypeOK
    <3> QED
      BY <1>3, <3>1, <3>2 DEF AskLogout, Deliver
  <2> QED
    BY <2>1, <2>2, HeldStays DEF Inside, LoginAt, LogoutAt, At
<1>4. CASE World \/ UNCHANGED vars
  <2>1. UNCHANGED <<req, lockKey>>
    BY <1>4 DEF World, Sweep, KeepAlive, KeepAliveLost, OrderLost, Maintain, SelfCheckDone,
                UpdateWaits, DeleteDevice, vars
  <2> QED
    BY <2>1 DEF Held, Inside, At, UserOf
<1>5. ASSUME NEW p \in Req, Deliver(p) PROVE Held'
  <2>1. order \in Token
    BY <1>5 DEF Deliver, TInv, TypeOK
  <2> QED
    BY <1>3, <1>5, <2>1
<1>6. ASSUME NEW p \in Req, Raises(p) PROVE Held'
  BY <1>6, Broken, HeldStays DEF Inside, LoginAt, LogoutAt, At
<1> QED
  BY <1>1, <1>2, <1>3, <1>4, <1>5, <1>6 DEF Next, World

LEMMA LockHeld == Spec => [](TInv /\ Held)
<1>1. Init => Held
  BY IdleTyped, SessionAssumption DEF Init, Held, Inside, At, LoginAt, LogoutAt
<1> QED
  BY <1>1, TInvInit, TInvInductive, HeldInductive, PTL DEF Spec
-----------------------------------------------------------------------------
(* What the handlers ask of the lock *)

LEMMA Abstracted ==
  ASSUME NEW u \in User, NEW p \in Req,
         \A q \in Req \ {p} : LockPhase(q, u)' = LockPhase(q, u),
         LET a == LockPhase(p, u)
             b == LockPhase(p, u)'
             same == (lockKey'[u] = "absent") <=> (lockKey[u] = "absent")
         IN  \/ b = a /\ same
             \/ a = "out" /\ b = "waiting" /\ same
             \/ a = "waiting" /\ b = "inside" /\ lockKey[u] = "absent" /\ lockKey'[u] # "absent"
             \/ a = "waiting" /\ b = "failed" /\ same
             \/ a \in {"inside", "failed"} /\ b = "leaving" /\ same
             \/ a # "out" /\ b = "out" /\ same
             \/ a = "leaving" /\ b = "out" /\ lockKey'[u] = "absent"
  PROVE  [LockOf(u)!Next]_(LockOf(u)!uvars)
<1> DEFINE f == [q \in Req |-> LockPhase(q, u)]
           b == LockPhase(p, u)'
           k == IF lockKey[u] = "absent" THEN "absent" ELSE "present"
<1>1. f' = [f EXCEPT ![p] = b] /\ f[p] = LockPhase(p, u)
  <2>1. f' = [q \in Req |-> LockPhase(q, u)']
    OBVIOUS
  <2> QED
    BY <2>1
<1>2. b = f[p] => f' = f
  BY <1>1
<1> HIDE DEF f
<1>3. CASE b = f[p] /\ k' = k
  BY <1>2, <1>3 DEF LockOf!uvars, f
<1>4. CASE f[p] = "out" /\ b = "waiting" /\ k' = k
  BY <1>1, <1>4 DEF LockOf!Next, LockOf!Ask, f
<1>5. CASE f[p] = "waiting" /\ b = "inside" /\ k = "absent" /\ k' = "present"
  BY <1>1, <1>5 DEF LockOf!Next, LockOf!Enter, f
<1>6. CASE f[p] = "waiting" /\ b = "failed" /\ k' = k
  BY <1>1, <1>6 DEF LockOf!Next, LockOf!Fail, f
<1>7. CASE f[p] \in {"inside", "failed"} /\ b = "leaving" /\ k' = k
  BY <1>1, <1>7 DEF LockOf!Next, LockOf!Leave, f
<1>8. CASE f[p] # "out" /\ b = "out" /\ k' = k
  BY <1>1, <1>8 DEF LockOf!Next, LockOf!Abandon, f
<1>9. CASE f[p] = "leaving" /\ b = "out" /\ k' = "absent"
  BY <1>1, <1>9 DEF LockOf!Next, LockOf!Remove, f
<1> QED
  BY <1>1, <1>3, <1>4, <1>5, <1>6, <1>7, <1>8, <1>9

(* Where a label stands with the lock *)
PhaseAt(l) ==
    IF l \in {"idle", "checked", "end"} THEN "out"
    ELSE IF l = "lock" THEN "waiting"
    ELSE IF l = "failed" THEN "failed"
    ELSE IF l = "leave" THEN "leaving"
    ELSE "inside"

LEMMA Phases ==
  ASSUME NEW p \in Req, NEW u \in User
  PROVE  LockPhase(p, u) = IF UserOf(p) = u THEN PhaseAt(req[p].pc) ELSE "out"
BY DEF LockPhase, PhaseAt

(* A request that only moves on does to the lock what its labels say *)
LEMMA LockFollows ==
  ASSUME TInv, NEW p \in Req, NEW l \in Label, req'[p].pc = l, req'[p].tok = req[p].tok,
         \A q \in Req \ {p} : req'[q] = req[q],
         NEW u \in User,
         LET a == PhaseAt(req[p].pc)
             b == PhaseAt(l)
         IN  IF UserOf(p) = u
             THEN \/ b = a /\ lockKey'[u] = lockKey[u]
                  \/ a = "waiting" /\ b = "inside" /\ lockKey[u] = "absent" /\ lockKey'[u] = p
                  \/ a = "out" /\ b = "waiting" /\ lockKey'[u] = lockKey[u]
                  \/ a = "waiting" /\ b = "failed" /\ lockKey'[u] = lockKey[u]
                  \/ a \in {"inside", "failed"} /\ b = "leaving" /\ lockKey'[u] = lockKey[u]
                  \/ a = "leaving" /\ b = "out" /\ lockKey'[u] \in {"absent", lockKey[u]}
             ELSE lockKey'[u] = lockKey[u]
  PROVE  [LockOf(u)!Next]_(LockOf(u)!uvars)
<1>1. \A q \in Req \ {p} : LockPhase(q, u)' = LockPhase(q, u)
  BY DEF LockPhase, UserOf
<1>2. UserOf(p)' = UserOf(p)
  BY DEF UserOf
<1>3. LockPhase(p, u)' = IF UserOf(p) = u THEN PhaseAt(l) ELSE "out"
  BY <1>2 DEF LockPhase, PhaseAt
<1>4. LockPhase(p, u) = IF UserOf(p) = u THEN PhaseAt(req[p].pc) ELSE "out"
  BY Phases
<1> DEFINE a == LockPhase(p, u)
           b == LockPhase(p, u)'
           same == (lockKey'[u] = "absent") <=> (lockKey[u] = "absent")
<1>5. \/ b = a /\ same
      \/ a = "out" /\ b = "waiting" /\ same
      \/ a = "waiting" /\ b = "inside" /\ lockKey[u] = "absent" /\ lockKey'[u] # "absent"
      \/ a = "waiting" /\ b = "failed" /\ same
      \/ a \in {"inside", "failed"} /\ b = "leaving" /\ same
      \/ a # "out" /\ b = "out" /\ same
      \/ a = "leaving" /\ b = "out" /\ lockKey'[u] = "absent"
  BY <1>3, <1>4, SessionAssumption
<1> QED
  BY <1>1, <1>5, Abstracted

LEMMA StepFollows ==
  ASSUME TInv, NEW p \in Req, Step(p), ~Teardown(p), NEW u \in User
  PROVE  [LockOf(u)!Next]_(LockOf(u)!uvars)
<1>1. req[p].pc # "idle" /\ UserOf(p) \in User
      /\ lockKey \in [User -> {"absent", "left"} \cup Req]
  BY DEF Step, Lock, EnterLock, FailLock, GiveUp, LeaveLock,
         Login, CreateRecord, SetBusy, SetRecordKey, SetUserKey, SetDeviceKeys,
         Logout, Recheck, SetReleased, Settle, DelRecordKey, DelUserKey, DelDeviceKeys,
         At, TInv, TypeOK, Placed, UserOf, Token
<1>2. CASE EnterLock(p)
  <2>1. Body(p) \in Label /\ PhaseAt(Body(p)) = "inside"
    BY DEF Body, Label, PhaseAt
  <2>2. PhaseAt(req[p].pc) = "waiting"
    BY <1>2 DEF EnterLock, At, PhaseAt
  <2> QED
    BY <1>1, <1>2, <2>1, <2>2, Moves, LockFollows DEF EnterLock
<1>3. CASE FailLock(p) \/ GiveUp(p) \/ LeaveLock(p)
  <2>1. PICK l \in Label :
          /\ Goto(p, l)
          /\ \/ PhaseAt(req[p].pc) = "waiting" /\ PhaseAt(l) = "failed"
             \/ PhaseAt(req[p].pc) = "failed" /\ PhaseAt(l) = "leaving"
             \/ PhaseAt(req[p].pc) = "leaving" /\ PhaseAt(l) = "out"
          /\ PhaseAt(req[p].pc) # "leaving" => lockKey' = lockKey
    BY <1>3 DEF FailLock, GiveUp, LeaveLock, At, PhaseAt, Label
  <2>2. /\ lockKey'[u] \in {"absent", lockKey[u]}
        /\ UserOf(p) # u => lockKey'[u] = lockKey[u]
    BY <1>1, <1>3 DEF FailLock, GiveUp, LeaveLock
  <2>3. /\ req'[p].pc = l /\ req'[p].tok = req[p].tok
        /\ \A q \in Req \ {p} : req'[q] = req[q]
    BY <2>1, Moves
  <2> QED
    BY <2>1, <2>2, <2>3, LockFollows
<1>4. CASE CreateRecord(p)
  <2>1. /\ req'[p].pc \in {"end", "lock"} /\ req'[p].tok = req[p].tok /\ req[p].pc = "checked"
        /\ \A q \in Req \ {p} : req'[q] = req[q]
    BY <1>4 DEF CreateRecord, At, TInv, TypeOK, Request
  <2>2. lockKey' = lockKey
    BY <1>4 DEF CreateRecord
  <2> QED
    BY <2>1, <2>2, LockFollows DEF PhaseAt, Label
<1>5. CASE Recheck(p)
  <2>1. /\ req'[p].pc \in {"leave", "bill"} /\ req'[p].tok = req[p].tok /\ req[p].pc = "recheck"
        /\ \A q \in Req \ {p} : req'[q] = req[q]
    BY <1>5 DEF Recheck, At, TInv, TypeOK, Request
  <2>2. lockKey' = lockKey
    BY <1>5 DEF Recheck
  <2> QED
    BY <2>1, <2>2, LockFollows DEF PhaseAt, Label
<1>6. CASE \/ SetBusy(p) \/ SetRecordKey(p) \/ SetUserKey(p) \/ SetDeviceKeys(p)
           \/ SetReleased(p) \/ Settle(p) \/ DelRecordKey(p) \/ DelUserKey(p) \/ DelDeviceKeys(p)
  <2>1. PICK l \in Label : Goto(p, l) /\ PhaseAt(l) \in {"inside", "leaving"}
    BY <1>6 DEF SetBusy, SetRecordKey, SetUserKey, SetDeviceKeys,
                SetReleased, Settle, DelRecordKey, DelUserKey, DelDeviceKeys, PhaseAt, Label
  <2>2. PhaseAt(req[p].pc) = "inside" /\ lockKey' = lockKey
    BY <1>6 DEF SetBusy, SetRecordKey, SetUserKey, SetDeviceKeys,
                SetReleased, Settle, DelRecordKey, DelUserKey, DelDeviceKeys, PhaseAt, At
  <2>3. /\ req'[p].pc = l /\ req'[p].tok = req[p].tok
        /\ \A q \in Req \ {p} : req'[q] = req[q]
    BY <2>1, Moves
  <2> QED
    BY <2>1, <2>2, <2>3, LockFollows
<1> QED
  BY <1>2, <1>3, <1>4, <1>5, <1>6 DEF Step, Lock, Login, Logout

(* A request that begins or is over was out of every lock, or leaves the    *)
(* key to time                                                              *)
LEMMA OutFollows ==
  ASSUME TInv, NEW p \in Req, NEW u \in User,
         \A q \in Req \ {p} : req'[q] = req[q],
         \/ req[p].pc \in {"idle", "end"} /\ req'[p].pc \in {"idle", "checked", "lock"}
         \/ req'[p].pc = "idle",
         lockKey'[u] \in {lockKey[u], "left"}, lockKey'[u] = "left" => lockKey[u] # "absent"
  PROVE  [LockOf(u)!Next]_(LockOf(u)!uvars)
<1>1. \A q \in Req \ {p} : LockPhase(q, u)' = LockPhase(q, u)
  BY DEF LockPhase, UserOf
<1>2. \/ LockPhase(p, u) = "out" /\ LockPhase(p, u)' \in {"out", "waiting"}
      \/ LockPhase(p, u)' = "out"
  BY DEF LockPhase
<1>3. (lockKey'[u] = "absent") <=> (lockKey[u] = "absent")
  OBVIOUS
<1> QED
  BY <1>1, <1>2, <1>3, Abstracted

LEMMA LockNext ==
  ASSUME TInv, [Next]_vars, NEW u \in User
  PROVE  [LockOf(u)!Next]_(LockOf(u)!uvars)
<1>1. ASSUME NEW p \in Req, Step(p) \/ Crash(p) PROVE [LockOf(u)!Next]_(LockOf(u)!uvars)
  <2>1. CASE Step(p) /\ ~Teardown(p)
    BY <2>1, StepFollows
  <2>2. CASE Teardown(p) \/ Crash(p)
    <3>1. req'[p].pc = "idle" /\ \A q \in Req \ {p} : req'[q] = req[q]
      BY <2>2, IdleTyped, Turns DEF Teardown, Crash
    <3>2. /\ lockKey'[u] \in {lockKey[u], "left"}
          /\ lockKey'[u] = "left" => lockKey[u] # "absent"
      BY <2>2, SessionAssumption DEF Teardown, Crash
    <3> QED
      BY <3>1, <3>2, OutFollows
  <2> QED
    BY <1>1, <2>1, <2>2
<1>2. ASSUME NEW p \in Req, NEW t, CheckLogin(p, t[1], t[2]) \/ AskLogout(p, t) \/ Deliver(p)
      PROVE  [LockOf(u)!Next]_(LockOf(u)!uvars)
  <2>1. req[p].pc = "idle" /\ lockKey' = lockKey
    BY <1>2 DEF CheckLogin, AskLogout, Deliver, ReadCharging, At
  <2>2. /\ req'[p].pc \in {"checked", "lock"}
        /\ \A q \in Req \ {p} : req'[q] = req[q]
    <3>1. CASE CheckLogin(p, t[1], t[2])
      BY <3>1 DEF CheckLogin, Idle, TInv, TypeOK
    <3>2. ASSUME NEW o, NEW seen, ReadCharging(p, o, seen)
          PROVE  /\ req'[p].pc \in {"checked", "lock"}
                 /\ \A q \in Req \ {p} : req'[q] = req[q]
      BY <3>2 DEF ReadCharging, Idle, TInv, TypeOK
    <3> QED
      BY <1>2, <3>1, <3>2 DEF AskLogout, Deliver
  <2>3. lockKey[u] # "left" \/ lockKey[u] # "absent"
    OBVIOUS
  <2> QED
    BY <2>1, <2>2, <2>3, OutFollows
<1>4. ASSUME NEW p \in Req, Raises(p) PROVE [LockOf(u)!Next]_(LockOf(u)!uvars)
  <2>1. PhaseAt(req[p].pc) = "inside" /\ PhaseAt("leave") = "leaving" /\ "leave" \in Label
    BY <1>4, Broken DEF PhaseAt, Label
  <2> QED
    BY <1>4, <2>1, Broken, LockFollows
<1>3. CASE World \/ UNCHANGED vars
  <2>1. UNCHANGED <<req, lockKey>>
    BY <1>3 DEF World, Sweep, KeepAlive, KeepAliveLost, OrderLost, Maintain, SelfCheckDone,
                UpdateWaits, DeleteDevice, vars
  <2> DEFINE f == [q \in Req |-> LockPhase(q, u)]
             k == IF lockKey[u] = "absent" THEN "absent" ELSE "present"
  <2>2. f' = f /\ k' = k
    BY <2>1 DEF LockPhase, UserOf
  <2> QED
    BY <2>2 DEF LockOf!uvars
<1> QED
  BY <1>1, <1>2, <1>3, <1>4 DEF Next, World

(* Whatever the requests, the deaths and the rest of the world do, what     *)
(* do_online and do_offline ask of a player's lock is what UserLock         *)
(* promises: they never enter it but through acquire(), and never call      *)
(* release() twice.                                                         *)
THEOREM SessionsUseUserLock == Spec => UsesUserLock
<1>1. Init => \A u \in User : LockOf(u)!Init
  <2> SUFFICES ASSUME Init, NEW u \in User PROVE LockOf(u)!Init
    OBVIOUS
  <2>1. \A p \in Req : LockPhase(p, u) = "out"
    BY IdleTyped DEF Init, LockPhase
  <2> QED
    BY <2>1 DEF Init, LockOf!Init
<1>2. TInv /\ [Next]_vars => \A u \in User : [LockOf(u)!Next]_(LockOf(u)!uvars)
  BY LockNext
<1> QED
  BY <1>1, <1>2, Typed, PTL DEF Spec, UsesUserLock
-----------------------------------------------------------------------------
(* The keys *)

KeysAt == {"setUser", "setDevice", "delUser", "delDevice"}

(* Who set the record key of a token goes on inside the lock; a token in a *)
(* key of the user or of the device leads to a record, or to the logout    *)
(* that is about to delete the key                                         *)
RecordSet == \A p \in Req : req[p].pc \in {"setUser", "setDevice"} => Session(req[p].tok)

Resolved ==
    /\ \A u \in User : userKey[u] # NoToken =>
          /\ userKey[u][1] = u
          /\ \/ Session(userKey[u])
             \/ \E p \in Req : At(p, "delUser") /\ req[p].tok = userKey[u]
    /\ \A d \in Device : deviceKey[d] # NoToken =>
          /\ deviceKey[d][2] = d
          /\ \/ Session(deviceKey[d])
             \/ \E p \in Req : req[p].pc \in {"delUser", "delDevice"} /\ req[p].tok = deviceKey[d]

LEMMA KeysStay ==
  ASSUME RecordSet, Resolved, UNCHANGED <<recordKey, userKey, deviceKey>>,
         NEW p \in Req, \A q \in Req \ {p} : req'[q] = req[q],
         req[p].pc \notin KeysAt, req'[p].pc \notin KeysAt
  PROVE  RecordSet' /\ Resolved'
<1>1. RecordSet'
  BY DEF RecordSet, Session, KeysAt
<1>2. \A q \in Req : req[q].pc \in KeysAt => req'[q] = req[q]
  OBVIOUS
<1>3. \A t : Session(t)' = Session(t)
  BY DEF Session
<1>4. ASSUME NEW u \in User, userKey'[u] # NoToken
      PROVE  /\ userKey'[u][1] = u
             /\ \/ Session(userKey[u])'
                \/ \E q \in Req : At(q, "delUser")' /\ req'[q].tok = userKey'[u]
  BY <1>2, <1>3, <1>4 DEF Resolved, KeysAt, At
<1>5. ASSUME NEW d \in Device, deviceKey'[d] # NoToken
      PROVE  /\ deviceKey'[d][2] = d
             /\ \/ Session(deviceKey[d])'
                \/ \E q \in Req : req'[q].pc \in {"delUser", "delDevice"}
                                  /\ req'[q].tok = deviceKey'[d]
  BY <1>2, <1>3, <1>5 DEF Resolved, KeysAt
<1> QED
  BY <1>1, <1>4, <1>5 DEF Resolved

(* The record key is set and deleted by who is alone with the player *)
LEMMA RecordSetKept ==
  ASSUME TInv, Held, RecordSet, NEW p \in Req,
         \/ SetRecordKey(p) \/ SetUserKey(p) \/ SetDeviceKeys(p)
         \/ DelRecordKey(p) \/ DelUserKey(p) \/ DelDeviceKeys(p)
  PROVE  RecordSet'
<1>1. PICK l \in Label :
         /\ Goto(p, l)
         /\ l \in {"setUser", "setDevice"} => SetRecordKey(p) \/ SetUserKey(p)
  BY DEF SetRecordKey, SetUserKey, SetDeviceKeys, DelRecordKey, DelUserKey, DelDeviceKeys, Label
<1>2. /\ req'[p].pc = l /\ req'[p].tok = req[p].tok
      /\ \A q \in Req \ {p} : req'[q] = req[q]
  BY <1>1, Moves
<1>3. Inside(p) /\ req[p].tok \in Token /\ req[p].rec # 0
  BY DEF SetRecordKey, SetUserKey, SetDeviceKeys, DelRecordKey, DelUserKey, DelDeviceKeys, At,
         Inside, LoginAt, LogoutAt, TInv, Placed, RecordOf
<1>4. recordKey \in [Token -> 0..MaxRecord]
  BY DEF TInv, TypeOK
<1>5. ASSUME NEW q \in Req, req'[q].pc \in {"setUser", "setDevice"}
      PROVE  Session(req[q].tok)'
  <2>1. CASE q = p
    BY <1>1, <1>2, <1>3, <1>4, <1>5, <2>1
       DEF SetRecordKey, SetUserKey, At, RecordSet, Session
  <2>2. CASE q # p
    <3>1. Session(req[q].tok) /\ req[q].tok \in Token /\ Inside(q)
      BY <1>2, <1>5, <2>2 DEF RecordSet, TInv, Placed, Inside, LoginAt
    <3>2. UserOf(q) # UserOf(p)
      BY <1>3, <2>2, <3>1, Alone
    <3>3. recordKey'[req[q].tok] = recordKey[req[q].tok]
      BY <1>4, <3>1, <3>2
         DEF UserOf, SetRecordKey, SetUserKey, SetDeviceKeys, DelRecordKey, DelUserKey,
             DelDeviceKeys
    <3> QED
      BY <1>2, <2>2, <3>1, <3>3 DEF Session
  <2> QED
    BY <2>1, <2>2
<1> QED
  BY <1>5 DEF RecordSet

LEMMA ResolvedKept ==
  ASSUME TInv, Held, RecordSet, Resolved, NEW p \in Req,
         \/ SetRecordKey(p) \/ SetUserKey(p) \/ SetDeviceKeys(p)
         \/ DelRecordKey(p) \/ DelUserKey(p) \/ DelDeviceKeys(p)
  PROVE  Resolved'
<1> DEFINE t == req[p].tok
           KeyOfUser(u) ==
             userKey'[u] # NoToken =>
               /\ userKey'[u][1] = u
               /\ \/ recordKey'[userKey'[u]] # 0
                  \/ \E q \in Req : req'[q].pc = "delUser" /\ req'[q].tok = userKey'[u]
           KeyOfDevice(d) ==
             deviceKey'[d] # NoToken =>
               /\ deviceKey'[d][2] = d
               /\ \/ recordKey'[deviceKey'[d]] # 0
                  \/ \E q \in Req : /\ req'[q].pc \in {"delUser", "delDevice"}
                                    /\ req'[q].tok = deviceKey'[d]
<1>1. SUFFICES (\A u \in User : KeyOfUser(u)) /\ (\A d \in Device : KeyOfDevice(d))
  BY DEF Resolved, Session, At
<1>2. /\ t \in Token /\ t[1] = UserOf(p) /\ t[2] = DeviceOf(p) /\ t # NoToken
      /\ UserOf(p) \in User /\ DeviceOf(p) \in Device /\ req[p].rec # 0
  BY SessionAssumption
     DEF SetRecordKey, SetUserKey, SetDeviceKeys, DelRecordKey, DelUserKey, DelDeviceKeys, At,
         TInv, Placed, RecordOf, UserOf, DeviceOf, Token
<1>3. PICK l \in Label : Goto(p, l) /\ (DelRecordKey(p) => l = "delUser")
                                   /\ (DelUserKey(p) => l = "delDevice")
  BY DEF SetRecordKey, SetUserKey, SetDeviceKeys, DelRecordKey, DelUserKey, DelDeviceKeys,
         Label, At
<1>4. /\ req'[p].pc = l /\ req'[p].tok = t
      /\ \A q \in Req \ {p} : req'[q] = req[q]
  BY <1>3, Moves
<1>5. /\ recordKey \in [Token -> 0..MaxRecord]
      /\ userKey \in [User -> Token \cup {NoToken}]
      /\ deviceKey \in [Device -> Token \cup {NoToken}]
  BY DEF TInv, TypeOK
<1>6. ASSUME NEW u \in User PROVE KeyOfUser(u)
  <2>1. /\ userKey[u] # NoToken => userKey[u][1] = u
        /\ userKey[u] # NoToken /\ recordKey[userKey[u]] = 0
              => \E q \in Req : req[q].pc = "delUser" /\ req[q].tok = userKey[u]
    BY DEF Resolved, Session, At
  <2>2. CASE SetUserKey(p)
    <3>1. recordKey[t] # 0
      BY <2>2 DEF SetUserKey, At, RecordSet, Session
    <3>2. req[p].pc = "setUser"
      BY <2>2 DEF SetUserKey, At
    <3> QED
      BY <1>2, <1>4, <1>5, <2>1, <2>2, <3>1, <3>2 DEF SetUserKey
  <2>3. CASE DelUserKey(p)
    BY <1>2, <1>4, <1>5, <2>1, <2>3 DEF DelUserKey
  <2>4. CASE DelRecordKey(p)
    <3>1. l = "delUser" /\ req[p].pc = "delRecord"
      BY <1>3, <2>4 DEF DelRecordKey, At
    <3> QED
      BY <1>2, <1>4, <1>5, <2>1, <2>4, <3>1 DEF DelRecordKey
  <2>5. CASE SetRecordKey(p) \/ SetDeviceKeys(p) \/ DelDeviceKeys(p)
    <3>1. /\ userKey' = userKey /\ req[p].pc # "delUser"
          /\ \A o \in Token : recordKey[o] # 0 => recordKey'[o] # 0
      BY <1>2, <1>5, <2>5 DEF SetRecordKey, SetDeviceKeys, DelDeviceKeys, At
    <3> QED
      BY <1>4, <1>5, <2>1, <3>1
  <2> QED
    BY <2>2, <2>3, <2>4, <2>5
<1>7. ASSUME NEW d \in Device PROVE KeyOfDevice(d)
  <2>1. /\ deviceKey[d] # NoToken => deviceKey[d][2] = d
        /\ deviceKey[d] # NoToken /\ recordKey[deviceKey[d]] = 0
              => \E q \in Req : req[q].pc \in {"delUser", "delDevice"} /\ req[q].tok = deviceKey[d]
    BY DEF Resolved, Session
  <2>2. CASE SetDeviceKeys(p)
    <3>1. recordKey[t] # 0
      BY <2>2 DEF SetDeviceKeys, At, RecordSet, Session
    <3>2. req[p].pc = "setDevice"
      BY <2>2 DEF SetDeviceKeys, At
    <3> QED
      BY <1>2, <1>4, <1>5, <2>1, <2>2, <3>1, <3>2 DEF SetDeviceKeys
  <2>3. CASE DelDeviceKeys(p)
    BY <1>2, <1>4, <1>5, <2>1, <2>3 DEF DelDeviceKeys
  <2>4. CASE DelRecordKey(p) \/ DelUserKey(p)
    <3>1. /\ l \in {"delUser", "delDevice"} /\ deviceKey' = deviceKey
          /\ \A o \in Token : o # t /\ recordKey[o] # 0 => recordKey'[o] # 0
      BY <1>2, <1>3, <1>5, <2>4 DEF DelRecordKey, DelUserKey
    <3> QED
      BY <1>2, <1>4, <1>5, <2>1, <3>1
  <2>5. CASE SetRecordKey(p) \/ SetUserKey(p)
    <3>1. /\ deviceKey' = deviceKey /\ req[p].pc \notin {"delUser", "delDevice"}
          /\ \A o \in Token : recordKey[o] # 0 => recordKey'[o] # 0
      BY <1>2, <1>5, <2>5 DEF SetRecordKey, SetUserKey, At
    <3> QED
      BY <1>4, <1>5, <2>1, <3>1
  <2> QED
    BY <2>2, <2>3, <2>4, <2>5
<1> QED
  BY <1>6, <1>7

(* A worker that dies may leave the keys as they are half way *)
KInv == RecordSet /\ (crashes = 0 => Resolved)

(* The steps of the other kinds: none of them is at a key, or comes there *)
LEMMA OffTheKeys ==
  ASSUME TInv, NEW p \in Req,
         \/ /\ Step(p)
            /\ ~SetRecordKey(p) /\ ~SetUserKey(p) /\ ~SetDeviceKeys(p)
            /\ ~DelRecordKey(p) /\ ~DelUserKey(p) /\ ~DelDeviceKeys(p)
         \/ \E t \in Token : CheckLogin(p, t[1], t[2]) \/ AskLogout(p, t)
         \/ Deliver(p)
  PROVE  /\ UNCHANGED <<recordKey, userKey, deviceKey, crashes>>
         /\ \A q \in Req \ {p} : req'[q] = req[q]
         /\ req[p].pc \notin KeysAt /\ req'[p].pc \notin KeysAt
<1>1. ASSUME NEW l \in Label \ KeysAt, Goto(p, l)
      PROVE  /\ \A q \in Req \ {p} : req'[q] = req[q]
             /\ req'[p].pc \notin KeysAt
  BY <1>1, Moves
<1>2. CASE \/ Lock(p) \/ SetBusy(p) \/ SetReleased(p) \/ Settle(p)
  <2>1. \E l \in Label \ KeysAt : Goto(p, l)
    <3>1. Body(p) \in Label \ KeysAt
      BY DEF Body, Label, KeysAt
    <3> QED
      BY <1>2, <3>1 DEF Lock, EnterLock, FailLock, GiveUp, LeaveLock, SetBusy, SetReleased,
                        Settle, Label, KeysAt
  <2>2. /\ UNCHANGED <<recordKey, userKey, deviceKey, crashes>>
        /\ req[p].pc \notin KeysAt
    BY <1>2 DEF Lock, EnterLock, FailLock, GiveUp, LeaveLock, SetBusy, SetReleased, Settle,
                At, KeysAt, keyVars, countVars
  <2> QED
    BY <1>1, <2>1, <2>2
<1>3. CASE CreateRecord(p) \/ Recheck(p)
  BY <1>3 DEF CreateRecord, Recheck, At, KeysAt, keyVars, countVars, TInv, TypeOK, Request
<1>4. CASE Teardown(p)
  BY <1>4, IdleTyped, Turns DEF Teardown, At, KeysAt, keyVars, countVars
<1>5. ASSUME NEW t, CheckLogin(p, t[1], t[2])
      PROVE  /\ UNCHANGED <<recordKey, userKey, deviceKey, crashes>>
             /\ \A q \in Req \ {p} : req'[q] = req[q]
             /\ req[p].pc \notin KeysAt /\ req'[p].pc \notin KeysAt
  BY <1>5 DEF CheckLogin, Idle, At, KeysAt, keyVars, countVars, TInv, TypeOK
<1>6. ASSUME NEW t, NEW seen, ReadCharging(p, t, seen)
      PROVE  /\ \A q \in Req \ {p} : req'[q] = req[q]
             /\ req[p].pc \notin KeysAt /\ req'[p].pc \notin KeysAt
  BY <1>6 DEF ReadCharging, Idle, At, KeysAt, TInv, TypeOK
<1>7. ASSUME NEW t, AskLogout(p, t) \/ Deliver(p)
      PROVE  /\ UNCHANGED <<recordKey, userKey, deviceKey, crashes>>
             /\ \A q \in Req \ {p} : req'[q] = req[q]
             /\ req[p].pc \notin KeysAt /\ req'[p].pc \notin KeysAt
  <2>1. UNCHANGED <<recordKey, userKey, deviceKey, crashes>>
    BY <1>7 DEF AskLogout, Deliver, keyVars, countVars
  <2> QED
    BY <1>6, <1>7, <2>1 DEF AskLogout, Deliver
<1> QED
  BY <1>2, <1>3, <1>4, <1>5, <1>7 DEF Step, Login, Logout

LEMMA KInvInductive == TInv /\ Held /\ KInv /\ [Next]_vars => KInv'
<1> SUFFICES ASSUME TInv, Held, KInv, [Next]_vars PROVE KInv'
  OBVIOUS
<1> DEFINE AtKeys(p) == \/ SetRecordKey(p) \/ SetUserKey(p) \/ SetDeviceKeys(p)
                        \/ DelRecordKey(p) \/ DelUserKey(p) \/ DelDeviceKeys(p)
           Begins(p) == \/ \E t \in Token : CheckLogin(p, t[1], t[2]) \/ AskLogout(p, t)
                        \/ Deliver(p)
<1>1. ASSUME NEW p \in Req, AtKeys(p) PROVE KInv'
  <2>1. crashes' = crashes
    BY <1>1 DEF SetRecordKey, SetUserKey, SetDeviceKeys, DelRecordKey, DelUserKey,
                DelDeviceKeys, countVars
  <2>2. RecordSet /\ RecordSet'
    BY <1>1, RecordSetKept DEF KInv
  <2> QED
    BY <1>1, <2>1, <2>2, ResolvedKept DEF KInv
<1>2. ASSUME NEW p \in Req, (Step(p) /\ ~AtKeys(p)) \/ Begins(p) PROVE KInv'
  <2>1. /\ UNCHANGED <<recordKey, userKey, deviceKey, crashes>>
        /\ \A q \in Req \ {p} : req'[q] = req[q]
        /\ req[p].pc \notin KeysAt /\ req'[p].pc \notin KeysAt
    BY <1>2, OffTheKeys
  <2>2. RecordSet'
    BY <2>1 DEF KInv, RecordSet, Session, KeysAt
  <2> QED
    BY <2>1, <2>2, KeysStay DEF KInv
<1>3. ASSUME NEW p \in Req, Crash(p) PROVE KInv'
  <2>1. crashes' # 0
    BY <1>3 DEF Crash, TInv, TypeOK
  <2>2. /\ req'[p].pc = "idle" /\ recordKey' = recordKey
        /\ \A q \in Req \ {p} : req'[q] = req[q]
    BY <1>3, IdleTyped, Turns DEF Crash, keyVars
  <2> QED
    BY <2>1, <2>2 DEF KInv, RecordSet, Session
<1>4. CASE World \/ UNCHANGED vars
  <2>1. UNCHANGED <<req, recordKey, userKey, deviceKey, crashes>>
    BY <1>4 DEF World, Sweep, KeepAlive, KeepAliveLost, OrderLost, Maintain, SelfCheckDone,
                UpdateWaits, DeleteDevice, vars, keyVars, countVars
  <2> QED
    BY <2>1 DEF KInv, RecordSet, Resolved, Session, At
<1>5. ASSUME NEW p \in Req, Raises(p) PROVE KInv'
  <2>1. RecordSet'
    BY <1>5, Broken DEF KInv, RecordSet, Session
  <2>2. CASE crashes' = crashes
    <3>1. req[p].pc \notin {"delUser", "delDevice"}
      <4>1. crashes \in Nat
        BY SessionAssumption DEF TInv, TypeOK
      <4> QED
        BY <1>5, <2>2, <4>1, Broken
    <3>2. Resolved => Resolved'
      BY <1>5, <3>1, Broken DEF Resolved, Session, At
    <3> QED
      BY <2>1, <2>2, <3>2 DEF KInv
  <2>3. CASE crashes' # crashes
    <3>1. crashes' # 0
      BY <1>5, <2>3, Broken, SessionAssumption DEF TInv, TypeOK
    <3> QED
      BY <2>1, <3>1 DEF KInv
  <2> QED
    BY <2>2, <2>3
<1> HIDE DEF AtKeys, Begins
<1>6. [Next]_vars => \/ \E p \in Req : Step(p) \/ Begins(p) \/ Raises(p) \/ Crash(p)
                     \/ World \/ UNCHANGED vars
  BY DEF Next, World, Begins
<1> QED
  BY <1>1, <1>2, <1>3, <1>4, <1>5, <1>6

(* Until a worker dies or redis breaks a logout off, each token stored for *)
(* a user or for a device leads to a session that can be ended, as long as *)
(* nobody is inside the lock of the user: whatever logins and logouts      *)
(* overlap, fail, come late or lose some of their keys, for any number of  *)
(* users, devices and requests.                                            *)
THEOREM TokensResolve == Spec => [](crashes = 0 => TokenResolves)
<1>1. Init => KInv
  BY IdleTyped DEF Init, KInv, RecordSet, Resolved
<1>2. TInv /\ Held /\ KInv => (crashes = 0 => TokenResolves)
  <2> SUFFICES ASSUME TInv, Held, Resolved, NEW u \in User, lockKey[u] = "absent"
               PROVE  /\ userKey[u] # NoToken => Session(userKey[u])
                      /\ \A d \in Device : deviceKey[d] = <<u, d>> => Session(<<u, d>>)
    BY DEF KInv, TokenResolves
  <2>1. \A p \in Req : Inside(p) => UserOf(p) # u
    BY SessionAssumption DEF Held
  <2>2. userKey[u] # NoToken => Session(userKey[u])
    <3>1. ASSUME userKey[u] # NoToken, NEW p \in Req, At(p, "delUser"), req[p].tok = userKey[u]
          PROVE  FALSE
      BY <2>1, <3>1 DEF Resolved, Inside, LogoutAt, LoginAt, At, UserOf
    <3> QED
      BY <3>1 DEF Resolved
  <2>3. ASSUME NEW d \in Device, deviceKey[d] = <<u, d>> PROVE Session(<<u, d>>)
    <3>1. deviceKey[d] # NoToken
      BY <2>3, SessionAssumption
    <3>2. ASSUME NEW p \in Req, req[p].pc \in {"delUser", "delDevice"}, req[p].tok = <<u, d>>
          PROVE  FALSE
      BY <2>1, <3>2 DEF Inside, LogoutAt, LoginAt, UserOf
    <3> QED
      BY <2>3, <3>1, <3>2 DEF Resolved
  <2> QED
    BY <2>2, <2>3
<1> QED
  BY <1>1, <1>2, LockHeld, KInvInductive, PTL DEF Spec
-----------------------------------------------------------------------------
(* The row and the keys *)

(* Where the row may be written and not yet committed *)
HolderAt == {"setRecord", "setUser", "setDevice", "settle", "leave", "end"}

Busy(r) == r.state = "busy"

(* A logout has committed the row and is about to delete the record key of t *)
Closing(t) == \E q \in Req : At(q, "delRecord") /\ req[q].tok = t

Open(t) == Session(t) /\ ~Closing(t)

(* Who holds the row of a device serves it *)
Serves == \A p \in Req, d \in Device :
    dirty[d].by = p => DeviceOf(p) = d /\ req[p].pc \in HolderAt

(* The record key is about to be set with the row busy, a bill is made with *)
(* the row released, and both hold it                                      *)
Releasing == \A p \in Req :
    /\ req[p].pc \in {"setRecord", "settle"} => dirty[DeviceOf(p)].by = p
    /\ At(p, "settle") => ~Busy(dirty[DeviceOf(p)].row)

(* Who has made the row busy has set the record key, or does so next, or   *)
(* was broken off before                                                   *)
Taking == \A p \in Req, d \in Device :
    dirty[d].by = p /\ Busy(dirty[d].row) /\ d \notin unopened
        => Busy(row[d]) \/ At(p, "setRecord") \/ Open(req[p].tok)

Taken == \A d \in Device \ unopened : Busy(row[d]) => \E u \in User : Open(<<u, d>>)

BInv == Serves /\ Releasing /\ Taking /\ Taken

(* A step that touches neither the row nor a record key *)
LEMMA BusyStays ==
  ASSUME TInv, BInv, NEW p \in Req, UNCHANGED <<row, dirty, recordKey>>,
         \A q \in Req \ {p} : req'[q] = req[q],
         unopened \subseteq unopened', At(p, "setRecord") => DeviceOf(p) \in unopened',
         req'[p].pc \notin {"setRecord", "settle", "delRecord"},
         req[p].pc \in HolderAt => req'[p].pc \in HolderAt /\ req'[p].tok = req[p].tok
  PROVE  BInv'
<1>1. \A t : Open(t) => Open(t)'
  BY DEF Open, Session, Closing, At
<1>2. Serves'
  BY DEF BInv, Serves, DeviceOf
<1>3. Releasing'
  BY DEF BInv, Releasing, DeviceOf, At
<1>4. Taking'
  <2> SUFFICES ASSUME NEW q \in Req, NEW d \in Device, dirty[d].by = q, Busy(dirty[d].row),
                      ~Busy(row[d]), d \notin unopened'
               PROVE  At(q, "setRecord")' \/ Open(req[q].tok)'
    BY DEF Taking
  <2>1. At(q, "setRecord") \/ Open(req[q].tok)
    BY DEF BInv, Taking
  <2>2. req'[q].tok = req[q].tok /\ (At(q, "setRecord") => At(q, "setRecord")')
    BY DEF BInv, Serves, At
  <2> QED
    BY <1>1, <2>1, <2>2
<1>5. Taken'
  BY <1>1 DEF BInv, Taken
<1> QED
  BY <1>2, <1>3, <1>4, <1>5 DEF BInv

LEMMA SetRecordBusy ==
  ASSUME TInv, Held, BInv, NEW p \in Req, SetRecordKey(p)
  PROVE  BInv'
<1>1. /\ req'[p].pc = "setUser" /\ req'[p].tok = req[p].tok
      /\ \A q \in Req \ {p} : req'[q] = req[q]
  BY Moves DEF SetRecordKey, Label
<1>2. /\ req[p].pc = "setRecord" /\ req[p].tok \in Token /\ req[p].rec # 0 /\ Inside(p)
  BY DEF SetRecordKey, At, TInv, Placed, RecordOf, Inside, LoginAt
<1>3. UNCHANGED <<row, dirty>> /\ recordKey' = [recordKey EXCEPT ![req[p].tok] = req[p].rec]
      /\ recordKey \in [Token -> 0..MaxRecord] /\ unopened' = unopened \ {DeviceOf(p)}
  BY DEF SetRecordKey, rowVars, TInv, TypeOK
<1>4. \A t : Closing(t)' => Closing(t)
  BY <1>1 DEF Closing, At
<1>5. \A t \in Token : Session(t) => Session(t)'
  BY <1>2, <1>3 DEF Session
<1>6. Open(req[p].tok)'
  <2>1. ASSUME NEW q \in Req, At(q, "delRecord"), req[q].tok = req[p].tok PROVE FALSE
    BY <1>2, <2>1, Alone DEF Inside, LogoutAt, LoginAt, At, UserOf
  <2>2. ~Closing(req[p].tok)'
    BY <1>1, <2>1 DEF Closing, At
  <2>3. Session(req[p].tok)'
    BY <1>1, <1>2, <1>3 DEF Session
  <2> QED
    BY <2>2, <2>3 DEF Open
<1>7. \A t \in Token : Open(t) => Open(t)'
  BY <1>4, <1>5 DEF Open
<1>8. Serves' /\ Releasing'
  BY <1>1, <1>2, <1>3 DEF BInv, Serves, Releasing, DeviceOf, At, HolderAt
<1>9. Taking'
  <2> SUFFICES ASSUME NEW q \in Req, NEW d \in Device, dirty[d].by = q, Busy(dirty[d].row),
                      ~Busy(row[d]), d \notin unopened'
               PROVE  At(q, "setRecord")' \/ Open(req[q].tok)'
    BY <1>3 DEF Taking
  <2>1. CASE q = p
    BY <1>6, <2>1
  <2>2. CASE q # p
    <3>1. req[q].tok \in Token
      BY DEF BInv, Serves, HolderAt, TInv, Placed
    <3>2. dirty[DeviceOf(p)].by = p
      BY <1>2 DEF BInv, Releasing
    <3>3. d \notin unopened
      BY <1>3, <2>2, <3>2
    <3> QED
      BY <1>1, <1>7, <2>2, <3>1, <3>3 DEF BInv, Taking, At
  <2> QED
    BY <2>1, <2>2
<1>10. Taken'
  <2> SUFFICES ASSUME NEW d \in Device \ unopened', Busy(row[d])
               PROVE  \E u \in User : Open(<<u, d>>)'
    BY <1>3 DEF Taken
  <2>1. CASE d = DeviceOf(p)
    BY <1>2, <1>6, <1>1, <2>1 DEF DeviceOf, Token
  <2>2. CASE d # DeviceOf(p)
    BY <1>3, <1>7, <2>2 DEF BInv, Taken, Token
  <2> QED
    BY <2>1, <2>2
<1> QED
  BY <1>8, <1>9, <1>10 DEF BInv

LEMMA DelRecordBusy ==
  ASSUME TInv, Held, BInv, NEW p \in Req, DelRecordKey(p)
  PROVE  BInv'
<1>1. /\ req'[p].pc = "delUser" /\ req'[p].tok = req[p].tok
      /\ \A q \in Req \ {p} : req'[q] = req[q]
  BY Moves DEF DelRecordKey, Label
<1>2. req[p].pc = "delRecord" /\ req[p].tok \in Token /\ Closing(req[p].tok)
  BY DEF DelRecordKey, At, TInv, Placed, Closing
<1>3. UNCHANGED <<row, dirty>> /\ recordKey' = [recordKey EXCEPT ![req[p].tok] = 0]
      /\ recordKey \in [Token -> 0..MaxRecord] /\ unopened' = unopened
  BY DEF DelRecordKey, rowVars, countVars, TInv, TypeOK
<1>4. \A t \in Token : Open(t) => Open(t)'
  <2> SUFFICES ASSUME NEW t \in Token, Open(t) PROVE Open(t)'
    OBVIOUS
  <2>1. t # req[p].tok
    BY <1>2 DEF Open
  <2>2. Session(t)'
    BY <1>2, <1>3, <2>1 DEF Open, Session
  <2>3. ~Closing(t)'
    BY <1>1 DEF Open, Closing, At
  <2> QED
    BY <2>2, <2>3 DEF Open
<1>5. Serves' /\ Releasing'
  BY <1>1, <1>2, <1>3 DEF BInv, Serves, Releasing, DeviceOf, At, HolderAt
<1>6. Taking'
  <2> SUFFICES ASSUME NEW q \in Req, NEW d \in Device, dirty[d].by = q, Busy(dirty[d].row),
                      ~Busy(row[d]), d \notin unopened
               PROVE  At(q, "setRecord")' \/ Open(req[q].tok)'
    BY <1>3 DEF Taking
  <2>1. q # p /\ req[q].tok \in Token
    BY <1>2 DEF BInv, Serves, HolderAt, TInv, Placed
  <2> QED
    BY <1>1, <1>4, <2>1 DEF BInv, Taking, At
<1>7. Taken'
  BY <1>3, <1>4 DEF BInv, Taken, Token
<1> QED
  BY <1>5, <1>6, <1>7 DEF BInv

(* A write of the row that p now holds, short of a commit *)
LEMMA PutBusy ==
  ASSUME TInv, BInv, NEW p \in Req, NEW l \in Label, NEW x,
         req[p].tok \in Token,
         CanWrite(p, DeviceOf(p)), Put(p, DeviceOf(p), x), row' = row, recordKey' = recordKey,
         Goto(p, l), req[p].pc \notin HolderAt, unopened' = unopened,
         \/ l = "settle" /\ ~Busy(x)
         \/ l = "setRecord"
         \/ l = "leave" /\ (Busy(x) => Busy(row[DeviceOf(p)]))
  PROVE  BInv'
<1>1. /\ req'[p].pc = l /\ req'[p].tok = req[p].tok
      /\ \A q \in Req \ {p} : req'[q] = req[q]
  BY Moves
<1> DEFINE d == DeviceOf(p)
<1>2. d \in Device /\ dirty[d].by = NoReq
  BY DEF DeviceOf, Token, CanWrite, BInv, Serves
<1>3. /\ dirty'[d].by = p /\ dirty'[d].row = x
      /\ \A e \in Device \ {d} : dirty'[e] = dirty[e]
  BY <1>2 DEF Put, TInv, TypeOK, RowTypeOK
<1>4. \A q \in Req : DeviceOf(q)' = DeviceOf(q)
  BY <1>1 DEF DeviceOf
<1>5. \A t : Open(t) => Open(t)'
  BY <1>1 DEF Open, Session, Closing, At
<1>6. Serves'
  BY <1>1, <1>2, <1>3, <1>4, ReqAssumption DEF BInv, Serves, HolderAt
<1>7. Releasing'
  <2> SUFFICES ASSUME NEW q \in Req, req'[q].pc \in {"setRecord", "settle"}
               PROVE  /\ dirty'[DeviceOf(q)].by = q
                      /\ At(q, "settle")' => ~Busy(dirty'[DeviceOf(q)].row)
    BY <1>4 DEF Releasing, At
  <2>1. CASE q = p
    BY <1>1, <1>3, <2>1 DEF At
  <2>2. CASE q # p
    <3>1. /\ dirty[DeviceOf(q)].by = q
          /\ At(q, "settle")' => ~Busy(dirty[DeviceOf(q)].row)
      BY <1>1, <2>2 DEF BInv, Releasing, At
    <3>2. DeviceOf(q) \in Device
      BY <1>1, <2>2 DEF At, TInv, Placed, DeviceOf, Token
    <3>3. DeviceOf(q) # d
      BY <1>2, <3>1, ReqAssumption
    <3> QED
      BY <1>3, <3>1, <3>2, <3>3
  <2> QED
    BY <2>1, <2>2
<1>8. Taking'
  <2> SUFFICES ASSUME NEW q \in Req, NEW e \in Device, dirty'[e].by = q, Busy(dirty'[e].row),
                      ~Busy(row[e]), e \notin unopened
               PROVE  At(q, "setRecord")' \/ Open(req[q].tok)'
    BY DEF Taking
  <2>1. CASE e = d
    BY <1>1, <1>3, <2>1 DEF At
  <2>2. CASE e # d
    <3>1. q # p
      BY <1>3, <2>2 DEF BInv, Serves
    <3>2. At(q, "setRecord") \/ Open(req[q].tok)
      BY <1>3, <2>2 DEF BInv, Taking
    <3> QED
      BY <1>1, <1>5, <3>1, <3>2 DEF At
  <2> QED
    BY <2>1, <2>2
<1>9. Taken'
  BY <1>5 DEF BInv, Taken
<1> QED
  BY <1>6, <1>7, <1>8, <1>9 DEF BInv

LEMMA SetBusyKeeps ==
  ASSUME TInv, BInv, NEW p \in Req, SetBusy(p)
  PROVE  BInv'
<1> DEFINE d == DeviceOf(p)
<1>1. /\ req[p].pc = "state" /\ req[p].tok \in Token /\ recordKey' = recordKey /\ row' = row
      /\ unopened' = unopened
  BY DEF SetBusy, At, keyVars, countVars, TInv, Placed
<1>2. CASE UpdateStatus(p, d, req[p].seen.ver, "busy") /\ Goto(p, "setRecord")
  BY <1>1, <1>2, PutBusy DEF SetBusy, UpdateStatus, Label, HolderAt
<1>3. CASE Goto(p, "leave") /\ UNCHANGED dirty
  <2>1. /\ req'[p].pc = "leave"
        /\ \A q \in Req \ {p} : req'[q] = req[q]
    BY <1>3, Moves DEF Label
  <2> QED
    BY <1>1, <1>3, <2>1, BusyStays DEF HolderAt, At
<1> QED
  BY <1>2, <1>3 DEF SetBusy

LEMMA SetReleasedBusy ==
  ASSUME TInv, BInv, NEW p \in Req, SetReleased(p)
  PROVE  BInv'
<1> DEFINE d == DeviceOf(p)
           u == IF req[p].seen.upd = "finish" THEN "check" ELSE Latest(d).upd
           s == IF req[p].seen.upd = "finish" THEN "lock" ELSE "free"
           tested == [Latest(d) EXCEPT !.upd = u]
           freed == [tested EXCEPT !.ver = @ + 1, !.state = s]
<1>1. /\ req[p].pc = "bill" /\ req[p].tok \in Token /\ recordKey' = recordKey /\ row' = row
      /\ CanWrite(p, d) /\ d \in Device /\ unopened' = unopened
  BY DEF SetReleased, At, keyVars, countVars, TInv, Placed, DeviceOf, Token
<1>2. \/ Latest(d) # NoRow /\ Put(p, d, freed) /\ Goto(p, "settle")
      \/ Latest(d) # NoRow /\ Put(p, d, tested) /\ Goto(p, "leave")
      \/ UNCHANGED dirty /\ Goto(p, "leave")
  BY DEF SetReleased, VersionMatches
<1>3. Latest(d) \in Row \cup {NoRow} /\ Latest(d) = row[d]
  <2>1. dirty[d].by # p
    BY <1>1 DEF BInv, Serves, HolderAt
  <2> QED
    BY <1>1, <2>1, RowsKeep DEF CanWrite, Latest, TInv, TypeOK
<1>4. Latest(d) # NoRow => Busy(tested) = Busy(row[d]) /\ ~Busy(freed)
  BY <1>3 DEF Busy, Row
<1> HIDE DEF d, tested, freed
<1>5. CASE UNCHANGED dirty /\ Goto(p, "leave")
  <2>1. /\ req'[p].pc = "leave"
        /\ \A q \in Req \ {p} : req'[q] = req[q]
    BY <1>5, Moves DEF Label
  <2> QED
    BY <1>1, <1>5, <2>1, BusyStays DEF HolderAt, At
<1>6. CASE Latest(d) # NoRow /\ Put(p, d, freed) /\ Goto(p, "settle")
  BY <1>1, <1>4, <1>6, PutBusy DEF Label, HolderAt, d
<1>7. CASE Latest(d) # NoRow /\ Put(p, d, tested) /\ Goto(p, "leave")
  BY <1>1, <1>4, <1>7, PutBusy DEF Label, HolderAt, d
<1> QED
  BY <1>2, <1>5, <1>6, <1>7

(* p's transaction ends: what it wrote is committed or is not *)
LEMMA EndsBusy ==
  ASSUME TInv, BInv, NEW p \in Req, Commit(p) \/ Rollback(p), recordKey' = recordKey,
         \A q \in Req \ {p} : req'[q] = req[q],
         unopened' = unopened,
         req'[p].pc \notin {"setRecord", "settle"}, At(p, "setRecord") => Rollback(p),
         req'[p].pc = "delRecord" =>
             At(p, "settle") /\ req'[p].tok = req[p].tok /\ Commit(p)
  PROVE  BInv'
<1>1. \A d \in Device : /\ dirty[d].by = p => dirty'[d].by = NoReq
                        /\ dirty[d].by # p => dirty'[d] = dirty[d]
                        /\ row'[d] = IF dirty[d].by = p /\ Commit(p) THEN dirty[d].row ELSE row[d]
  BY DEF Commit, Rollback, Clean
<1>2. \A q \in Req, d \in Device : dirty'[d].by = q => q # p /\ dirty'[d] = dirty[d]
  BY <1>1, ReqAssumption
<1>3. Serves'
  BY <1>2 DEF BInv, Serves, DeviceOf
<1>4. Releasing'
  <2> SUFFICES ASSUME NEW q \in Req, req'[q].pc \in {"setRecord", "settle"}
               PROVE  /\ dirty'[DeviceOf(q)'].by = q
                      /\ At(q, "settle")' => ~Busy(dirty'[DeviceOf(q)'].row)
    BY DEF Releasing, At
  <2>1. q # p /\ req'[q] = req[q] /\ DeviceOf(q)' = DeviceOf(q)
    BY DEF DeviceOf
  <2>2. DeviceOf(q) \in Device
    BY <2>1 DEF TInv, Placed, DeviceOf, Token
  <2>3. dirty[DeviceOf(q)].by = q /\ (At(q, "settle")' => ~Busy(dirty[DeviceOf(q)].row))
    BY <2>1 DEF BInv, Releasing, At
  <2> QED
    BY <1>1, <2>1, <2>2, <2>3
(* the tokens other than p's are as open as they were, and p's is unless it *)
(* is about to be closed                                                   *)
<1>5. \A t : Open(t) /\ (t = req[p].tok => req'[p].pc # "delRecord") => Open(t)'
  BY DEF Open, Session, Closing, At
<1>6. ASSUME NEW q \in Req, q # p, NEW d \in Device, dirty[d].by = q, Open(req[q].tok)
      PROVE  Open(req[q].tok)'
  <2>1. CASE req'[p].pc = "delRecord" /\ req[q].tok = req[p].tok
    <3>1. DeviceOf(q) = d /\ DeviceOf(p) = d
      BY <1>6, <2>1 DEF BInv, Serves, DeviceOf
    <3>2. dirty[d].by = p
      BY <2>1, <3>1 DEF BInv, Releasing, At
    <3> QED
      BY <1>6, <3>2
  <2>2. CASE ~(req'[p].pc = "delRecord" /\ req[q].tok = req[p].tok)
    <3>1. req'[q] = req[q]
      BY <1>6
    <3>2. Session(req[q].tok)' /\ ~Closing(req[q].tok)'
      BY <1>6, <2>2, <3>1 DEF Open, Session, Closing, At
    <3> QED
      BY <3>2 DEF Open
  <2> QED
    BY <2>1, <2>2
<1>7. Taking'
  <2> SUFFICES ASSUME NEW q \in Req, NEW d \in Device, dirty'[d].by = q, Busy(dirty'[d].row),
                      ~Busy(row'[d]), d \notin unopened
               PROVE  At(q, "setRecord")' \/ Open(req[q].tok)'
    BY DEF Taking
  <2>1. q # p /\ dirty[d].by = q /\ Busy(dirty[d].row) /\ ~Busy(row[d])
    BY <1>1, <1>2
  <2>2. At(q, "setRecord") \/ Open(req[q].tok)
    BY <2>1 DEF BInv, Taking
  <2> QED
    BY <1>6, <2>1, <2>2 DEF At
<1>8. Taken'
  <2> SUFFICES ASSUME NEW d \in Device \ unopened, Busy(row'[d])
               PROVE  \E u \in User : Open(<<u, d>>)'
    BY DEF Taken
  <2>1. CASE Busy(row[d]) /\ ~(req'[p].pc = "delRecord" /\ DeviceOf(p) = d)
    <3>1. PICK u \in User : Open(<<u, d>>)
      BY <2>1 DEF BInv, Taken
    <3>2. <<u, d>> = req[p].tok => req'[p].pc # "delRecord"
      BY <2>1 DEF DeviceOf
    <3> QED
      BY <1>5, <3>1, <3>2
  <2>2. CASE req'[p].pc = "delRecord" /\ DeviceOf(p) = d
    <3>1. dirty[d].by = p /\ ~Busy(dirty[d].row) /\ Commit(p)
      BY <2>2 DEF BInv, Releasing, At
    <3> QED
      BY <1>1, <3>1
  <2>3. CASE ~Busy(row[d]) /\ ~(req'[p].pc = "delRecord" /\ DeviceOf(p) = d)
    <3>1. dirty[d].by = p /\ Busy(dirty[d].row) /\ Commit(p)
      BY <1>1, <2>3
    <3>2. DeviceOf(p) = d /\ req[p].tok \in Token
      BY <3>1 DEF BInv, Serves, HolderAt, TInv, Placed
    <3>3. At(p, "setRecord") \/ Open(req[p].tok)
      BY <2>3, <3>1 DEF BInv, Taking
    <3>4. CASE Open(req[p].tok)
      <4>1. req[p].tok = <<UserOf(p), d>> /\ UserOf(p) \in User
        BY <3>2 DEF UserOf, DeviceOf, Token
      <4> QED
        BY <1>5, <2>3, <3>2, <3>4, <4>1
    <3>5. CASE At(p, "setRecord")
      <4>1. Rollback(p) /\ row' = row
        BY <3>5 DEF Rollback
      <4> QED
        BY <2>3, <4>1
    <3> QED
      BY <3>3, <3>4, <3>5
  <2> QED
    BY <2>1, <2>2, <2>3
<1> QED
  BY <1>3, <1>4, <1>7, <1>8 DEF BInv

LEMMA StepBusy ==
  ASSUME TInv, Held, BInv, NEW p \in Req, Step(p) \/ Raises(p) \/ Crash(p)
  PROVE  BInv'
<1>1. CASE SetRecordKey(p) \/ DelRecordKey(p) \/ SetBusy(p) \/ SetReleased(p)
  BY <1>1, SetRecordBusy, DelRecordBusy, SetBusyKeeps, SetReleasedBusy
<1>2. CASE Settle(p)
  <2>1. PICK l \in {"delRecord", "leave"} : Goto(p, l) /\ (l = "delRecord" => Commit(p))
                                           /\ (Commit(p) \/ Rollback(p))
    BY <1>2 DEF Settle
  <2>2. /\ req'[p].pc = l /\ req'[p].tok = req[p].tok
        /\ \A q \in Req \ {p} : req'[q] = req[q]
    BY <2>1, Moves DEF Label
  <2>3. At(p, "settle") /\ recordKey' = recordKey /\ ~At(p, "setRecord") /\ unopened' = unopened
    BY <1>2 DEF Settle, keyVars, countVars, At
  <2> QED
    BY <2>1, <2>2, <2>3, EndsBusy
<1>3. CASE Teardown(p) \/ Crash(p)
  <2>1. req'[p].pc = "idle" /\ \A q \in Req \ {p} : req'[q] = req[q]
    BY <1>3, IdleTyped, Turns DEF Teardown, Crash
  <2>2. /\ Commit(p) \/ Rollback(p)
        /\ At(p, "setRecord") => Rollback(p)
        /\ recordKey' = recordKey /\ unopened' = unopened
    BY <1>3 DEF Teardown, Crash, At, keyVars, countVars
  <2> QED
    BY <2>1, <2>2, EndsBusy
<1>4. CASE Lock(p) \/ SetUserKey(p) \/ SetDeviceKeys(p) \/ DelUserKey(p) \/ DelDeviceKeys(p)
  <2>1. Body(p) \in {"state", "recheck"}
    BY DEF Body
  <2>2. PICK l \in Label : Goto(p, l) /\ l \notin {"setRecord", "settle", "delRecord"}
                         /\ (req[p].pc \in HolderAt => l \in HolderAt)
    BY <1>4, <2>1
       DEF Lock, EnterLock, FailLock, GiveUp, LeaveLock, SetUserKey, SetDeviceKeys,
           DelUserKey, DelDeviceKeys, Label, HolderAt, At
  <2>3. /\ req'[p].pc = l /\ req'[p].tok = req[p].tok
        /\ \A q \in Req \ {p} : req'[q] = req[q]
    BY <2>2, Moves
  <2>4. UNCHANGED <<row, dirty, recordKey, unopened>> /\ ~At(p, "setRecord")
    BY <1>4
       DEF Lock, EnterLock, FailLock, GiveUp, LeaveLock, SetUserKey, SetDeviceKeys,
           DelUserKey, DelDeviceKeys, At, rowVars, keyVars, countVars
  <2> QED
    BY <2>2, <2>3, <2>4, BusyStays
<1>5. CASE CreateRecord(p) \/ Recheck(p)
  <2>1. /\ req'[p].pc \in {"end", "lock", "leave", "bill"} /\ req[p].pc \in {"checked", "recheck"}
        /\ \A q \in Req \ {p} : req'[q] = req[q]
    BY <1>5 DEF CreateRecord, Recheck, At, TInv, TypeOK, Request
  <2>2. UNCHANGED <<row, dirty, recordKey, unopened>>
    BY <1>5 DEF CreateRecord, Recheck, rowVars, keyVars, countVars
  <2> QED
    BY <2>1, <2>2, BusyStays DEF HolderAt, At
<1>6. CASE Raises(p)
  <2>1. unopened \subseteq unopened' /\ (At(p, "setRecord") => DeviceOf(p) \in unopened')
    BY <1>6, Broken DEF At
  <2> QED
    BY <1>6, <2>1, Broken, BusyStays DEF HolderAt
<1> QED
  BY <1>1, <1>2, <1>3, <1>4, <1>5, <1>6 DEF Step, Login, Logout

(* What becomes of a row between two sessions does not make it busy *)
LEMMA MaintainBusy ==
  ASSUME TInv, BInv, NEW d \in Device, Maintain(d)
  PROVE  BInv'
<1>1. UNCHANGED <<dirty, recordKey, req, unopened>>
  BY DEF Maintain, SelfCheckDone, UpdateWaits, DeleteDevice, keyVars, countVars
<1>2. /\ dirty[d].by = NoReq
      /\ \A e \in Device \ {d} : row'[e] = row[e]
      /\ Busy(row'[d]) => Busy(row[d])
  <2>1. row \in [Device -> Row \cup {NoRow}]
    BY DEF TInv, TypeOK, RowTypeOK
  <2>2. CASE SelfCheckDone(d)
    <3>1. row[d] \in Row
      BY <2>1, <2>2 DEF SelfCheckDone, NoRow
    <3> QED
      BY <2>1, <2>2, <3>1 DEF SelfCheckDone, Busy, Row, Clean
  <2>3. CASE UpdateWaits(d)
    <3>1. row[d] \in Row
      BY <2>1, <2>3 DEF UpdateWaits, NoRow
    <3> QED
      BY <2>1, <2>3, <3>1 DEF UpdateWaits, Busy, Row, Clean
  <2>4. CASE DeleteDevice(d)
    BY <2>1, <2>4 DEF DeleteDevice, Busy, NoRow, Clean
  <2> QED
    BY <2>2, <2>3, <2>4 DEF Maintain
<1>3. \A t : Open(t)' = Open(t)
  BY <1>1 DEF Open, Session, Closing, At
<1>4. Serves' /\ Releasing'
  BY <1>1 DEF BInv, Serves, Releasing, DeviceOf, At
<1>5. Taking'
  <2> SUFFICES ASSUME NEW q \in Req, NEW e \in Device, dirty'[e].by = q, Busy(dirty'[e].row),
                      ~Busy(row'[e]), e \notin unopened
               PROVE  At(q, "setRecord")' \/ Open(req[q].tok)'
    BY <1>1 DEF Taking
  <2>1. e # d
    BY <1>1, <1>2, ReqAssumption
  <2>2. At(q, "setRecord") \/ Open(req[q].tok)
    BY <1>1, <1>2, <2>1 DEF BInv, Taking
  <2>3. Open(req[q].tok)' = Open(req[q].tok)
    BY <1>1 DEF Open, Session, Closing, At
  <2> QED
    BY <1>1, <2>2, <2>3 DEF At
<1>6. Taken'
  BY <1>1, <1>2, <1>3 DEF BInv, Taken
<1> QED
  BY <1>4, <1>5, <1>6 DEF BInv

LEMMA BInvInductive == TInv /\ Held /\ BInv /\ [Next]_vars => BInv'
<1> SUFFICES ASSUME TInv, Held, BInv, [Next]_vars PROVE BInv'
  OBVIOUS
<1>1. ASSUME NEW p \in Req, Step(p) \/ Raises(p) \/ Crash(p) PROVE BInv'
  BY <1>1, StepBusy
<1>2. ASSUME NEW p \in Req, NEW t, CheckLogin(p, t[1], t[2]) \/ AskLogout(p, t) \/ Deliver(p)
      PROVE  BInv'
  <2>1. req[p].pc = "idle" /\ UNCHANGED <<row, dirty, recordKey, unopened>>
    BY <1>2 DEF CheckLogin, AskLogout, Deliver, ReadCharging, At, rowVars, keyVars, countVars
  <2>2. /\ req'[p].pc \in {"checked", "lock"}
        /\ \A q \in Req \ {p} : req'[q] = req[q]
    <3>1. CASE CheckLogin(p, t[1], t[2])
      BY <3>1 DEF CheckLogin, Idle, TInv, TypeOK
    <3>2. ASSUME NEW o, NEW seen, ReadCharging(p, o, seen)
          PROVE  /\ req'[p].pc \in {"checked", "lock"}
                 /\ \A q \in Req \ {p} : req'[q] = req[q]
      BY <3>2 DEF ReadCharging, Idle, TInv, TypeOK
    <3> QED
      BY <1>2, <3>1, <3>2 DEF AskLogout, Deliver
  <2> QED
    BY <2>1, <2>2, BusyStays DEF HolderAt, At
<1>3. ASSUME NEW d \in Device, Maintain(d) PROVE BInv'
  BY <1>3, MaintainBusy
<1>4. CASE \/ \E t \in Token : Sweep(t) \/ KeepAlive(t) \/ KeepAliveLost(t)
           \/ OrderLost \/ UNCHANGED vars
  <2>1. UNCHANGED <<row, dirty, recordKey, req, unopened>>
    BY <1>4 DEF Sweep, KeepAlive, KeepAliveLost, OrderLost, vars, rowVars, keyVars, countVars
  <2> QED
    BY <2>1 DEF BInv, Serves, Releasing, Taking, Taken, Open, Session, Closing, At, DeviceOf
<1> QED
  BY <1>1, <1>2, <1>3, <1>4 DEF Next

(* A busy device is held by a session that can be ended, between any two    *)
(* steps of any number of logins, logouts and deaths, and over logins that  *)
(* redis breaks off once the charging text is there.  A device whose last   *)
(* login was broken off before is excepted: nobody can end it.             *)
THEOREM BusyIsHeld == Spec => []BusyHasSession
<1>1. Init => BInv
  BY IdleTyped, ReqAssumption
     DEF Init, RowInit, NewRow, Clean, BInv, Serves, Releasing, Taking, Taken, Busy, At
<1>2. BInv => BusyHasSession
  BY DEF BInv, Taken, Busy, Open, BusyHasSession
<1> QED
  BY <1>1, <1>2, LockHeld, BInvInductive, PTL DEF Spec
-----------------------------------------------------------------------------
(* The versions a login compares *)

(* A login that has its record and may still open a session *)
Pending(p) == req[p].kind = "login" /\ req[p].pc \in {"lock", "state", "setRecord"}
Waits(p) == Pending(p) /\ req[p].pc # "setRecord"

Ver(p) == req[p].seen.ver

(* A logout that has read the charging text and may still bill *)
Asked(q) == req[q].kind = "logout" /\ req[q].pc \in {"lock", "recheck", "bill", "settle"}

(* The version a login has in hand is not ahead of the row *)
SeenBehind == \A p \in Req :
    Pending(p) => row[DeviceOf(p)] = NoRow \/ Ver(p) <= row[DeviceOf(p)].ver

(* Of two logins the one with the later record has seen the later version *)
RecordsInOrder == \A p, o \in Req :
    Pending(p) /\ Pending(o) /\ DeviceOf(p) = DeviceOf(o) /\ req[p].rec < req[o].rec
        => Ver(p) <= Ver(o)

(* Who is about to set the record key has written the next version *)
Written == \A p \in Req :
    At(p, "setRecord") => dirty[DeviceOf(p)].by = p /\ Ver(p) < dirty[DeviceOf(p)].row.ver

(* A row that is written and not committed is there, and its version does  *)
(* not go back                                                             *)
RowsAdvance == \A d \in Device :
    dirty[d].by \in Req => row[d] # NoRow /\ row[d].ver <= dirty[d].row.ver

VInv == SeenBehind /\ RecordsInOrder /\ Written /\ RowsAdvance

LEMMA Numbers ==
  ASSUME TInv
  PROVE  /\ \A d \in Device : row[d].ver \in Nat /\ dirty[d].row.ver \in Nat
         /\ \A p \in Req : Ver(p) \in Nat /\ req[p].rec \in Nat
<1>1. \A r \in Row \cup {NoRow} : r.ver \in Nat
  BY DEF Row, NoRow
<1>2. \A d \in Device : row[d] \in Row \cup {NoRow} /\ dirty[d].row \in Row \cup {NoRow}
  BY DEF TInv, TypeOK, RowTypeOK
<1>3. \A p \in Req : req[p].seen \in Row \cup {NoRow} /\ req[p].rec \in 0..MaxRecord
  BY DEF TInv, TypeOK, Request
<1> QED
  BY <1>1, <1>2, <1>3, SessionAssumption DEF Ver

LEMMA PendingServes ==
  ASSUME TInv, NEW p \in Req, Pending(p)
  PROVE  req[p].tok \in Token /\ DeviceOf(p) \in Device /\ RecordOf(req[p].rec, req[p].tok)
BY DEF Pending, TInv, Placed, DeviceOf, Token

(* What a step does to a row: it is deleted, or its version does not go back *)
Grows == \A d \in Device :
    row'[d] = NoRow \/ (row[d] # NoRow /\ row[d].ver <= row'[d].ver)

LEMMA EndGrows ==
  ASSUME TInv, VInv, NEW p \in Req, Commit(p) \/ Rollback(p)
  PROVE  Grows
<1>1. \A d \in Device : row'[d] = row[d] \/ (dirty[d].by = p /\ row'[d] = dirty[d].row)
  BY DEF Commit, Rollback
<1> QED
  BY <1>1, Numbers DEF Grows, VInv, RowsAdvance

LEMMA MaintainGrows ==
  ASSUME TInv, NEW d \in Device, Maintain(d)
  PROVE  Grows
<1>1. row \in [Device -> Row \cup {NoRow}]
  BY DEF TInv, TypeOK, RowTypeOK
<1>2. CASE SelfCheckDone(d)
  <2>1. row[d] \in Row
    BY <1>1, <1>2 DEF SelfCheckDone, NoRow
  <2>2. row[d].ver \in Nat /\ row[d].ver <= row'[d].ver
    BY <1>1, <1>2, <2>1 DEF SelfCheckDone, Row
  <2>3. row[d] # NoRow
    BY <1>2 DEF SelfCheckDone, NoRow
  <2> QED
    BY <1>1, <1>2, <2>2, <2>3, Numbers DEF Grows, SelfCheckDone
<1>3. CASE UpdateWaits(d)
  <2>1. row[d] \in Row /\ row[d] # NoRow
    BY <1>1, <1>3 DEF UpdateWaits, NoRow
  <2>2. row[d].ver <= row'[d].ver
    BY <1>1, <1>3, <2>1, Numbers DEF UpdateWaits, Row
  <2> QED
    BY <1>1, <1>3, <2>1, <2>2, Numbers DEF Grows, UpdateWaits
<1>4. CASE DeleteDevice(d)
  BY <1>1, <1>4, Numbers DEF Grows, DeleteDevice
<1> QED
  BY <1>2, <1>3, <1>4 DEF Maintain

(* The steps that leave the pending logins as they are, or fewer *)
LEMMA VersionsStay ==
  ASSUME TInv, BInv, VInv, RowTypeOK', Grows, NEW p \in Req,
         \A q \in Req \ {p} : req'[q] = req[q],
         Pending(p)' => /\ Waits(p)' /\ Waits(p) /\ req'[p].tok = req[p].tok
                        /\ req'[p].rec = req[p].rec /\ req'[p].seen = req[p].seen,
         req'[p].pc # "setRecord",
         \A d \in Device : \/ dirty'[d].by = NoReq
                           \/ dirty'[d] = dirty[d] /\ row'[d] = row[d]
                           \/ /\ dirty[d].by \notin Req \ {p}
                              /\ row'[d] # NoRow /\ row'[d].ver <= dirty'[d].row.ver,
         \A d \in Device : dirty[d].by \in Req \ {p} => dirty'[d] = dirty[d]
  PROVE  VInv'
<1>1. \A q \in Req : Pending(q)' =>
         /\ Pending(q) /\ DeviceOf(q)' = DeviceOf(q) /\ Ver(q)' = Ver(q)
         /\ req'[q].rec = req[q].rec /\ (Waits(q)' => Waits(q))
  BY DEF Pending, Waits, DeviceOf, Ver
<1>2. SeenBehind'
  <2> SUFFICES ASSUME NEW q \in Req, Pending(q)'
               PROVE  row'[DeviceOf(q)'] = NoRow \/ Ver(q)' <= row'[DeviceOf(q)'].ver
    BY DEF SeenBehind
  <2>1. Pending(q) /\ DeviceOf(q)' = DeviceOf(q) /\ Ver(q)' = Ver(q) /\ DeviceOf(q) \in Device
    BY <1>1, PendingServes
  <2>2. row[DeviceOf(q)] = NoRow \/ Ver(q) <= row[DeviceOf(q)].ver
    BY <2>1 DEF VInv, SeenBehind
  <2>3. \/ row'[DeviceOf(q)] = NoRow
        \/ row[DeviceOf(q)] # NoRow /\ row[DeviceOf(q)].ver <= row'[DeviceOf(q)].ver
    BY <2>1 DEF Grows
  <2>4. row'[DeviceOf(q)].ver \in Nat
    <3>1. \A r \in Row \cup {NoRow} : r.ver \in Nat
      BY DEF Row, NoRow
    <3> QED
      BY <2>1, <3>1 DEF RowTypeOK
  <2> QED
    BY <2>1, <2>2, <2>3, <2>4, Numbers
<1>3. RecordsInOrder'
  BY <1>1 DEF VInv, RecordsInOrder
<1>4. Written'
  <2> SUFFICES ASSUME NEW q \in Req, At(q, "setRecord")'
               PROVE  dirty'[DeviceOf(q)'].by = q /\ Ver(q)' < dirty'[DeviceOf(q)'].row.ver
    BY DEF Written
  <2>1. q # p /\ At(q, "setRecord") /\ DeviceOf(q)' = DeviceOf(q) /\ Ver(q)' = Ver(q)
    BY DEF At, DeviceOf, Ver
  <2>2. DeviceOf(q) \in Device
    BY <2>1 DEF At, TInv, Placed, DeviceOf, Token
  <2> QED
    BY <2>1, <2>2 DEF VInv, Written
<1>5. RowsAdvance'
  BY ReqAssumption DEF VInv, RowsAdvance
<1> QED
  BY <1>2, <1>3, <1>4, <1>5 DEF VInv

Begins(p) == \/ \E t \in Token : CheckLogin(p, t[1], t[2]) \/ AskLogout(p, t)
             \/ Deliver(p)

Acts(p) == Step(p) \/ Raises(p) \/ Crash(p) \/ Begins(p)

(* What becomes of a request that acts: it moves on, is over, or begins *)
LEMMA RequestActs ==
  ASSUME TInv, NEW p \in Req, Acts(p), ~CreateRecord(p)
  PROVE  /\ \A q \in Req \ {p} : req'[q] = req[q]
         /\ \/ /\ req'[p].kind = req[p].kind /\ req'[p].tok = req[p].tok
               /\ req'[p].rec = req[p].rec
               /\ req[p].pc # "idle"
               /\ req[p].kind = "login" => req'[p].seen = req[p].seen
               /\ Pending(p)' => Pending(p)
               /\ Waits(p)' => Waits(p)
               /\ Asked(p)' => Asked(p)
               /\ req[p].pc = "setRecord" => req'[p].pc # "setRecord"
               /\ req'[p].pc = "setRecord" => SetBusy(p)
               /\ req'[p].pc \in {"bill", "settle"}
                    => req[p].pc = "bill" \/ (Recheck(p) /\ recordKey[req[p].tok] # 0)
            \/ req'[p].pc \in {"idle", "checked"} /\ req'[p].kind = "login"
            \/ /\ req[p].pc = "idle" /\ req'[p].pc = "lock" /\ req'[p].kind = "logout"
               /\ req'[p].tok \in Token /\ recordKey[req'[p].tok] # 0
               /\ req'[p].rec = recordKey[req'[p].tok]
<1>1. CASE Recheck(p)
  <2>1. /\ \A q \in Req \ {p} : req'[q] = req[q]
        /\ req'[p].kind = req[p].kind /\ req'[p].tok = req[p].tok /\ req'[p].rec = req[p].rec
        /\ req'[p].pc \in {"leave", "bill"}
        /\ req'[p].pc = "bill" => recordKey[req[p].tok] # 0
    BY <1>1 DEF Recheck, TInv, TypeOK, Request
  <2>2. req[p].pc = "recheck" /\ req[p].kind = "logout"
    BY <1>1 DEF Recheck, At, TInv, Placed, LogoutAt
  <2> QED
    BY <1>1, <2>1, <2>2 DEF Pending, Waits, Asked
<1>2. CASE Teardown(p) \/ Crash(p)
  <2>1. /\ req'[p] = Idle /\ Idle.kind = "login"
        /\ \A q \in Req \ {p} : req'[q] = req[q]
    BY <1>2, IdleTyped, Turns DEF Teardown, Crash, Idle
  <2> QED
    BY <2>1, IdleTyped
<1>3. CASE (Step(p) /\ ~Recheck(p)) /\ ~Teardown(p)
  <2>1. req[p].pc # "idle" /\ req[p].kind \in {"login", "logout"}
    BY <1>3
       DEF Step, Lock, EnterLock, FailLock, GiveUp, LeaveLock,
           Login, SetBusy, SetRecordKey, SetUserKey, SetDeviceKeys,
           Logout, SetReleased, Settle, DelRecordKey, DelUserKey, DelDeviceKeys, At,
           TInv, TypeOK, Request
  <2>2. PICK l \in Label :
          /\ Goto(p, l)
          /\ l = "setRecord" => SetBusy(p)
          /\ l = "recheck" => req[p].pc = "lock"
          /\ l = "bill" => FALSE
          /\ l = "settle" => req[p].pc = "bill"
          /\ l = "lock" => FALSE
          /\ l = "state" => req[p].pc = "lock"
    <3>1. \/ Body(p) = "state" \/ Body(p) = "recheck"
      BY DEF Body
    <3> QED
      BY <1>3, <3>1
         DEF Step, Lock, EnterLock, FailLock, GiveUp, LeaveLock,
             Login, SetBusy, SetRecordKey, SetUserKey, SetDeviceKeys,
             Logout, SetReleased, Settle, DelRecordKey, DelUserKey, DelDeviceKeys, At, Label
  <2>3. /\ req'[p].pc = l /\ req'[p].kind = req[p].kind /\ req'[p].tok = req[p].tok
        /\ req'[p].rec = req[p].rec /\ req'[p].seen = req[p].seen
        /\ \A q \in Req \ {p} : req'[q] = req[q]
    BY <2>2, Moves
  <2>4. SetBusy(p) => req[p].pc = "state"
    BY DEF SetBusy, At
  <2> QED
    BY <2>1, <2>2, <2>3, <2>4 DEF Pending, Waits, Asked
<1>4. ASSUME NEW t, CheckLogin(p, t[1], t[2])
      PROVE  /\ req'[p].pc = "checked" /\ req'[p].kind = "login"
             /\ \A q \in Req \ {p} : req'[q] = req[q]
  BY <1>4 DEF CheckLogin, Idle, TInv, TypeOK
<1>5. ASSUME NEW t \in Token, NEW seen, ReadCharging(p, t, seen)
      PROVE  /\ req[p].pc = "idle" /\ req'[p].pc = "lock" /\ req'[p].kind = "logout"
             /\ req'[p].tok \in Token /\ recordKey[req'[p].tok] # 0
             /\ req'[p].rec = recordKey[req'[p].tok]
             /\ \A q \in Req \ {p} : req'[q] = req[q]
  BY <1>5 DEF ReadCharging, Idle, At, TInv, TypeOK
<1>6. CASE Begins(p)
  <2>1. CASE \E t \in Token : CheckLogin(p, t[1], t[2])
    BY <1>4, <2>1
  <2>2. CASE \E t \in Token, seen \in Row \cup {NoRow} : ReadCharging(p, t, seen)
    BY <1>5, <2>2
  <2>3. ASSUME NEW t \in Token, AskLogout(p, t)
        PROVE  \E o \in Token, seen \in Row \cup {NoRow} : ReadCharging(p, o, seen)
    BY <2>3 DEF AskLogout, TInv, TypeOK, RowTypeOK, Token
  <2>4. ASSUME Deliver(p)
        PROVE  \E o \in Token, seen \in Row \cup {NoRow} : ReadCharging(p, o, seen)
    BY <2>4 DEF Deliver, TInv, TypeOK
  <2> QED
    BY <1>6, <2>1, <2>2, <2>3, <2>4 DEF Begins
<1>7. CASE Raises(p)
  BY <1>7, Broken DEF Pending, Waits, Asked
<1> QED
  BY <1>1, <1>2, <1>3, <1>6, <1>7 DEF Acts

(* What a request does to the rows *)
LEMMA RowActs ==
  ASSUME TInv, BInv, NEW p \in Req, Acts(p), ~SetBusy(p)
  PROVE  /\ \A d \in Device : dirty[d].by \in Req \ {p} => dirty'[d] = dirty[d]
         /\ \/ UNCHANGED <<row, dirty>>
            \/ Commit(p) \/ (Rollback(p) /\ (Settle(p) \/ Crash(p)))
            \/ /\ row' = row
               /\ \A d \in Device :
                     \/ dirty'[d] = dirty[d]
                     \/ /\ dirty[d].by = NoReq /\ dirty'[d].by = p
                        /\ row[d] # NoRow /\ row[d].ver <= dirty'[d].row.ver
<1>1. CASE SetReleased(p)
  <2> DEFINE d == DeviceOf(p)
             u == IF req[p].seen.upd = "finish" THEN "check" ELSE Latest(d).upd
             s == IF req[p].seen.upd = "finish" THEN "lock" ELSE "free"
             tested == [Latest(d) EXCEPT !.upd = u]
             freed == [tested EXCEPT !.ver = @ + 1, !.state = s]
  <2>1. /\ req[p].pc = "bill" /\ d \in Device /\ row' = row /\ CanWrite(p, d)
    BY <1>1 DEF SetReleased, At, TInv, Placed, DeviceOf, Token
  <2>2. \/ UNCHANGED dirty
        \/ Latest(d) # NoRow /\ Put(p, d, freed)
        \/ Latest(d) # NoRow /\ Put(p, d, tested)
    BY <1>1 DEF SetReleased, VersionMatches
  <2>3. dirty[d].by = NoReq /\ Latest(d) = row[d] /\ row[d] \in Row \cup {NoRow}
    <3>1. dirty[d].by # p
      BY <2>1 DEF BInv, Serves, HolderAt
    <3> QED
      BY <2>1, <3>1 DEF CanWrite, Latest, TInv, TypeOK, RowTypeOK
  <2>4. row[d] # NoRow => row[d].ver <= tested.ver /\ row[d].ver <= freed.ver
    BY <2>3 DEF Row
  <2> HIDE DEF tested, freed
  <2>5. ASSUME NEW x, Put(p, d, x)
        PROVE  /\ dirty'[d].by = p /\ dirty'[d].row = x
               /\ \A e \in Device \ {d} : dirty'[e] = dirty[e]
    BY <2>1, <2>5 DEF Put, TInv, TypeOK, RowTypeOK
  <2> QED
    BY <2>1, <2>2, <2>3, <2>4, <2>5, ReqAssumption
<1>2. CASE Settle(p) \/ Teardown(p) \/ Crash(p)
  BY <1>2 DEF Settle, Teardown, Crash, Commit, Rollback
<1>3. CASE Acts(p) /\ ~SetReleased(p) /\ ~Settle(p) /\ ~Teardown(p) /\ ~Crash(p)
  <2>1. UNCHANGED <<row, dirty>>
    BY <1>3 DEF Acts, Begins, CheckLogin, AskLogout, Deliver,
                Step, Lock, EnterLock, FailLock, GiveUp, LeaveLock,
                Login, CreateRecord, SetRecordKey, SetUserKey, SetDeviceKeys,
                Logout, Recheck, DelRecordKey, DelUserKey, DelDeviceKeys,
                Raises, LoginRaises, LogoutRaises, rowVars
  <2> QED
    BY <2>1
<1> QED
  BY <1>1, <1>2, <1>3

(* Whoever may begin to write a row of a device it does not hold yet *)
LEMMA SetBusyRow ==
  ASSUME TInv, BInv, NEW p \in Req, SetBusy(p), req'[p].pc = "setRecord"
  PROVE  LET d == DeviceOf(p) IN
         /\ d \in Device /\ dirty[d].by = NoReq /\ row[d] # NoRow /\ row[d].ver = Ver(p)
         /\ row' = row /\ dirty'[d].by = p /\ dirty'[d].row.ver = Ver(p) + 1
         /\ \A e \in Device \ {d} : dirty'[e] = dirty[e]
<1> DEFINE d == DeviceOf(p)
           r == [row[d] EXCEPT !.state = "busy", !.ver = @ + 1]
<1>1. req[p].pc = "state" /\ d \in Device /\ row' = row /\ CanWrite(p, d)
  BY DEF SetBusy, At, TInv, Placed, DeviceOf, Token
<1>2. dirty[d].by = NoReq /\ Latest(d) = row[d] /\ row[d] \in Row \cup {NoRow}
  <2>1. dirty[d].by # p
    BY <1>1 DEF BInv, Serves, HolderAt
  <2> QED
    BY <1>1, <2>1 DEF CanWrite, Latest, TInv, TypeOK, RowTypeOK
<1>3. ~Goto(p, "leave")
  BY "leave" \in Label, Moves DEF Label
<1>4. /\ row[d] # NoRow /\ row[d].ver = Ver(p)
      /\ Put(p, d, r)
  BY <1>2, <1>3 DEF SetBusy, UpdateStatus, VersionMatches, Ver
<1>5. r.ver = Ver(p) + 1
  BY <1>2, <1>4 DEF Row
<1> HIDE DEF r
<1>6. /\ dirty'[d].by = p /\ dirty'[d].row = r
      /\ \A e \in Device \ {d} : dirty'[e] = dirty[e]
  BY <1>1, <1>4 DEF Put, TInv, TypeOK, RowTypeOK
<1> QED
  BY <1>1, <1>2, <1>4, <1>5, <1>6

LEMMA SetBusyVersions ==
  ASSUME TInv, BInv, VInv, NEW p \in Req, SetBusy(p), req'[p].pc = "setRecord"
  PROVE  VInv'
<1>1. /\ \A q \in Req \ {p} : req'[q] = req[q]
      /\ req[p].pc = "state"
      /\ Pending(p) /\ req'[p].tok = req[p].tok /\ req'[p].rec = req[p].rec
      /\ req'[p].seen = req[p].seen
  <2>1. req[p].pc = "state" /\ req[p].kind = "login"
    BY DEF SetBusy, At, TInv, Placed, LoginAt
  <2> QED
    BY <2>1, RequestActs DEF Acts, Step, Login, CreateRecord, At, Pending
<1>2. \A q \in Req : Pending(q)' =>
         /\ Pending(q) /\ DeviceOf(q)' = DeviceOf(q) /\ Ver(q)' = Ver(q)
         /\ req'[q].rec = req[q].rec
  BY <1>1 DEF Pending, DeviceOf, Ver
<1>3. SeenBehind' /\ RecordsInOrder'
  BY <1>2, SetBusyRow DEF VInv, SeenBehind, RecordsInOrder
<1>4. Written'
  <2> SUFFICES ASSUME NEW q \in Req, At(q, "setRecord")'
               PROVE  dirty'[DeviceOf(q)'].by = q /\ Ver(q)' < dirty'[DeviceOf(q)'].row.ver
    BY DEF Written
  <2>1. CASE q = p
    BY <1>1, <2>1, SetBusyRow, Numbers DEF DeviceOf, Ver
  <2>2. CASE q # p
    <3>1. At(q, "setRecord") /\ DeviceOf(q)' = DeviceOf(q) /\ Ver(q)' = Ver(q)
      BY <1>1, <2>2 DEF At, DeviceOf, Ver
    <3>2. DeviceOf(q) \in Device /\ dirty[DeviceOf(q)].by = q
      BY <3>1 DEF At, TInv, Placed, DeviceOf, Token, VInv, Written
    <3> QED
      BY <3>1, <3>2, SetBusyRow, ReqAssumption DEF VInv, Written
  <2> QED
    BY <2>1, <2>2
<1>5. RowsAdvance'
  BY SetBusyRow, Numbers DEF VInv, RowsAdvance
<1> QED
  BY <1>3, <1>4, <1>5 DEF VInv

(* A record that is created is later than every other, and so is the row   *)
(* its login has seen                                                      *)
LEMMA CreatedLast ==
  ASSUME TInv, NEW p \in Req, CreateRecord(p)
  PROVE  /\ UNCHANGED <<row, dirty, recordKey, crashes>>
         /\ \A q \in Req \ {p} : req'[q] = req[q]
         /\ req[p].pc = "checked"
         /\ req'[p].kind = "login" /\ req'[p].tok = req[p].tok /\ req[p].tok \in Token
         /\ req'[p].rec = Len(record) + 1 /\ req'[p].seen = row[DeviceOf(p)]
         /\ req'[p].pc \in {"lock", "end"}
         /\ record' = Append(record, req[p].tok) /\ billed' = Append(billed, 0)
<1>1. req[p].pc = "checked" /\ req[p].kind = "login" /\ req[p].tok \in Token
  BY DEF CreateRecord, At, TInv, Placed, LoginAt
<1>2. Len(record') = Len(record) + 1
  BY <1>1 DEF CreateRecord, TInv, TypeOK
<1> QED
  BY <1>1, <1>2 DEF CreateRecord, rowVars, keyVars, countVars, TInv, TypeOK, Request

LEMMA CreateRecordVersions ==
  ASSUME TInv, VInv, NEW p \in Req, CreateRecord(p)
  PROVE  VInv'
<1>1. \A q \in Req \ {p} :
         /\ Pending(q)' = Pending(q) /\ At(q, "setRecord")' = At(q, "setRecord")
         /\ DeviceOf(q)' = DeviceOf(q) /\ Ver(q)' = Ver(q) /\ req'[q].rec = req[q].rec
  BY CreatedLast DEF Pending, At, DeviceOf, Ver
<1>2. /\ DeviceOf(p)' = DeviceOf(p) /\ DeviceOf(p) \in Device
      /\ Ver(p)' = row[DeviceOf(p)].ver /\ req'[p].rec = Len(record) + 1
      /\ ~At(p, "setRecord")'
  BY CreatedLast DEF DeviceOf, Ver, At, Token
<1>3. SeenBehind'
  BY <1>1, <1>2, CreatedLast, Numbers DEF VInv, SeenBehind
<1>4. RecordsInOrder'
  <2> SUFFICES ASSUME NEW q \in Req, NEW o \in Req, Pending(q)', Pending(o)',
                      DeviceOf(q)' = DeviceOf(o)', req'[q].rec < req'[o].rec
               PROVE  Ver(q)' <= Ver(o)'
    BY DEF RecordsInOrder
  <2>1. CASE q # p /\ o # p
    BY <1>1, <2>1 DEF VInv, RecordsInOrder
  <2>2. CASE q = p /\ o # p
    <3>1. req[o].rec \in 1..Len(record)
      BY <1>1, <2>2, PendingServes DEF RecordOf
    <3> QED
      BY <1>1, <1>2, <2>2, <3>1, Numbers DEF TInv, TypeOK
  <2>3. CASE q # p /\ o = p
    <3>1. row[DeviceOf(q)] = NoRow \/ Ver(q) <= row[DeviceOf(q)].ver
      BY <1>1, <2>3 DEF VInv, SeenBehind
    <3>2. row[DeviceOf(p)] # NoRow
      <4>1. req'[p].pc # "end"
        BY <2>3 DEF Pending
      <4>2. row[DeviceOf(p)] = NoRow => req'[p].pc = "end"
        BY DEF CreateRecord, TInv, TypeOK, Request
      <4> QED
        BY <4>1, <4>2
    <3> QED
      BY <1>1, <1>2, <2>3, <3>1, <3>2
  <2>4. CASE q = p /\ o = p
    BY <1>2, <2>4 DEF TInv, TypeOK
  <2> QED
    BY <2>1, <2>2, <2>3, <2>4
<1>5. Written'
  BY <1>1, <1>2, CreatedLast DEF VInv, Written
<1>6. RowsAdvance'
  BY CreatedLast DEF VInv, RowsAdvance
<1> QED
  BY <1>3, <1>4, <1>5, <1>6 DEF VInv

LEMMA ActsVersions ==
  ASSUME TInv, TInv', BInv, VInv, NEW p \in Req, Acts(p)
  PROVE  VInv'
<1>1. CASE CreateRecord(p)
  BY <1>1, CreateRecordVersions
<1>2. CASE SetBusy(p) /\ req'[p].pc = "setRecord"
  BY <1>2, SetBusyVersions
<1>3. CASE ~CreateRecord(p) /\ ~(SetBusy(p) /\ req'[p].pc = "setRecord")
  <2>1. /\ \A q \in Req \ {p} : req'[q] = req[q]
        /\ req'[p].pc # "setRecord"
        /\ Pending(p)' => /\ Waits(p)' /\ Waits(p) /\ req'[p].tok = req[p].tok
                         /\ req'[p].rec = req[p].rec /\ req'[p].seen = req[p].seen
    BY <1>3, RequestActs DEF Pending, Waits
  <2>2. /\ \A d \in Device : dirty[d].by \in Req \ {p} => dirty'[d] = dirty[d]
        /\ \/ UNCHANGED <<row, dirty>>
           \/ Commit(p) \/ Rollback(p)
           \/ /\ row' = row
              /\ \A d \in Device :
                    \/ dirty'[d] = dirty[d]
                    \/ /\ dirty[d].by = NoReq /\ dirty'[d].by = p
                       /\ row[d] # NoRow /\ row[d].ver <= dirty'[d].row.ver
    <3>1. CASE SetBusy(p)
      <4>1. ~Goto(p, "setRecord")
        BY <1>3, <3>1, "setRecord" \in Label, Moves DEF Label
      <4> QED
        BY <3>1, <4>1 DEF SetBusy
    <3>2. CASE ~SetBusy(p)
      BY <3>2, RowActs
    <3> QED
      BY <3>1, <3>2
  <2>3. Grows
    BY <2>2, EndGrows, Numbers DEF Grows
  <2>4. ASSUME NEW d \in Device
        PROVE  \/ dirty'[d].by = NoReq
               \/ dirty'[d] = dirty[d] /\ row'[d] = row[d]
               \/ /\ dirty[d].by \notin Req \ {p}
                  /\ row'[d] # NoRow /\ row'[d].ver <= dirty'[d].row.ver
    BY <2>2, ReqAssumption DEF Commit, Rollback, Clean
  <2>5. RowTypeOK'
    BY DEF TInv, TypeOK
  <2> QED
    BY <2>1, <2>2, <2>3, <2>4, <2>5, VersionsStay
<1> QED
  BY <1>1, <1>2, <1>3

LEMMA VInvInductive == TInv /\ Held /\ BInv /\ VInv /\ [Next]_vars => VInv'
<1> SUFFICES ASSUME TInv, BInv, VInv, [Next]_vars PROVE VInv'
  OBVIOUS
<1>1. TInv'
  BY TInvInductive
<1>2. ASSUME NEW p \in Req, Acts(p) PROVE VInv'
  BY <1>1, <1>2, ActsVersions
<1>3. ASSUME NEW d \in Device, Maintain(d) PROVE VInv'
  <2>1. UNCHANGED <<dirty, req>> /\ \A e \in Device \ {d} : row'[e] = row[e]
    BY <1>3 DEF Maintain, SelfCheckDone, UpdateWaits, DeleteDevice, TInv, TypeOK, RowTypeOK
  <2>2. dirty[d].by = NoReq
    BY <1>3 DEF Maintain, SelfCheckDone, UpdateWaits, DeleteDevice, Clean
  <2>3. Written' /\ RecordsInOrder' /\ RowsAdvance'
    BY <2>1, <2>2, ReqAssumption
       DEF VInv, Written, RecordsInOrder, RowsAdvance, At, Pending, DeviceOf, Ver
  <2>4. SeenBehind'
    <3> SUFFICES ASSUME NEW q \in Req, Pending(q)
                 PROVE  row'[DeviceOf(q)] = NoRow \/ Ver(q) <= row'[DeviceOf(q)].ver
      BY <2>1 DEF SeenBehind, Pending, DeviceOf, Ver
    <3>1. DeviceOf(q) \in Device
      BY PendingServes
    <3>2. row[DeviceOf(q)] = NoRow \/ Ver(q) <= row[DeviceOf(q)].ver
      BY DEF VInv, SeenBehind
    <3>3. \/ row'[DeviceOf(q)] = NoRow
          \/ row[DeviceOf(q)] # NoRow /\ row[DeviceOf(q)].ver <= row'[DeviceOf(q)].ver
      BY <1>3, <3>1, MaintainGrows DEF Grows
    <3>4. row'[DeviceOf(q)].ver \in Nat
      <4>1. \A r \in Row \cup {NoRow} : r.ver \in Nat
        BY DEF Row, NoRow
      <4> QED
        BY <1>1, <3>1, <4>1 DEF TInv, TypeOK, RowTypeOK
    <3> QED
      BY <3>1, <3>2, <3>3, <3>4, Numbers
  <2> QED
    BY <2>3, <2>4 DEF VInv
<1>4. CASE \/ \E t \in Token : Sweep(t) \/ KeepAlive(t) \/ KeepAliveLost(t)
           \/ OrderLost \/ UNCHANGED vars
  <2>1. UNCHANGED <<row, dirty, req>>
    BY <1>4 DEF Sweep, KeepAlive, KeepAliveLost, OrderLost, vars, rowVars
  <2> QED
    BY <2>1 DEF VInv, SeenBehind, RecordsInOrder, Written, RowsAdvance, At, Pending,
                DeviceOf, Ver
<1> QED
  BY <1>2, <1>3, <1>4 DEF Next, Acts, Begins
-----------------------------------------------------------------------------
(* Bills *)

(* A login whose record nobody may settle yet, nor will before it is in *)
Fresh == \A p \in Req : Pending(p) =>
    /\ billed[req[p].rec] = 0
    /\ \A t \in Token : recordKey[t] # req[p].rec
    /\ \A q \in Req : Asked(q) => req[q].rec # req[p].rec
    /\ \A o \in Req \ {p} : Pending(o) => req[o].rec # req[p].rec

(* A record that is settled and still in a charging text is about to leave it *)
BilledCloses == \A r \in 1..Len(record) :
    billed[r] # 0 /\ recordKey[record[r]] = r => Closing(record[r])

(* A logout never has a record ahead of the charging text *)
Behind == \A q \in Req : Asked(q) =>
    recordKey[req[q].tok] = 0 \/ req[q].rec <= recordKey[req[q].tok]

Looked == \A q \in Req : req[q].pc \in {"bill", "settle"} => Session(req[q].tok)

(* No text and no logout of the session's token has a record as late as p's *)
Leads(p) ==
    /\ recordKey[req[p].tok] < req[p].rec
    /\ \A q \in Req : Asked(q) /\ req[q].tok = req[p].tok => req[q].rec < req[p].rec

(* The device has moved on, or is about to, since p saw it *)
Stale(p) == LET d == DeviceOf(p) IN
    \/ row[d] = NoRow \/ Ver(p) < row[d].ver
    \/ \E o \in Req : /\ dirty[d].by = o /\ req[o].kind = "login"
                     /\ Ver(p) < dirty[d].row.ver

(* A login that was overtaken by a later one of its token will be refused *)
Outrun == \A p \in Req : Waits(p) => Leads(p) \/ Stale(p)

Newest == \A p \in Req : At(p, "setRecord") => Leads(p)

RInv == /\ Fresh /\ BilledCloses /\ Behind /\ Looked /\ Outrun /\ Newest
        /\ BilledAgainOnlyAfterRelogin

(* What any step does to the requests, but for the login whose record it   *)
(* creates                                                                 *)
Follows(q) ==
    /\ Pending(q)' => /\ Pending(q) /\ req'[q].tok = req[q].tok
                     /\ req'[q].rec = req[q].rec /\ req'[q].seen = req[q].seen
    /\ Waits(q)' => Waits(q)
    /\ Asked(q)' =>
          \/ Asked(q) /\ req'[q].tok = req[q].tok /\ req'[q].rec = req[q].rec
          \/ /\ req'[q].tok \in Token /\ recordKey[req'[q].tok] # 0
             /\ req'[q].rec = recordKey[req'[q].tok]
    /\ req'[q].pc = "setRecord" => req[q].pc = "setRecord" \/ SetBusy(q)
    /\ req'[q].pc \in {"bill", "settle"} =>
          /\ req'[q].tok = req[q].tok
          /\ req[q].pc \in {"bill", "settle"} \/ Session(req[q].tok)

LEMMA SameFollows ==
  ASSUME TInv, NEW q \in Req, req'[q] = req[q]
  PROVE  Follows(q)
BY DEF Follows, Pending, Waits, Asked

LEMMA ActsFollow ==
  ASSUME TInv, NEW p \in Req, Acts(p), ~CreateRecord(p), ~Crash(p)
  PROVE  \A q \in Req : Follows(q)
<1>1. \A q \in Req \ {p} : Follows(q)
  BY RequestActs, SameFollows
<1>2. Follows(p)
  <2>1. CASE req[p].pc # "idle" /\ req'[p].pc \notin {"idle", "checked"}
    <3>1. req'[p].pc = "setRecord" => SetBusy(p)
      BY <2>1, RequestActs
    <3>2. req'[p].pc \in {"bill", "settle"} =>
             /\ req'[p].tok = req[p].tok
             /\ req[p].pc = "bill" \/ Session(req[p].tok)
      BY <2>1, RequestActs DEF Session
    <3>3. Pending(p)' => /\ Pending(p) /\ req'[p].tok = req[p].tok
                        /\ req'[p].rec = req[p].rec /\ req'[p].seen = req[p].seen
      BY <2>1, RequestActs DEF Pending
    <3>4. Waits(p)' => Waits(p)
      BY <2>1, RequestActs
    <3>5. Asked(p)' => Asked(p) /\ req'[p].tok = req[p].tok /\ req'[p].rec = req[p].rec
      BY <2>1, RequestActs
    <3> QED
      BY <3>1, <3>2, <3>3, <3>4, <3>5 DEF Follows
  <2>2. CASE req'[p].pc \in {"idle", "checked"}
    BY <2>2 DEF Follows, Pending, Waits, Asked
  <2>3. CASE req[p].pc = "idle" /\ req'[p].pc \notin {"idle", "checked"}
    <3>1. /\ req'[p].pc = "lock" /\ req'[p].kind = "logout"
          /\ req'[p].tok \in Token /\ recordKey[req'[p].tok] # 0
          /\ req'[p].rec = recordKey[req'[p].tok]
      BY <2>3, RequestActs
    <3> QED
      BY <2>3, <3>1 DEF Follows, Pending, Waits
  <2> QED
    BY <2>1, <2>2, <2>3
<1> QED
  BY <1>1, <1>2

(* What a login has written is committed, unless its worker dies *)
Keeps == \A d \in Device, o \in Req :
    dirty[d].by = o /\ req[o].kind = "login"
        => \/ row'[d] = dirty[d].row
           \/ dirty'[d] = dirty[d] /\ req'[o].kind = "login"

LEMMA ActsKeep ==
  ASSUME TInv, BInv, VInv, NEW p \in Req, Acts(p), ~Crash(p)
  PROVE  Keeps /\ Grows
<1>1. \A q \in Req \ {p} : req'[q] = req[q]
  BY RequestActs, CreatedLast
<1>2. ASSUME NEW d \in Device, dirty[d].by = p
      PROVE  req[p].pc \in HolderAt
  BY <1>2 DEF BInv, Serves
<1>3. CASE CreateRecord(p)
  <2>1. UNCHANGED <<row, dirty>> /\ req[p].pc = "checked"
    BY <1>3, CreatedLast
  <2> QED
    BY <1>1, <1>2, <2>1, Numbers DEF Keeps, Grows, HolderAt
<1>4. CASE SetBusy(p)
  <2>1. req[p].pc = "state" /\ row' = row
    BY <1>4 DEF SetBusy, At
  <2>2. \A d \in Device : dirty'[d] = dirty[d] \/ dirty[d].by = NoReq
    <3>1. CASE req'[p].pc = "setRecord"
      BY <1>4, <3>1, SetBusyRow
    <3>2. CASE req'[p].pc # "setRecord"
      <4>1. ~Goto(p, "setRecord")
        BY <3>2, "setRecord" \in Label, Moves DEF Label
      <4> QED
        BY <1>4, <4>1 DEF SetBusy
    <3> QED
      BY <3>1, <3>2
  <2>3. \A d \in Device : dirty[d].by # p
    BY <1>2, <2>1 DEF HolderAt
  <2> QED
    BY <1>1, <2>1, <2>2, <2>3, Numbers, ReqAssumption DEF Keeps, Grows
<1>5. CASE ~CreateRecord(p) /\ ~SetBusy(p)
  <2>1. /\ \A d \in Device : dirty[d].by \in Req \ {p} => dirty'[d] = dirty[d]
        /\ \/ UNCHANGED <<row, dirty>>
           \/ Commit(p)
           \/ Rollback(p) /\ Settle(p)
           \/ /\ row' = row
              /\ \A d \in Device : dirty'[d] = dirty[d] \/ dirty[d].by = NoReq
    BY <1>5, RowActs
  <2>2. Grows
    BY <2>1, EndGrows, Numbers DEF Grows
  <2>3. ASSUME NEW d \in Device, dirty[d].by = p, req[p].kind = "login"
        PROVE  row'[d] = dirty[d].row \/ (dirty'[d] = dirty[d] /\ req'[p].kind = "login")
    <3>1. req'[p].kind = "login"
      BY <1>2, <1>5, <2>3, RequestActs DEF HolderAt
    <3>2. ~Settle(p)
      BY <2>3 DEF Settle, At, TInv, Placed, LogoutAt
    <3> QED
      BY <2>1, <2>3, <3>1, <3>2, ReqAssumption DEF Commit
  <2>4. Keeps
    BY <1>1, <2>1, <2>3 DEF Keeps
  <2> QED
    BY <2>2, <2>4
<1> QED
  BY <1>3, <1>4, <1>5

LEMMA StaleStays ==
  ASSUME TInv, RowTypeOK', Keeps, Grows, NEW q \in Req, Pending(q), Stale(q),
         req'[q].tok = req[q].tok, req'[q].seen = req[q].seen
  PROVE  Stale(q)'
<1> DEFINE d == DeviceOf(q)
<1>1. d \in Device /\ DeviceOf(q)' = d /\ Ver(q)' = Ver(q)
  BY PendingServes DEF DeviceOf, Ver
<1>2. row'[d].ver \in Nat
  <2>1. \A r \in Row \cup {NoRow} : r.ver \in Nat
    BY DEF Row, NoRow
  <2> QED
    BY <1>1, <2>1 DEF RowTypeOK
<1>3. row'[d] = NoRow \/ (row[d] # NoRow /\ row[d].ver <= row'[d].ver)
  BY <1>1 DEF Grows
<1>4. CASE row[d] = NoRow \/ Ver(q) < row[d].ver
  <2>1. row'[d] = NoRow \/ Ver(q) < row'[d].ver
    BY <1>1, <1>2, <1>3, <1>4, Numbers
  <2> QED
    BY <1>1, <2>1 DEF Stale
<1>5. CASE \E o \in Req : /\ dirty[d].by = o /\ req[o].kind = "login"
                        /\ Ver(q) < dirty[d].row.ver
  <2>1. PICK o \in Req : /\ dirty[d].by = o /\ req[o].kind = "login"
                         /\ Ver(q) < dirty[d].row.ver
    BY <1>5
  <2>2. \/ row'[d] = dirty[d].row
        \/ dirty'[d] = dirty[d] /\ req'[o].kind = "login"
    BY <1>1, <2>1 DEF Keeps
  <2>3. \/ Ver(q) < row'[d].ver
        \/ \E w \in Req : /\ dirty'[d].by = w /\ req'[w].kind = "login"
                         /\ Ver(q) < dirty'[d].row.ver
    BY <2>1, <2>2
  <2> QED
    BY <1>1, <2>3 DEF Stale
<1> QED
  BY <1>4, <1>5 DEF Stale

(* A login that finds its version has been overtaken by nobody *)
LEMMA SetBusyLeads ==
  ASSUME TInv, BInv, RInv, NEW p \in Req, SetBusy(p), req'[p].pc = "setRecord"
  PROVE  Leads(p)
<1>1. Waits(p)
  BY DEF SetBusy, At, TInv, Placed, LoginAt, Waits, Pending
<1>2. ~Stale(p)
  BY SetBusyRow, Numbers, ReqAssumption DEF Stale
<1> QED
  BY <1>1, <1>2 DEF RInv, Outrun

LEMMA ActsClose ==
  ASSUME TInv, NEW p \in Req, Acts(p), ~DelRecordKey(p), ~Crash(p), ~LogoutRaises(p),
         NEW t, Closing(t)
  PROVE  Closing(t)'
<1>1. req[p].pc # "delRecord"
  BY DEF Acts, Begins, CheckLogin, AskLogout, Deliver, ReadCharging,
         Step, Lock, EnterLock, FailLock, GiveUp, LeaveLock,
         Login, CreateRecord, SetBusy, SetRecordKey, SetUserKey, SetDeviceKeys,
         Logout, Recheck, SetReleased, Settle, DelUserKey, DelDeviceKeys, Teardown,
         Raises, LoginRaises, At
<1>2. \A q \in Req \ {p} : req'[q] = req[q]
  BY RequestActs, CreatedLast
<1> QED
  BY <1>1, <1>2 DEF Closing, At

LEMMA KeyNumbers ==
  ASSUME TInv
  PROVE  \A t \in Token : recordKey[t] \in Nat /\ recordKey[t] <= Len(record)
BY DEF TInv, TypeOK, KeysPlaced, RecordOf

(* Nobody overtakes p by reading the charging text *)
LEMMA LeadsStays ==
  ASSUME TInv, \A o \in Req : Follows(o), NEW q \in Req, Leads(q), req[q].tok \in Token,
         req'[q].tok = req[q].tok, req'[q].rec = req[q].rec,
         recordKey'[req[q].tok] < req[q].rec
  PROVE  Leads(q)'
<1>1. ASSUME NEW o \in Req, Asked(o)', req'[o].tok = req[q].tok
      PROVE  req'[o].rec < req[q].rec
  <2>1. CASE Asked(o) /\ req'[o].tok = req[o].tok /\ req'[o].rec = req[o].rec
    BY <1>1, <2>1 DEF Leads
  <2>2. CASE req'[o].rec = recordKey[req'[o].tok]
    BY <1>1, <2>2 DEF Leads
  <2> QED
    BY <1>1, <2>1, <2>2 DEF Follows
<1> QED
  BY <1>1 DEF Leads

LEMMA FreshStays ==
  ASSUME TInv, RInv, \A o \in Req : Follows(o),
         \A q \in Req : Pending(q)' => /\ billed'[req[q].rec] = 0
                                     /\ \A t \in Token : recordKey'[t] # req[q].rec
  PROVE  Fresh'
<1> SUFFICES ASSUME NEW q \in Req, Pending(q)'
             PROVE  /\ billed'[req'[q].rec] = 0
                    /\ \A t \in Token : recordKey'[t] # req'[q].rec
                    /\ \A o \in Req : Asked(o)' => req'[o].rec # req'[q].rec
                    /\ \A o \in Req \ {q} : Pending(o)' => req'[o].rec # req'[q].rec
  BY DEF Fresh
<1>1. Pending(q) /\ req'[q].rec = req[q].rec
  BY DEF Follows
<1>2. \A o \in Req : Asked(o)' => req'[o].rec # req[q].rec
  BY <1>1 DEF Follows, RInv, Fresh
<1>3. \A o \in Req \ {q} : Pending(o)' => req'[o].rec # req[q].rec
  BY <1>1 DEF Follows, RInv, Fresh
<1> QED
  BY <1>1, <1>2, <1>3

(* The order of the records, while no record key is set *)
LEMMA OrderStays ==
  ASSUME TInv, TInv', RInv, Keeps, Grows, \A o \in Req : Follows(o),
         \A q \in Req : SetBusy(q) /\ req'[q].pc = "setRecord" => Leads(q),
         \A t \in Token : recordKey'[t] = recordKey[t] \/ recordKey'[t] = 0
  PROVE  Behind' /\ Outrun' /\ Newest'
<1>1. ASSUME NEW q \in Req, Pending(q)', Leads(q) PROVE Leads(q)'
  <2>1. /\ req'[q].tok = req[q].tok /\ req'[q].rec = req[q].rec
        /\ req[q].tok \in Token /\ req[q].rec \in Nat /\ req[q].rec >= 1
    BY <1>1, PendingServes DEF Follows, RecordOf
  <2>2. recordKey'[req[q].tok] < req[q].rec
    BY <1>1, <2>1, KeyNumbers DEF Leads
  <2> QED
    BY <1>1, <2>1, <2>2, LeadsStays
<1>2. Behind'
  <2> SUFFICES ASSUME NEW q \in Req, Asked(q)', recordKey'[req'[q].tok] # 0
               PROVE  req'[q].rec <= recordKey'[req'[q].tok]
    BY DEF Behind
  <2>1. req'[q].tok \in Token
    BY DEF Asked, TInv, Placed
  <2>2. recordKey'[req'[q].tok] = recordKey[req'[q].tok] /\ recordKey[req'[q].tok] \in Nat
    BY <2>1, KeyNumbers
  <2>3. CASE Asked(q) /\ req'[q].tok = req[q].tok /\ req'[q].rec = req[q].rec
    BY <2>2, <2>3 DEF RInv, Behind
  <2>4. CASE req'[q].rec = recordKey[req'[q].tok]
    BY <2>2, <2>4
  <2> QED
    BY <2>3, <2>4 DEF Follows
<1>3. Outrun'
  <2> SUFFICES ASSUME NEW q \in Req, Waits(q)'
               PROVE  Leads(q)' \/ Stale(q)'
    BY DEF Outrun
  <2>1. Pending(q)' /\ Waits(q) /\ Pending(q)
    BY DEF Follows, Waits
  <2>2. req'[q].tok = req[q].tok /\ req'[q].seen = req[q].seen
    BY <2>1 DEF Follows
  <2>3. RowTypeOK'
    BY DEF TInv, TypeOK
  <2> QED
    BY <1>1, <2>1, <2>2, <2>3, StaleStays DEF RInv, Outrun
<1>4. Newest'
  <2> SUFFICES ASSUME NEW q \in Req, At(q, "setRecord")'
               PROVE  Leads(q)'
    BY DEF Newest
  <2>1. Leads(q)
    BY DEF At, Follows, RInv, Newest
  <2>2. Pending(q)'
    BY DEF At, TInv, Placed, LoginAt, Pending
  <2> QED
    BY <1>1, <2>1, <2>2
<1> QED
  BY <1>2, <1>3, <1>4

LEMMA QuietBills ==
  ASSUME TInv, TInv', RInv, Keeps, Grows, \A o \in Req : Follows(o),
         \A q \in Req : SetBusy(q) /\ req'[q].pc = "setRecord" => Leads(q),
         \A t : Closing(t) => Closing(t)',
         UNCHANGED <<recordKey, record, billed>>
  PROVE  RInv'
<1>1. Behind' /\ Outrun' /\ Newest'
  BY OrderStays
<1>2. Fresh'
  BY FreshStays DEF Follows, RInv, Fresh
<1>3. BilledCloses'
  BY DEF RInv, BilledCloses
<1>4. Looked'
  BY DEF Follows, RInv, Looked, Session
<1>5. BilledAgainOnlyAfterRelogin'
  BY DEF RInv, BilledAgainOnlyAfterRelogin
<1> QED
  BY <1>1, <1>2, <1>3, <1>4, <1>5 DEF RInv

LEMMA SetRecordKeyBills ==
  ASSUME TInv, TInv', Held, VInv, RInv, Keeps, Grows, \A o \in Req : Follows(o),
         \A t : Closing(t) => Closing(t)', NEW p \in Req, SetRecordKey(p)
  PROVE  RInv'
<1> DEFINE t == req[p].tok
           n == req[p].rec
<1>1. /\ req[p].pc = "setRecord" /\ UNCHANGED <<record, billed>>
      /\ t \in Token /\ RecordOf(n, t) /\ n \in Nat /\ n >= 1
      /\ Pending(p) /\ Leads(p)
  BY DEF SetRecordKey, recVars, At, TInv, Placed, LoginAt, Pending, RInv, Newest, RecordOf
<1>2. recordKey'[t] = n /\ \A o \in Token \ {t} : recordKey'[o] = recordKey[o]
  BY <1>1 DEF SetRecordKey, TInv, TypeOK
<1>3. /\ req'[p].pc = "setUser" /\ \A q \in Req \ {p} : req'[q] = req[q]
      /\ req'[p].tok = t
  BY "setUser" \in Label, Moves DEF SetRecordKey, Label
<1>4. Fresh'
  <2> SUFFICES ASSUME NEW q \in Req, Pending(q)'
               PROVE  /\ billed'[req[q].rec] = 0
                      /\ \A o \in Token : recordKey'[o] # req[q].rec
    BY FreshStays
  <2>1. q # p /\ Pending(q)
    BY <1>3 DEF Pending
  <2>2. req[q].rec # n
    BY <1>1, <2>1 DEF RInv, Fresh
  <2> QED
    BY <1>1, <1>2, <2>1, <2>2 DEF RInv, Fresh
<1>5. BilledCloses'
  <2> SUFFICES ASSUME NEW r \in 1..Len(record), billed[r] # 0, recordKey'[record[r]] = r
               PROVE  Closing(record[r])'
    BY <1>1 DEF BilledCloses
  <2>1. record[r] \in Token
    BY DEF TInv, TypeOK
  <2>2. r # n
    BY <1>1 DEF RInv, Fresh
  <2>3. recordKey[record[r]] = r
    BY <1>2, <2>1, <2>2
  <2>4. Closing(record[r])
    BY <2>3 DEF RInv, BilledCloses
  <2> QED
    BY <1>1, <2>4 DEF Closing
<1>6. Behind'
  <2> SUFFICES ASSUME NEW q \in Req, Asked(q)'
               PROVE  recordKey'[req'[q].tok] = 0 \/ req'[q].rec <= recordKey'[req'[q].tok]
    BY DEF Behind
  <2>1. q # p /\ req'[q] = req[q] /\ Asked(q) /\ req[q].tok \in Token
    <3>1. q # p
      BY <1>3 DEF Asked
    <3> QED
      BY <1>3, <3>1 DEF Asked, TInv, Placed
  <2>2. CASE req[q].tok = t
    <3>1. req[q].rec < n
      BY <1>1, <2>1, <2>2 DEF Leads
    <3> QED
      BY <1>1, <1>2, <2>1, <2>2, <3>1, Numbers
  <2>3. CASE req[q].tok # t
    BY <1>2, <2>1, <2>3 DEF RInv, Behind
  <2> QED
    BY <2>2, <2>3
<1>7. Looked'
  <2> SUFFICES ASSUME NEW q \in Req, req'[q].pc \in {"bill", "settle"}
               PROVE  recordKey'[req'[q].tok] # 0
    BY DEF Looked, Session
  <2>1. req'[q] = req[q] /\ recordKey[req[q].tok] # 0 /\ req[q].tok \in Token
    BY <1>3 DEF RInv, Looked, Session, TInv, Placed
  <2> QED
    BY <1>1, <1>2, <2>1
<1>8. ASSUME NEW q \in Req, Pending(q)', Leads(q), req[q].tok = t => n < req[q].rec
      PROVE  Leads(q)'
  <2>1. req'[q].tok = req[q].tok /\ req'[q].rec = req[q].rec /\ req[q].tok \in Token
    BY <1>8, PendingServes DEF Follows
  <2>2. recordKey'[req[q].tok] < req[q].rec
    BY <1>2, <1>8, <2>1 DEF Leads
  <2> QED
    BY <1>8, <2>1, <2>2, LeadsStays
<1>9. Newest'
  <2> SUFFICES ASSUME NEW q \in Req, At(q, "setRecord")'
               PROVE  Leads(q)'
    BY DEF Newest
  <2>1. q # p /\ At(q, "setRecord")
    <3>1. q # p
      BY <1>3 DEF At
    <3> QED
      BY <1>3, <3>1 DEF At
  <2>2. Pending(q)' /\ Leads(q)
    BY <2>1 DEF At, TInv, Placed, LoginAt, Pending, RInv, Newest
  <2>3. req[q].tok # t
    <3>1. Inside(q) /\ Inside(p)
      BY <1>1, <2>1 DEF Inside, LoginAt, At
    <3> QED
      BY <2>1, <3>1, Alone DEF UserOf
  <2> QED
    BY <1>8, <2>2, <2>3
<1>10. Outrun'
  <2> SUFFICES ASSUME NEW q \in Req, Waits(q)'
               PROVE  Leads(q)' \/ Stale(q)'
    BY DEF Outrun
  <2>1. Pending(q)' /\ Waits(q) /\ Pending(q)
    BY DEF Follows, Waits
  <2>2. /\ req'[q].tok = req[q].tok /\ req'[q].seen = req[q].seen /\ req'[q].rec = req[q].rec
        /\ q # p
    BY <1>1, <2>1 DEF Follows, Waits
  <2>3. RowTypeOK'
    BY DEF TInv, TypeOK
  <2>4. Stale(q) => Stale(q)'
    BY <2>1, <2>2, <2>3, StaleStays
  <2>5. CASE req[q].tok = t /\ ~(n < req[q].rec)
    <3>1. req[q].rec # n
      BY <1>1, <2>1, <2>2 DEF RInv, Fresh
    <3>2. req[q].rec < n
      BY <2>5, <3>1, Numbers
    <3>3. DeviceOf(q) = DeviceOf(p) /\ DeviceOf(p) \in Device
      BY <1>1, <2>5 DEF DeviceOf, Token
    <3>4. Ver(q) <= Ver(p)
      BY <1>1, <2>1, <3>2, <3>3 DEF VInv, RecordsInOrder
    <3>5. dirty[DeviceOf(p)].by = p /\ Ver(p) < dirty[DeviceOf(p)].row.ver
      BY <1>1 DEF VInv, Written, At
    <3>6. Ver(q) < dirty[DeviceOf(q)].row.ver
      BY <3>3, <3>4, <3>5, Numbers
    <3>7. Stale(q)
      BY <1>1, <3>3, <3>5, <3>6 DEF Stale, Pending
    <3> QED
      BY <2>4, <3>7
  <2>6. CASE req[q].tok = t => n < req[q].rec
    BY <1>8, <2>1, <2>4, <2>6 DEF RInv, Outrun
  <2> QED
    BY <2>5, <2>6
<1>11. BilledAgainOnlyAfterRelogin'
  BY <1>1 DEF RInv, BilledAgainOnlyAfterRelogin
<1> QED
  BY <1>4, <1>5, <1>6, <1>7, <1>9, <1>10, <1>11 DEF RInv

LEMMA SettleBills ==
  ASSUME TInv, TInv', Held, RInv, Keeps, Grows, \A o \in Req : Follows(o),
         \A q \in Req : SetBusy(q) /\ req'[q].pc = "setRecord" => Leads(q),
         \A t : Closing(t) => Closing(t)', NEW p \in Req, Settle(p)
  PROVE  RInv'
<1> DEFINE t == req[p].tok
           n == req[p].rec
<1>1. /\ req[p].pc = "settle" /\ UNCHANGED <<recordKey, record>>
      /\ t \in Token /\ n \in 1..Len(record) /\ record[n] = t
      /\ Asked(p)
  BY DEF Settle, keyVars, At, TInv, Placed, LogoutAt, Asked, RecordOf
<1>2. CASE UNCHANGED billed
  BY <1>1, <1>2, QuietBills
<1>3. CASE billed' = [billed EXCEPT ![n] = @ + 1] /\ Goto(p, "delRecord")
  <2>1. /\ billed'[n] = billed[n] + 1 /\ billed[n] \in Nat
        /\ \A r \in 1..Len(record) : r # n => billed'[r] = billed[r]
    BY <1>1, <1>3 DEF TInv
  <2>2. Behind' /\ Outrun' /\ Newest'
    BY <1>1, OrderStays
  <2>3. Fresh'
    <3> SUFFICES ASSUME NEW q \in Req, Pending(q)'
                 PROVE  /\ billed'[req[q].rec] = 0
                        /\ \A o \in Token : recordKey'[o] # req[q].rec
      BY FreshStays
    <3>1. Pending(q) /\ req[q].rec \in 1..Len(record)
      BY PendingServes DEF Follows, RecordOf
    <3>2. req[q].rec # n
      BY <1>1, <3>1 DEF RInv, Fresh
    <3> QED
      BY <1>1, <2>1, <3>1, <3>2 DEF RInv, Fresh
  <2>4. BilledCloses'
    <3> SUFFICES ASSUME NEW r \in 1..Len(record), billed'[r] # 0, recordKey[record[r]] = r
                 PROVE  Closing(record[r])'
      BY <1>1 DEF BilledCloses
    <3>1. CASE r = n
      <4>1. req'[p].pc = "delRecord" /\ req'[p].tok = t
        BY <1>3, "delRecord" \in Label, Moves DEF Label
      <4> QED
        BY <1>1, <3>1, <4>1 DEF Closing, At
    <3>2. CASE r # n
      <4>1. Closing(record[r])
        BY <2>1, <3>2 DEF RInv, BilledCloses
      <4> QED
        BY <1>1, <4>1 DEF Closing
    <3> QED
      BY <3>1, <3>2
  <2>5. Looked'
    BY <1>1 DEF Follows, RInv, Looked, Session
  <2>6. ASSUME billed[n] # 0
        PROVE  \E s \in DOMAIN record : s > n /\ record[s] = t
    <3>1. recordKey[t] # 0 /\ n <= recordKey[t]
      BY <1>1 DEF RInv, Looked, Session, Behind
    <3>2. recordKey[t] # n
      <4>1. ASSUME NEW q \in Req, At(q, "delRecord"), req[q].tok = t PROVE FALSE
        <5>1. Inside(q) /\ Inside(p)
          BY <1>1, <4>1 DEF Inside, LogoutAt, LoginAt, At
        <5> QED
          BY <1>1, <4>1, <5>1, Alone DEF UserOf, At
      <4> QED
        BY <1>1, <2>6, <4>1 DEF RInv, BilledCloses, Closing
    <3>3. recordKey[t] \in 1..Len(record) /\ record[recordKey[t]] = t
      BY <1>1, <3>1 DEF TInv, KeysPlaced, RecordOf
    <3>4. recordKey[t] > n /\ recordKey[t] \in DOMAIN record
      <4>1. DOMAIN record = 1..Len(record) /\ Len(record) \in Nat
        BY DEF TInv, TypeOK
      <4> QED
        BY <1>1, <3>1, <3>2, <3>3, <4>1
    <3> QED
      BY <3>3, <3>4
  <2>7. BilledAgainOnlyAfterRelogin'
    <3> SUFFICES ASSUME NEW r \in DOMAIN record, billed'[r] > 1
                 PROVE  \E s \in DOMAIN record : s > r /\ record[s] = record[r]
      BY <1>1 DEF BilledAgainOnlyAfterRelogin
    <3>1. CASE r = n
      BY <1>1, <2>1, <2>6, <3>1
    <3>2. CASE r # n
      <4>1. r \in 1..Len(record)
        BY DEF TInv, TypeOK
      <4>2. billed'[r] = billed[r]
        BY <2>1, <3>2, <4>1
      <4> QED
        BY <4>2 DEF RInv, BilledAgainOnlyAfterRelogin
    <3> QED
      BY <3>1, <3>2
  <2> QED
    BY <2>2, <2>3, <2>4, <2>5, <2>7 DEF RInv
<1> QED
  BY <1>2, <1>3 DEF Settle

LEMMA DelRecordKeyBills ==
  ASSUME TInv, TInv', Held, RInv, Keeps, Grows, \A o \in Req : Follows(o),
         \A q \in Req : SetBusy(q) /\ req'[q].pc = "setRecord" => Leads(q),
         NEW p \in Req, DelRecordKey(p)
  PROVE  RInv'
<1> DEFINE t == req[p].tok
<1>1. /\ req[p].pc = "delRecord" /\ UNCHANGED <<record, billed>> /\ t \in Token
      /\ \A q \in Req \ {p} : req'[q] = req[q]
  BY "delUser" \in Label, Moves DEF DelRecordKey, recVars, At, TInv, Placed, Label
<1>2. recordKey'[t] = 0 /\ \A o \in Token \ {t} : recordKey'[o] = recordKey[o]
  BY <1>1 DEF DelRecordKey, TInv, TypeOK
<1>3. Behind' /\ Outrun' /\ Newest'
  BY <1>2, OrderStays
<1>4. Fresh'
  <2> SUFFICES ASSUME NEW q \in Req, Pending(q)'
               PROVE  /\ billed'[req[q].rec] = 0
                      /\ \A o \in Token : recordKey'[o] # req[q].rec
    BY FreshStays
  <2>1. Pending(q) /\ req[q].rec # 0
    BY PendingServes DEF Follows, RecordOf
  <2> QED
    BY <1>1, <1>2, <2>1 DEF RInv, Fresh
<1>5. BilledCloses'
  <2> SUFFICES ASSUME NEW r \in 1..Len(record), billed[r] # 0, recordKey'[record[r]] = r
               PROVE  Closing(record[r])'
    BY <1>1 DEF BilledCloses
  <2>1. record[r] \in Token
    BY DEF TInv, TypeOK
  <2>2. record[r] # t /\ recordKey[record[r]] = r
    BY <1>2, <2>1
  <2>3. PICK q \in Req : At(q, "delRecord") /\ req[q].tok = record[r]
    BY <2>2 DEF RInv, BilledCloses, Closing
  <2>4. q # p
    BY <2>2, <2>3
  <2> QED
    BY <1>1, <2>3, <2>4 DEF Closing, At
<1>6. Looked'
  <2> SUFFICES ASSUME NEW q \in Req, req'[q].pc \in {"bill", "settle"}
               PROVE  recordKey'[req'[q].tok] # 0
    BY DEF Looked, Session
  <2>1. q # p /\ req'[q] = req[q]
    <3>1. q # p
      BY "delUser" \in Label, Moves DEF DelRecordKey, Label
    <3> QED
      BY <1>1, <3>1
  <2>2. req[q].tok # t
    <3>1. Inside(q) /\ Inside(p)
      BY <1>1, <2>1 DEF Inside, LogoutAt, LoginAt
    <3> QED
      BY <2>1, <3>1, Alone DEF UserOf
  <2>3. req[q].tok \in Token /\ recordKey[req[q].tok] # 0
    BY <2>1 DEF RInv, Looked, Session, TInv, Placed
  <2> QED
    BY <1>2, <2>1, <2>2, <2>3
<1>7. BilledAgainOnlyAfterRelogin'
  BY <1>1 DEF RInv, BilledAgainOnlyAfterRelogin
<1> QED
  BY <1>3, <1>4, <1>5, <1>6, <1>7 DEF RInv

LEMMA CreateRecordBills ==
  ASSUME TInv, TInv', RInv, Keeps, Grows, NEW p \in Req, CreateRecord(p)
  PROVE  RInv'
<1> DEFINE n == Len(record) + 1
           t == req[p].tok
<1>1. /\ UNCHANGED recordKey /\ \A q \in Req \ {p} : req'[q] = req[q]
      /\ req'[p].kind = "login" /\ req'[p].pc \in {"lock", "end"}
      /\ req'[p].tok = t /\ req'[p].rec = n /\ t \in Token
      /\ record' = Append(record, t) /\ billed' = Append(billed, 0)
  BY CreatedLast
<1>2. /\ Len(record) \in Nat /\ DOMAIN record = 1..Len(record)
      /\ Len(record') = n /\ DOMAIN record' = 1..n
      /\ billed'[n] = 0
      /\ \A r \in 1..Len(record) : record'[r] = record[r] /\ billed'[r] = billed[r]
  BY <1>1 DEF TInv, TypeOK
<1>3. \A q \in Req \ {p} :
         /\ Pending(q)' = Pending(q) /\ Waits(q)' = Waits(q) /\ Asked(q)' = Asked(q)
         /\ At(q, "setRecord")' = At(q, "setRecord")
  BY <1>1 DEF Pending, Waits, Asked, At
<1>4. ~Asked(p)' /\ ~At(p, "setRecord")'
  BY <1>1 DEF Asked, At
<1>5. \A q \in Req : Asked(q) \/ Pending(q) => req[q].rec \in 1..Len(record)
  BY DEF Asked, Pending, TInv, Placed, RecordOf
<1>6. Fresh'
  <2> SUFFICES ASSUME NEW q \in Req, Pending(q)'
               PROVE  /\ billed'[req'[q].rec] = 0
                      /\ \A o \in Token : recordKey'[o] # req'[q].rec
                      /\ \A o \in Req : Asked(o)' => req'[o].rec # req'[q].rec
                      /\ \A o \in Req \ {q} : Pending(o)' => req'[o].rec # req'[q].rec
    BY DEF Fresh
  <2>1. CASE q = p
    <3>1. \A o \in Token : recordKey[o] # n
      BY <1>2, KeyNumbers
    <3>2. \A o \in Req : Asked(o)' => req'[o].rec # n
      BY <1>1, <1>2, <1>3, <1>4, <1>5
    <3>3. \A o \in Req \ {q} : Pending(o)' => req'[o].rec # n
      BY <1>1, <1>2, <1>3, <1>5, <2>1
    <3> QED
      BY <1>1, <1>2, <2>1, <3>1, <3>2, <3>3
  <2>2. CASE q # p
    <3>1. Pending(q) /\ req'[q] = req[q] /\ req[q].rec \in 1..Len(record)
      BY <1>1, <1>3, <1>5, <2>2
    <3>2. billed'[req[q].rec] = 0 /\ \A o \in Token : recordKey'[o] # req[q].rec
      BY <1>1, <1>2, <3>1 DEF RInv, Fresh
    <3>3. \A o \in Req : Asked(o)' => req'[o].rec # req[q].rec
      BY <1>1, <1>3, <1>4, <3>1 DEF RInv, Fresh
    <3>4. \A o \in Req \ {q} : Pending(o)' => req'[o].rec # req[q].rec
      BY <1>1, <1>2, <1>3, <3>1 DEF RInv, Fresh
    <3> QED
      BY <3>1, <3>2, <3>3, <3>4
  <2> QED
    BY <2>1, <2>2
<1>7. BilledCloses'
  <2> SUFFICES ASSUME NEW r \in 1..n, billed'[r] # 0, recordKey[record'[r]] = r
               PROVE  \E q \in Req : req'[q].pc = "delRecord" /\ req'[q].tok = record'[r]
    BY <1>1, <1>2 DEF BilledCloses, Closing, At
  <2>1. r \in 1..Len(record)
    BY <1>2
  <2>2. PICK q \in Req : At(q, "delRecord") /\ req[q].tok = record[r]
    BY <1>2, <2>1 DEF RInv, BilledCloses, Closing
  <2>3. q # p
    BY <2>2, CreatedLast DEF At
  <2> QED
    BY <1>1, <1>2, <2>1, <2>2, <2>3 DEF At
<1>8. Behind' /\ Looked'
  <2>1. Behind'
    BY <1>1, <1>3, <1>4 DEF RInv, Behind
  <2>2. Looked'
    BY <1>1 DEF RInv, Looked, Session
  <2> QED
    BY <2>1, <2>2
<1>9. \A q \in Req \ {p} : Leads(q) => Leads(q)'
  BY <1>1, <1>3, <1>4 DEF Leads
<1>10. Leads(p)'
  <2>1. recordKey[t] < n
    BY <1>1, <1>2, KeyNumbers
  <2>2. \A q \in Req : Asked(q)' => req'[q].rec < n
    BY <1>1, <1>2, <1>3, <1>4, <1>5
  <2> QED
    BY <1>1, <2>1, <2>2 DEF Leads
<1>11. Outrun' /\ Newest'
  <2>1. ASSUME NEW q \in Req, Waits(q)' PROVE Leads(q)' \/ Stale(q)'
    <3>1. CASE q = p
      BY <1>10, <3>1
    <3>2. CASE q # p
      <4>1. Waits(q) /\ Pending(q) /\ req'[q].tok = req[q].tok /\ req'[q].seen = req[q].seen
        BY <1>1, <1>3, <2>1, <3>2 DEF Waits
      <4>2. RowTypeOK'
        BY DEF TInv, TypeOK
      <4>3. Stale(q) => Stale(q)'
        BY <4>1, <4>2, StaleStays
      <4> QED
        BY <1>9, <3>2, <4>1, <4>3 DEF RInv, Outrun
    <3> QED
      BY <3>1, <3>2
  <2>2. ASSUME NEW q \in Req, At(q, "setRecord")' PROVE Leads(q)'
    BY <1>3, <1>4, <1>9, <2>2 DEF RInv, Newest
  <2> QED
    BY <2>1, <2>2 DEF Outrun, Newest
<1>12. BilledAgainOnlyAfterRelogin'
  <2> SUFFICES ASSUME NEW r \in 1..n, billed'[r] > 1
               PROVE  \E s \in 1..n : s > r /\ record'[s] = record'[r]
    BY <1>2 DEF BilledAgainOnlyAfterRelogin
  <2>1. r \in 1..Len(record)
    BY <1>2
  <2>2. PICK s \in 1..Len(record) : s > r /\ record[s] = record[r]
    BY <1>2, <2>1 DEF RInv, BilledAgainOnlyAfterRelogin
  <2> QED
    BY <1>2, <2>1, <2>2
<1> QED
  BY <1>6, <1>7, <1>8, <1>11, <1>12 DEF RInv

LEMMA ActsBills ==
  ASSUME TInv, TInv', Held, BInv, VInv, RInv, NEW p \in Req, Acts(p), ~Crash(p), ~LogoutRaises(p)
  PROVE  RInv'
<1>1. Keeps /\ Grows
  BY ActsKeep
<1>2. CASE CreateRecord(p)
  BY <1>1, <1>2, CreateRecordBills
<1>3. CASE ~CreateRecord(p)
  <2>1. \A q \in Req : Follows(q)
    BY <1>3, ActsFollow
  <2>2. ASSUME NEW q \in Req, SetBusy(q), req'[q].pc = "setRecord" PROVE Leads(q)
    BY <2>2, SetBusyLeads
  <2>3. CASE DelRecordKey(p)
    BY <1>1, <2>1, <2>2, <2>3, DelRecordKeyBills
  <2>4. CASE ~DelRecordKey(p)
    <3>1. \A t : Closing(t) => Closing(t)'
      BY <2>4, ActsClose
    <3>2. CASE SetRecordKey(p)
      BY <1>1, <2>1, <3>1, <3>2, SetRecordKeyBills
    <3>3. CASE Settle(p)
      BY <1>1, <2>1, <2>2, <3>1, <3>3, SettleBills
    <3>4. CASE ~SetRecordKey(p) /\ ~Settle(p)
      <4>1. UNCHANGED <<recordKey, record, billed>>
        BY <1>3, <2>4, <3>4
           DEF Acts, Begins, CheckLogin, AskLogout, Deliver,
               Step, Lock, EnterLock, FailLock, GiveUp, LeaveLock,
               Login, SetBusy, SetUserKey, SetDeviceKeys,
               Logout, Recheck, SetReleased, DelUserKey, DelDeviceKeys, Teardown,
               Raises, LoginRaises, keyVars, recVars
      <4> QED
        BY <1>1, <2>1, <2>2, <3>1, <4>1, QuietBills
    <3> QED
      BY <3>2, <3>3, <3>4
  <2> QED
    BY <2>3, <2>4
<1> QED
  BY <1>2, <1>3

LEMMA RInvInductive ==
  TInv /\ Held /\ BInv /\ VInv /\ (crashes = 0 => RInv) /\ [Next]_vars
      => (crashes = 0 => RInv)'
<1> SUFFICES ASSUME TInv, Held, BInv, VInv, crashes = 0 => RInv, [Next]_vars, crashes' = 0
             PROVE  RInv'
  OBVIOUS
<1>1. TInv'
  BY TInvInductive
<1>2. ASSUME NEW p \in Req, Acts(p) PROVE RInv'
  <2>1. ~Crash(p) /\ ~LogoutRaises(p)
    BY SessionAssumption DEF Crash, LogoutRaises, TInv, TypeOK
  <2>2. crashes' = crashes
    BY <1>2, <2>1
       DEF Acts, Begins, CheckLogin, AskLogout, Deliver,
           Step, Lock, EnterLock, FailLock, GiveUp, LeaveLock,
           Login, CreateRecord, SetBusy, SetRecordKey, SetUserKey, SetDeviceKeys,
           Logout, Recheck, SetReleased, Settle, DelRecordKey, DelUserKey, DelDeviceKeys,
           Teardown, Raises, LoginRaises, countVars
  <2> QED
    BY <1>1, <1>2, <2>1, <2>2, ActsBills
<1>3. CASE World \/ UNCHANGED vars
  <2>1. UNCHANGED <<dirty, req, recordKey, record, billed, crashes>>
    BY <1>3 DEF World, Maintain, SelfCheckDone, UpdateWaits, DeleteDevice,
                Sweep, KeepAlive, KeepAliveLost, OrderLost, vars, rowVars, keyVars, recVars,
                countVars
  <2>2. Grows
    <3>1. CASE UNCHANGED row
      BY <3>1, Numbers DEF Grows
    <3>2. CASE \E d \in Device : Maintain(d)
      BY <3>2, MaintainGrows
    <3> QED
      BY <1>3, <3>1, <3>2 DEF World, Sweep, KeepAlive, KeepAliveLost, OrderLost, vars, rowVars
  <2>3. Keeps
    BY <2>1 DEF Keeps
  <2>4. \A q \in Req : Follows(q)
    BY <2>1, SameFollows
  <2>5. \A q \in Req : ~(SetBusy(q) /\ req'[q].pc = "setRecord")
    BY <2>1 DEF SetBusy, At
  <2>6. \A t : Closing(t) => Closing(t)'
    BY <2>1 DEF Closing, At
  <2> QED
    BY <1>1, <2>1, <2>2, <2>3, <2>4, <2>5, <2>6, QuietBills
<1> QED
  BY <1>2, <1>3 DEF Next, World, Acts, Begins

(* Until a worker dies or redis breaks a logout off between its bill and   *)
(* its keys, a use record is only billed again once the same player has    *)
(* come back to the same device, for any number of players, devices and    *)
(* requests: logouts that read the text long ago, logins that wait for the *)
(* lock with an old record, bills that fail.  The version of the device is *)
(* what stops a login that another has overtaken.                          *)
THEOREM BilledOnceASession == Spec => [](crashes = 0 => BilledAgainOnlyAfterRelogin)
<1>1. Init => BInv /\ VInv /\ RInv
  BY IdleTyped, ReqAssumption
     DEF Init, RowInit, NewRow, Clean, Idle, BInv, Serves, Releasing, Taking, Taken, Busy, At,
         VInv, SeenBehind, RecordsInOrder, Written, RowsAdvance, Pending, Waits,
         RInv, Fresh, BilledCloses, Behind, Looked, Outrun, Newest, Asked,
         BilledAgainOnlyAfterRelogin
<1>2. RInv => BilledAgainOnlyAfterRelogin
  BY DEF RInv
<1> QED
  BY <1>1, <1>2, LockHeld, BInvInductive, VInvInductive, RInvInductive, PTL DEF Spec
===============================================================================
