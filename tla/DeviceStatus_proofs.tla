------------------------- MODULE DeviceStatus_proofs -------------------------
(***************************************************************************)
(* What the version of a device's row promises, for every number of        *)
(* devices and requests, every kind of handler and deaths at any step.     *)
(***************************************************************************)
EXTENDS DeviceStatus, TLAPS

(* About to write the state, at the version in hand *)
Pre(r) == r.pc = "state" \/ (r.pc = "upd" /\ r.kind = "logout")

(* The instance in hand is not newer than the row, and is the row as far as *)
(* the state goes if the version is the same                               *)
SeenOK(r) ==
    row[r.dev] # NoRow => /\ r.seen.ver <= row[r.dev].ver
                          /\ r.seen.ver = row[r.dev].ver => r.seen.state = row[r.dev].state

(* A request that is about to write the state has checked it.  A login has *)
(* not, but writes busy                                                    *)
Checked(r) ==
    /\ r.seen \in Row /\ r.to \in DeviceState /\ r.from = r.seen.state
    /\ SeenOK(r)
    /\ r.from = "busy" => r.kind \in {"logout", "check"} \/ r.to = "busy"

(* About to write the update state, now or after the state *)
HasUpdate(r) ==
    \/ r.pc = "upd"
    \/ r.kind \in {"ing", "finish"} /\ r.pc \in {"state", "stateCache", "games"}

RInv(r) ==
    /\ r \in Request
    /\ r.kind = "delete" => r.pc \in {"read", "drop", "dropRow", "end"}
    /\ Pre(r) => Checked(r)
    /\ r.pc = "fill" => r.seen \in Row
    /\ r.pc \in {"fill", "transfer"} /\ r.seen # NoRow => SeenOK(r)
    /\ r.pc = "read" => r.seen = NoRow
    /\ HasUpdate(r) => r.uto \in UpdateState

(* Where a request may hold the row *)
Late(r) ==
    /\ r.kind # "delete"
    /\ r.pc \in {"state", "stateCache", "upd", "games", "seat", "settle", "recheck",
                 "refill", "end"}

(* What a holder has written and not committed: the update state only, or  *)
(* the next version, over the state it had in hand                         *)
Written(d) ==
    LET r == req[dirty[d].by]
        w == dirty[d].row
    IN  \/ w.state = row[d].state /\ w.ver = row[d].ver
        \/ /\ ~Pre(r)
           /\ w.ver = row[d].ver + 1
           /\ r.from = row[d].state
           /\ row[d].state = "busy" => r.kind \in {"logout", "check"} \/ w.state = "busy"

DInv(d) ==
    dirty[d].by # NoReq =>
        /\ dirty[d].by \in Req
        /\ req[dirty[d].by].dev = d /\ Late(req[dirty[d].by])
        /\ row[d] \in Row /\ dirty[d].row \in Row
        /\ Written(d)

RowsTyped ==
    /\ row \in [Device -> Row \cup {NoRow}]
    /\ dirty \in [Device -> [by : Req \cup {NoReq}, row : Row \cup {NoRow}]]
    /\ req \in [Req -> Request]

IInv == RowsTyped /\ (\A p \in Req : RInv(req[p])) /\ (\A d \in Device : DInv(d))

LEMMA NoRowIsNone == NoRow \notin Row /\ NoRow.state = "none"
BY DEF NoRow, Row, DeviceState

LEMMA IdleTyped == Idle \in Request /\ Idle.pc = "idle" /\ Idle.kind = "login" /\ Idle.seen = NoRow
<1>1. (CHOOSE d \in Device : TRUE) \in Device
  BY KindsAssumption
<1>2. QED
  BY <1>1 DEF Idle, Request, Kind, Label

LEMMA DoneTyped ==
    ASSUME NEW r \in Request
    PROVE  /\ Done(r) \in Request /\ Done(r).pc = "end"
           /\ Done(r).kind = r.kind /\ Done(r).dev = r.dev /\ Done(r).from = r.from
BY DEF Done, Request, Label

LEMMA DoneOK ==
    ASSUME NEW r \in Request PROVE RInv(Done(r))
<1> DEFINE e == Done(r)
<1>1. e \in Request /\ e.pc = "end"
  BY DoneTyped
<1> HIDE DEF e
<1>2. RInv(e)
  BY <1>1 DEF RInv, Pre, HasUpdate
<1>3. QED
  BY <1>2 DEF e

LEMMA IdleOK == RInv(Idle)
<1> DEFINE e == Idle
<1>1. e \in Request /\ e.pc = "idle" /\ e.kind = "login"
  BY IdleTyped
<1> HIDE DEF e
<1>2. RInv(e)
  BY <1>1 DEF RInv, Pre, HasUpdate
<1>3. QED
  BY <1>2 DEF e

LEMMA IInvInit == Init => IInv
<1> SUFFICES ASSUME Init PROVE IInv
  OBVIOUS
<1>1. NewRow \in Row
  BY DEF NewRow, Row, DeviceState, UpdateState
<1>2. RowsTyped
  BY <1>1, IdleTyped DEF RowsTyped, Init, RowInit, Clean
<1>3. \A p \in Req : req[p] = Idle
  BY DEF Init
<1>4. \A p \in Req : RInv(req[p])
  BY <1>3, IdleOK
<1>5. \A d \in Device : dirty[d].by = NoReq
  BY DEF Init, RowInit, Clean
<1>6. QED
  BY <1>2, <1>4, <1>5 DEF IInv, DInv

(* A step of p that writes neither the row nor anybody else's request *)
LEMMA QuietKeeps ==
    ASSUME IInv, NEW p \in Req, UNCHANGED rowVars,
           NEW r, req' = [req EXCEPT ![p] = r], RInv(r),
           Late(req[p]) => /\ Late(r) /\ r.dev = req[p].dev /\ r.kind = req[p].kind
                           /\ r.from = req[p].from /\ (Pre(r) => Pre(req[p]))
    PROVE  IInv'
<1>1. req \in [Req -> Request] /\ r \in Request /\ row' = row /\ dirty' = dirty
  BY DEF IInv, RowsTyped, RInv, rowVars
<1>2. \A q \in Req : req'[q] = IF q = p THEN r ELSE req[q]
  BY <1>1
<1>3. RowsTyped'
  BY <1>1 DEF IInv, RowsTyped
<1>4. ASSUME NEW q \in Req PROVE RInv(req[q])'
  <2>1. RInv(req'[q])
    BY <1>2 DEF IInv
  <2>2. QED
    BY <1>1, <2>1 DEF RInv, Pre, HasUpdate, Checked, SeenOK
<1>5. ASSUME NEW d \in Device PROVE DInv(d)'
  <2>1. DInv(d)
    BY DEF IInv
  <2>2. QED
    BY <1>1, <1>2, <2>1 DEF DInv, Written, Late, Pre
<1>6. QED
  BY <1>3, <1>4, <1>5 DEF IInv

(* p writes the row it reaches: w becomes its uncommitted value *)
LEMMA WriteKeeps ==
    ASSUME IInv, NEW p \in Req, CanWrite(p, req[p].dev), UNCHANGED row,
           NEW w \in Row, Put(p, req[p].dev, w), row[req[p].dev] \in Row,
           NEW r, req' = [req EXCEPT ![p] = r], RInv(r), Late(r),
           r.dev = req[p].dev,
           \/ w.state = row[r.dev].state /\ w.ver = row[r.dev].ver
           \/ /\ ~Pre(r)
              /\ w.ver = row[r.dev].ver + 1
              /\ r.from = row[r.dev].state
              /\ row[r.dev].state = "busy" =>
                    r.kind \in {"logout", "check"} \/ w.state = "busy"
    PROVE  IInv'
<1> DEFINE c == req[p].dev
<1>1. req \in [Req -> Request] /\ r \in Request /\ row' = row /\ c \in Device
  BY DEF IInv, RowsTyped, RInv, Request
<1>2. \A q \in Req : req'[q] = IF q = p THEN r ELSE req[q]
  BY <1>1
<1>3. /\ dirty \in [Device -> [by : Req \cup {NoReq}, row : Row \cup {NoRow}]]
      /\ dirty' = [dirty EXCEPT ![c] = [by |-> p, row |-> w]]
  BY DEF IInv, RowsTyped, Put
<1>4. \A d \in Device : dirty'[d] = IF d = c THEN [by |-> p, row |-> w] ELSE dirty[d]
  BY <1>3
<1>5. RowsTyped'
  BY <1>1, <1>3 DEF IInv, RowsTyped
<1>6. ASSUME NEW q \in Req PROVE RInv(req[q])'
  <2>1. RInv(req'[q])
    BY <1>2 DEF IInv
  <2>2. QED
    BY <1>1, <2>1 DEF RInv, Pre, HasUpdate, Checked, SeenOK
<1>7. ASSUME NEW d \in Device PROVE DInv(d)'
  <2>1. CASE d = c
    <3>1. dirty'[d].by = p /\ dirty'[d].row = w /\ req'[p] = r
      BY <2>1, <1>2, <1>4
    <3>2. QED
      BY <2>1, <3>1, <1>1 DEF DInv, Written, Late, Pre
  <2>2. CASE d # c
    <3>1. dirty'[d] = dirty[d] /\ DInv(d)
      BY <2>2, <1>4 DEF IInv
    <3>2. dirty[d].by # NoReq => dirty[d].by # p
      BY <2>2, <3>1 DEF DInv
    <3>3. dirty[d].by # NoReq => req'[dirty[d].by] = req[dirty[d].by]
      BY <3>1, <3>2, <1>2 DEF DInv
    <3>4. QED
      BY <3>1, <3>3, <1>1 DEF DInv, Written, Late, Pre
  <2>3. QED
    BY <2>1, <2>2
<1>8. QED
  BY <1>5, <1>6, <1>7 DEF IInv

(* What a commit of p makes of a row *)
LEMMA Committed ==
    ASSUME IInv, NEW p \in Req, Commit(p), NEW d \in Device
    PROVE  \/ row'[d] = row[d]
           \/ /\ dirty[d].by = p /\ row'[d] = dirty[d].row
              /\ row[d] \in Row /\ dirty[d].row \in Row /\ Written(d)
<1>1. DInv(d) /\ p # NoReq
  BY ReqAssumption DEF IInv
<1>2. row'[d] = IF dirty[d].by = p THEN dirty[d].row ELSE row[d]
  BY DEF Commit
<1>3. QED
  BY <1>1, <1>2 DEF DInv

(* p ends its transaction one way or the other and goes on as r *)
LEMMA EndKeeps ==
    ASSUME IInv, NEW p \in Req, Commit(p) \/ Rollback(p),
           NEW r, req' = [req EXCEPT ![p] = r], RInv(r),
           ~Pre(r), r.pc \notin {"fill", "transfer"}
    PROVE  IInv'
<1>1. req \in [Req -> Request] /\ r \in Request
  BY DEF IInv, RowsTyped, RInv
<1>2. \A q \in Req : req'[q] = IF q = p THEN r ELSE req[q]
  BY <1>1
<1>3. /\ row \in [Device -> Row \cup {NoRow}]
      /\ dirty \in [Device -> [by : Req \cup {NoReq}, row : Row \cup {NoRow}]]
  BY DEF IInv, RowsTyped
<1>4. /\ row' \in [Device -> Row \cup {NoRow}]
      /\ dirty' \in [Device -> [by : Req \cup {NoReq}, row : Row \cup {NoRow}]]
  BY <1>3 DEF Commit, Rollback, Clean
<1>5. RowsTyped'
  BY <1>1, <1>4 DEF RowsTyped
<1>6. ASSUME NEW d \in Device
      PROVE  \/ row'[d] = row[d]
             \/ row[d] \in Row /\ row'[d] \in Row /\ row'[d].ver = row[d].ver
                /\ row'[d].state = row[d].state
             \/ row[d] \in Row /\ row'[d] \in Row /\ row'[d].ver = row[d].ver + 1
  BY Committed DEF Rollback, Written
<1>7. ASSUME NEW q \in Req, q # p, SeenOK(req[q]) PROVE SeenOK(req[q])'
  <2>1. req'[q] = req[q] /\ req[q].dev \in Device /\ req[q].seen.ver \in Nat
    BY <1>1, <1>2, <1>7 DEF Request, Row, NoRow
  <2>2. row[req[q].dev] = NoRow \/ row[req[q].dev] \in Row
    BY <1>3, <2>1
  <2>3. row[req[q].dev] \in Row => row[req[q].dev].ver \in Nat /\ row[req[q].dev] # NoRow
    BY NoRowIsNone DEF Row
  <2>4. QED
    BY <1>6, <1>7, <2>1, <2>2, <2>3, NoRowIsNone DEF SeenOK
<1>8. ASSUME NEW q \in Req PROVE RInv(req[q])'
  <2>1. CASE q = p
    BY <2>1, <1>2 DEF RInv, Pre, HasUpdate
  <2>2. CASE q # p
    <3>1. req'[q] = req[q] /\ RInv(req[q])
      BY <1>2, <2>2 DEF IInv
    <3>2. QED
      BY <1>7, <2>2, <3>1 DEF RInv, Pre, HasUpdate, Checked
  <2>3. QED
    BY <2>1, <2>2
<1>9. ASSUME NEW d \in Device PROVE DInv(d)'
  <2>1. DInv(d)
    BY DEF IInv
  <2>2. dirty'[d] = IF dirty[d].by = p THEN Clean ELSE dirty[d]
    BY DEF Commit, Rollback
  <2>3. CASE dirty[d].by = p
    BY <2>2, <2>3 DEF DInv, Clean
  <2>4. CASE dirty[d].by = NoReq
    BY <2>2, <2>4 DEF DInv, Clean
  <2>5. CASE dirty[d].by # p /\ dirty[d].by # NoReq
    <3>1. row'[d] = row[d] /\ dirty'[d] = dirty[d]
      BY <2>2, <2>5 DEF Commit, Rollback
    <3>2. req'[dirty[d].by] = req[dirty[d].by]
      BY <1>2, <2>1, <2>5 DEF DInv
    <3>3. QED
      BY <2>1, <3>1, <3>2 DEF DInv, Written, Late, Pre
  <2>6. QED
    BY <2>3, <2>4, <2>5
<1>10. QED
  BY <1>5, <1>8, <1>9 DEF IInv-----------------------------------------------------------------------------
LEMMA FinishKeeps ==
    ASSUME IInv, NEW p \in Req, UNCHANGED rowVars, Finish(p) PROVE IInv'
<1> DEFINE r == Done(req[p])
<1>1. req \in [Req -> Request]
  BY DEF IInv, RowsTyped
<1>2. RInv(r) /\ r.pc = "end" /\ r.kind = req[p].kind /\ r.dev = req[p].dev
      /\ r.from = req[p].from
  BY <1>1, DoneTyped, DoneOK
<1>3. req' = [req EXCEPT ![p] = r]
  BY DEF Finish
<1> HIDE DEF r
<1>4. Late(req[p]) => Late(r)
  BY <1>2 DEF Late
<1>5. ~Pre(r)
  BY <1>2 DEF Pre
<1>6. QED
  BY <1>2, <1>3, <1>4, <1>5, QuietKeeps

(* p goes on to l, with what it has in hand *)
LEMMA GotoKeeps ==
    ASSUME IInv, NEW p \in Req, UNCHANGED rowVars, NEW l \in Label, Goto(p, l),
           ~Pre(req[p]), l \notin {"read", "state", "stateCache", "fill"},
           l = "transfer" => SeenOK(req[p]) \/ req[p].seen = NoRow,
           l \in {"upd", "games"} => /\ req[p].kind \in {"ing", "finish"}
                                    /\ HasUpdate(req[p]),
           req[p].kind = "delete" => l \in {"dropRow", "end"},
           Late(req[p]) => l \in {"upd", "games", "seat", "settle", "recheck", "refill", "end"}
    PROVE  IInv'
<1>1. CASE l = "end"
  BY <1>1, FinishKeeps DEF Goto
<1>2. CASE l # "end"
  <2> DEFINE r == [req[p] EXCEPT !.pc = l]
  <2>1. req \in [Req -> Request] /\ RInv(req[p])
    BY DEF IInv, RowsTyped
  <2>2. /\ r \in Request /\ r.pc = l /\ r.kind = req[p].kind /\ r.dev = req[p].dev
        /\ r.from = req[p].from /\ r.seen = req[p].seen /\ r.to = req[p].to
        /\ r.uto = req[p].uto
    BY <2>1 DEF Request
  <2>3. req' = [req EXCEPT ![p] = r]
    BY <1>2, <2>1 DEF Goto
  <2> HIDE DEF r
  <2>4. ~Pre(r)
    BY <2>2 DEF Pre
  <2>5. Late(req[p]) => Late(r)
    BY <2>2 DEF Late
  <2>6. SeenOK(req[p]) => SeenOK(r)
    BY <2>2 DEF SeenOK
  <2>7. HasUpdate(r) => r.uto \in UpdateState
    BY <2>1, <2>2 DEF RInv, HasUpdate
  <2>8. RInv(r)
    BY <2>2, <2>4, <2>6, <2>7 DEF RInv
  <2>9. QED
    BY <2>2, <2>3, <2>4, <2>5, <2>8, QuietKeeps
<1>3. QED
  BY <1>1, <1>2

(* p, which holds nothing, takes the instance x and goes on *)
LEMMA LoadKeeps ==
    ASSUME IInv, NEW p \in Req, UNCHANGED rowVars, ~Late(req[p]),
           NEW x \in Row, row[req[p].dev] = x,
           NEW l \in {"reread", "fill", "drop"}, Load(p, x, l),
           req[p].kind = "delete" => l = "drop",
           req[p].kind = "delete" \/ l # "drop"
    PROVE  IInv'
<1> DEFINE r == [req[p] EXCEPT !.seen = x, !.from = x.state, !.pc = l]
<1>1. req \in [Req -> Request] /\ RInv(req[p]) /\ x.state \in DeviceState
  BY DEF IInv, RowsTyped, Row
<1>2. /\ r \in Request /\ r.pc = l /\ r.kind = req[p].kind /\ r.dev = req[p].dev
      /\ r.seen = x
  <2>1. req[p] \in Request /\ x \in Row \cup {NoRow} /\ l \in Label
    BY <1>1 DEF Label
  <2>2. QED
    BY <1>1, <2>1 DEF Request
<1>3. req' = [req EXCEPT ![p] = r]
  BY <1>1 DEF Load
<1> HIDE DEF r
<1>4. SeenOK(r) /\ ~Pre(r) /\ ~HasUpdate(r)
  BY <1>2 DEF SeenOK, Pre, HasUpdate, Row
<1>5. RInv(r)
  BY <1>2, <1>4 DEF RInv
<1>6. QED
  BY <1>3, <1>5, QuietKeeps

(* p, which holds nothing, takes the instance x and decides to write s *)
LEMMA LoadForKeeps ==
    ASSUME IInv, NEW p \in Req, UNCHANGED rowVars, ~Late(req[p]),
           NEW x \in Row, row[req[p].dev] = x \/ (req[p].seen = x /\ SeenOK(req[p])),
           NEW s \in DeviceState, LoadFor(p, x, "state", s),
           req[p].kind \notin {"delete", "ing", "finish"},
           x.state = "busy" => req[p].kind \in {"logout", "check"} \/ s = "busy"
    PROVE  IInv'
<1> DEFINE r == [req[p] EXCEPT !.seen = x, !.from = x.state, !.to = s, !.pc = "state"]
<1>1. req \in [Req -> Request] /\ RInv(req[p]) /\ x.state \in DeviceState
  BY DEF IInv, RowsTyped, Row
<1>2. /\ r \in Request /\ r.pc = "state" /\ r.kind = req[p].kind /\ r.dev = req[p].dev
      /\ r.seen = x /\ r.from = x.state /\ r.to = s
  <2>1. req[p] \in Request /\ x \in Row \cup {NoRow} /\ "state" \in Label
    BY <1>1 DEF Label
  <2>2. QED
    BY <1>1, <2>1 DEF Request
<1>3. req' = [req EXCEPT ![p] = r]
  BY <1>1 DEF LoadFor
<1> HIDE DEF r
<1>4. SeenOK(r)
  BY <1>2 DEF SeenOK, Row
<1>5. ~HasUpdate(r)
  BY <1>2 DEF HasUpdate
<1>6. RInv(r)
  BY <1>2, <1>4, <1>5 DEF RInv, Checked
<1>7. QED
  BY <1>3, <1>6, QuietKeeps

(* p, which holds nothing, takes the row and decides on both *)
LEMMA TakeKeeps ==
    ASSUME IInv, NEW p \in Req, UNCHANGED rowVars, ~Late(req[p]),
           NEW x \in Row, row[req[p].dev] = x,
           NEW s \in DeviceState \cup {"none"}, NEW u \in UpdateState,
           NEW l \in {"state", "upd", "games"},
           req' = [req EXCEPT ![p] = [@ EXCEPT !.seen = x, !.from = x.state, !.to = s,
                                               !.uto = u, !.pc = l]],
           req[p].kind # "delete",
           l = "state" \/ req[p].kind = "logout" => s \in DeviceState,
           x.state = "busy" => req[p].kind = "logout" \/ l # "state"
    PROVE  IInv'
<1> DEFINE r == [req[p] EXCEPT !.seen = x, !.from = x.state, !.to = s, !.uto = u, !.pc = l]
<1>1. req \in [Req -> Request] /\ RInv(req[p]) /\ x.state \in DeviceState
  BY DEF IInv, RowsTyped, Row
<1>2. /\ r \in Request /\ r.pc = l /\ r.kind = req[p].kind /\ r.dev = req[p].dev
      /\ r.seen = x /\ r.from = x.state /\ r.to = s /\ r.uto = u
  <2>1. req[p] \in Request /\ x \in Row \cup {NoRow} /\ l \in Label
    BY <1>1 DEF Label
  <2>2. QED
    BY <1>1, <2>1 DEF Request
<1>3. req' = [req EXCEPT ![p] = r]
  BY <1>1
<1> HIDE DEF r
<1>4. SeenOK(r)
  BY <1>2 DEF SeenOK, Row
<1>5. Pre(r) => Checked(r)
  BY <1>2, <1>4 DEF Pre, Checked
<1>6. RInv(r)
  BY <1>2, <1>4, <1>5 DEF RInv
<1>7. QED
  BY <1>3, <1>6, QuietKeeps-----------------------------------------------------------------------------
LEMMA AfterStateIs ==
    \A p : /\ AfterState(p) \in {"seat", "settle", "recheck", "upd", "games", "end"}
           /\ AfterState(p) \in {"upd", "games"} => req[p].kind \in {"ing", "finish"}
BY DEF AfterState

LEMMA RowRead ==
    ASSUME IInv, NEW p \in Req
    PROVE  /\ req[p] \in Request /\ RInv(req[p]) /\ req[p].dev \in Device
           /\ row[req[p].dev] \in Row \cup {NoRow}
           /\ row[req[p].dev].state \in DeviceState \/ row[req[p].dev].upd \in UpdateState
                 => row[req[p].dev] \in Row
BY DEF IInv, RowsTyped, Request, NoRow, DeviceState, UpdateState

LEMMA StartKeeps ==
    ASSUME IInv, NEW p \in Req, NEW k \in Kinds, NEW d \in Device, Start(p, k, d)
    PROVE  IInv'
<1> DEFINE r == [Idle EXCEPT !.kind = k, !.dev = d, !.pc = "read"]
<1>1. req' = [req EXCEPT ![p] = r] /\ UNCHANGED rowVars /\ req[p].pc = "idle"
  BY DEF Start
<1>2. /\ r \in Request /\ r.pc = "read" /\ r.seen = NoRow
  BY IdleTyped, KindsAssumption DEF Request, Label
<1> HIDE DEF r
<1>3. RInv(r)
  BY <1>2 DEF RInv, Pre, HasUpdate
<1>4. ~Late(req[p])
  BY <1>1 DEF Late
<1>5. QED
  BY <1>1, <1>3, <1>4, QuietKeeps

LEMMA LoginKeeps ==
    ASSUME IInv, NEW p \in Req, Login(p) PROVE IInv'
<1>1. CASE LoginRead(p)
  <2>1. UNCHANGED rowVars /\ ~Late(req[p])
    BY <1>1 DEF LoginRead, At, Late
  <2>2. CASE LoginRefused(req[p].dev)
    BY <1>1, <2>1, <2>2, FinishKeeps DEF LoginRead
  <2>3. CASE ~LoginRefused(req[p].dev)
    <3>1. row[req[p].dev] \in Row /\ Load(p, row[req[p].dev], "reread")
      BY <1>1, <2>3, RowRead DEF LoginRead, LoginRefused
    <3>2. req[p].kind = "login"
      BY <1>1 DEF LoginRead, At
    <3>3. QED
      BY <2>1, <3>1, <3>2, LoadKeeps
  <2>4. QED
    BY <2>2, <2>3
<1>2. CASE LoginReread(p)
  <2>1. UNCHANGED rowVars /\ ~Late(req[p]) /\ req[p].kind = "login"
    BY <1>2 DEF LoginReread, At, Late
  <2>2. CASE row[req[p].dev] = NoRow
    BY <1>2, <2>1, <2>2, FinishKeeps DEF LoginReread
  <2>3. CASE row[req[p].dev] # NoRow
    <3>1. row[req[p].dev] \in Row /\ LoadFor(p, row[req[p].dev], "state", "busy")
      BY <1>2, <2>3, RowRead DEF LoginReread
    <3>2. "busy" \in DeviceState
      BY DEF DeviceState
    <3>3. QED
      BY <2>1, <3>1, <3>2, LoadForKeeps
  <2>4. QED
    BY <2>2, <2>3
<1>3. CASE LoginSeat(p)
  BY <1>3, FinishKeeps DEF LoginSeat
<1>4. QED
  BY <1>1, <1>2, <1>3 DEF Login

LEMMA CheckKeeps ==
    ASSUME IInv, NEW p \in Req, Check(p) PROVE IInv'
<1>1. CASE CheckHit(p)
  <2>1. /\ UNCHANGED rowVars /\ At(p, "check", "read") /\ req[p].seen = NoRow
        /\ Goto(p, IF statusCache[req[p].dev] = "maintain" THEN "transfer" ELSE "end")
    BY <1>1, RowRead DEF CheckHit, At, RInv
  <2>2. ~Late(req[p]) /\ ~Pre(req[p])
    BY <2>1 DEF At, Late, Pre
  <2>3. PICK l \in {"transfer", "end"} : Goto(p, l)
    BY <2>1
  <2>4. QED
    BY <2>1, <2>2, <2>3, GotoKeeps DEF At, Label
<1>2. CASE CheckMiss(p)
  <2>1. UNCHANGED rowVars /\ ~Late(req[p]) /\ req[p].kind = "check"
    BY <1>2 DEF CheckMiss, At, Late
  <2>2. CASE row[req[p].dev] = NoRow
    BY <1>2, <2>1, <2>2, FinishKeeps DEF CheckMiss
  <2>3. CASE row[req[p].dev] # NoRow
    <3>1. row[req[p].dev] \in Row /\ Load(p, row[req[p].dev], "fill")
      BY <1>2, <2>3, RowRead DEF CheckMiss
    <3>2. QED
      BY <2>1, <3>1, LoadKeeps
  <2>4. QED
    BY <2>2, <2>3
<1>3. CASE CheckFill(p)
  <2>1. /\ UNCHANGED rowVars /\ At(p, "check", "fill") /\ SeenOK(req[p])
        /\ Goto(p, IF req[p].seen.state = "maintain" THEN "transfer" ELSE "end")
    BY <1>3, RowRead, NoRowIsNone DEF CheckFill, At, RInv, rowVars
  <2>2. ~Late(req[p]) /\ ~Pre(req[p])
    BY <2>1 DEF At, Late, Pre
  <2>3. PICK l \in {"transfer", "end"} : Goto(p, l)
    BY <2>1
  <2>4. QED
    BY <2>1, <2>2, <2>3, GotoKeeps DEF At, Label
<1>4. CASE CheckTransfer(p)
  <2> DEFINE x == IF req[p].seen = NoRow THEN row[req[p].dev] ELSE req[p].seen
             s == IF x.upd \in {"ing", "check"} THEN "lock" ELSE "free"
  <2>1. UNCHANGED rowVars /\ At(p, "check", "transfer") /\ req[p] \in Request
    BY <1>4, RowRead DEF CheckTransfer
  <2>2. ~Late(req[p]) /\ ~Pre(req[p])
    BY <2>1 DEF At, Late, Pre
  <2>3. CASE x = NoRow
    <3>1. Goto(p, "recheck")
      BY <1>4, <2>3 DEF CheckTransfer
    <3>2. QED
      BY <2>1, <2>2, <3>1, GotoKeeps DEF At, Label
  <2>4. CASE x # NoRow
    <3>1. LoadFor(p, x, "state", s)
      BY <1>4, <2>4 DEF CheckTransfer
    <3>2. x \in Row
      BY <2>1, <2>4, RowRead DEF Request
    <3>3. row[req[p].dev] = x \/ (req[p].seen = x /\ SeenOK(req[p]))
      BY <2>1, <2>4, RowRead DEF RInv, At
    <3>4. s \in DeviceState
      BY DEF DeviceState
    <3> HIDE DEF x, s
    <3>5. QED
      BY <2>1, <2>2, <3>1, <3>2, <3>3, <3>4, LoadForKeeps DEF At
  <2>5. QED
    BY <2>3, <2>4
<1>5. CASE CheckAgain(p)
  <2>1. /\ UNCHANGED rowVars /\ At(p, "check", "recheck")
        /\ Goto(p, IF statusCache[req[p].dev] # "none" \/ req[p].seen = NoRow
                  THEN "end" ELSE "refill")
    BY <1>5 DEF CheckAgain
  <2>2. PICK l \in {"end", "refill"} : Goto(p, l)
    BY <2>1
  <2>3. ~Pre(req[p])
    BY <2>1 DEF At, Pre
  <2>4. QED
    BY <2>1, <2>2, <2>3, GotoKeeps DEF At, Label
<1>6. CASE CheckRefill(p)
  BY <1>6, FinishKeeps DEF CheckRefill, rowVars
<1>7. QED
  BY <1>1, <1>2, <1>3, <1>4, <1>5, <1>6 DEF Check
LEMMA AdminKeeps ==
    ASSUME IInv, NEW p \in Req, MaintainRead(p) \/ LockRead(p) \/ UnlockRead(p) PROVE IInv'
<1>1. CASE MaintainRead(p)
  <2>1. UNCHANGED rowVars /\ ~Late(req[p]) /\ req[p].kind = "maintain"
    BY <1>1 DEF MaintainRead, At, Late
  <2> DEFINE ok == row[req[p].dev] # NoRow /\ beat[req[p].dev] /\ row[req[p].dev].state # "busy"
  <2>3. CASE ~ok
    BY <1>1, <2>1, <2>3, FinishKeeps DEF MaintainRead
  <2>4. CASE ok
    <3>1. row[req[p].dev] \in Row /\ LoadFor(p, row[req[p].dev], "state", "maintain")
      BY <1>1, <2>4, RowRead DEF MaintainRead, DeviceState
    <3>2. "maintain" \in DeviceState /\ row[req[p].dev].state # "busy"
      BY <2>4 DEF DeviceState
    <3>3. QED
      BY <2>1, <3>1, <3>2, LoadForKeeps
  <2>5. QED
    BY <2>3, <2>4
<1>2. CASE LockRead(p)
  <2>1. UNCHANGED rowVars /\ ~Late(req[p]) /\ req[p].kind = "lock"
    BY <1>2 DEF LockRead, At, Late
  <2> DEFINE ok == beat[req[p].dev] /\ row[req[p].dev].state = "free"
  <2>3. CASE ~ok
    BY <1>2, <2>1, <2>3, FinishKeeps DEF LockRead
  <2>4. CASE ok
    <3>1. row[req[p].dev] \in Row /\ LoadFor(p, row[req[p].dev], "state", "lock")
      BY <1>2, <2>4, RowRead DEF LockRead, DeviceState
    <3>2. "lock" \in DeviceState /\ row[req[p].dev].state # "busy"
      BY <2>4 DEF DeviceState
    <3>3. QED
      BY <2>1, <3>1, <3>2, LoadForKeeps
  <2>5. QED
    BY <2>3, <2>4
<1>3. CASE UnlockRead(p)
  <2>1. UNCHANGED rowVars /\ ~Late(req[p]) /\ req[p].kind = "unlock"
    BY <1>3 DEF UnlockRead, At, Late
  <2> DEFINE ok == beat[req[p].dev] /\ row[req[p].dev].state = "lock"
  <2>3. CASE ~ok
    BY <1>3, <2>1, <2>3, FinishKeeps DEF UnlockRead
  <2>4. CASE ok
    <3>1. row[req[p].dev] \in Row /\ LoadFor(p, row[req[p].dev], "state", "free")
      BY <1>3, <2>4, RowRead DEF UnlockRead, DeviceState
    <3>2. "free" \in DeviceState /\ row[req[p].dev].state # "busy"
      BY <2>4 DEF DeviceState
    <3>3. QED
      BY <2>1, <3>1, <3>2, LoadForKeeps
  <2>5. QED
    BY <2>3, <2>4
<1>4. QED
  BY <1>1, <1>2, <1>3

LEMMA UpdateReadKeeps ==
    ASSUME IInv, NEW p \in Req, UpdateRead(p) PROVE IInv'
<1> DEFINE x == row[req[p].dev]
<1>1. UNCHANGED rowVars /\ ~Late(req[p]) /\ At(p, "update", "read")
  BY DEF UpdateRead, At, Late
<1>2. CASE Finish(p)
  BY <1>1, <1>2, FinishKeeps
<1>3. CASE /\ x.upd = "finish"
           /\ req' = [req EXCEPT ![p].seen = x, ![p].from = x.state,
                                 ![p].uto = "wait", ![p].pc = "upd"]
  <2> DEFINE r == [req[p] EXCEPT !.seen = x, !.from = x.state, !.uto = "wait", !.pc = "upd"]
  <2>1. x \in Row /\ req[p] \in Request /\ req \in [Req -> Request]
    BY <1>3, RowRead DEF UpdateState, IInv, RowsTyped
  <2>2. x.state \in DeviceState
    BY <2>1 DEF Row
  <2> HIDE DEF x
  <2>3. /\ r \in Request /\ r.pc = "upd" /\ r.kind = "update" /\ r.uto = "wait"
    BY <1>1, <2>1, <2>2 DEF Request, Label, UpdateState, At
  <2>4. req' = [req EXCEPT ![p] = r]
    BY <1>3, <2>1
  <2> HIDE DEF r
  <2>5. RInv(r)
    BY <2>3 DEF RInv, Pre, UpdateState
  <2>6. QED
    BY <1>1, <2>4, <2>5, QuietKeeps
<1>4. QED
  BY <1>2, <1>3 DEF UpdateRead

LEMMA LogoutReadKeeps ==
    ASSUME IInv, NEW p \in Req, LogoutRead(p) PROVE IInv'
<1> DEFINE x == row[req[p].dev]
           s == IF x.upd = "finish" THEN "lock" ELSE "free"
           l == IF x.upd = "finish" THEN "upd" ELSE "state"
<1>1. UNCHANGED rowVars /\ ~Late(req[p]) /\ req[p].kind = "logout"
  BY DEF LogoutRead, At, Late
<1>2. CASE ~seated[req[p].dev] \/ x = NoRow
  <2>1. Finish(p)
    BY <1>2 DEF LogoutRead
  <2>2. QED
    BY <1>1, <2>1, FinishKeeps
<1>3. CASE ~(~seated[req[p].dev] \/ x = NoRow)
  <2>1. x \in Row /\ req \in [Req -> Request]
    BY <1>3, RowRead DEF IInv, RowsTyped
  <2>2. req' = [req EXCEPT ![p].seen = x, ![p].from = x.state, ![p].to = s,
                           ![p].uto = "check", ![p].pc = l]
    BY <1>3 DEF LogoutRead
  <2>3. s \in DeviceState /\ l \in {"state", "upd", "games"} /\ "check" \in UpdateState
    BY DEF DeviceState, UpdateState
  <2> HIDE DEF s, l
  <2>4. req' = [req EXCEPT ![p] = [@ EXCEPT !.seen = x, !.from = x.state, !.to = s,
                                            !.uto = "check", !.pc = l]]
    BY <2>1, <2>2
  <2>5. QED
    BY <1>1, <2>1, <2>3, <2>4, TakeKeeps
<1>4. QED
  BY <1>2, <1>3

LEMMA IngReadKeeps ==
    ASSUME IInv, NEW p \in Req, IngRead(p) PROVE IInv'
<1> DEFINE x == row[req[p].dev]
           l == IF x.state = "free" THEN "state" ELSE "upd"
<1>1. UNCHANGED rowVars /\ ~Late(req[p]) /\ req[p].kind = "ing"
  BY DEF IngRead, At, Late
<1>2. CASE x.upd = "check" \/ x.state \notin {"free", "lock"}
  <2>1. Finish(p)
    BY <1>2 DEF IngRead
  <2>2. QED
    BY <1>1, <2>1, FinishKeeps
<1>3. CASE ~(x.upd = "check" \/ x.state \notin {"free", "lock"})
  <2>1. x \in Row /\ req \in [Req -> Request] /\ x.state # "busy"
    BY <1>3, RowRead DEF IInv, RowsTyped, DeviceState
  <2>2. req' = [req EXCEPT ![p].seen = x, ![p].from = x.state, ![p].to = "lock",
                           ![p].uto = "ing", ![p].pc = l]
    BY <1>3 DEF IngRead
  <2>3. "lock" \in DeviceState /\ l \in {"state", "upd", "games"} /\ "ing" \in UpdateState
    BY DEF DeviceState, UpdateState
  <2> HIDE DEF l
  <2>4. req' = [req EXCEPT ![p] = [@ EXCEPT !.seen = x, !.from = x.state, !.to = "lock",
                                            !.uto = "ing", !.pc = l]]
    BY <2>1, <2>2
  <2>5. QED
    BY <1>1, <2>1, <2>3, <2>4, TakeKeeps
<1>4. QED
  BY <1>2, <1>3

LEMMA FinishReadKeeps ==
    ASSUME IInv, NEW p \in Req, FinishRead(p) PROVE IInv'
<1> DEFINE x == row[req[p].dev]
           l == IF x.state = "lock" THEN "state" ELSE IF x.upd = "ing" THEN "games" ELSE "upd"
<1>1. UNCHANGED rowVars /\ ~Late(req[p]) /\ req[p].kind = "finish"
  BY DEF FinishRead, At, Late
<1>2. CASE x = NoRow \/ x.upd = "finish"
  <2>1. Finish(p)
    BY <1>2 DEF FinishRead
  <2>2. QED
    BY <1>1, <2>1, FinishKeeps
<1>3. CASE ~(x = NoRow \/ x.upd = "finish")
  <2>1. x \in Row /\ req \in [Req -> Request]
    BY <1>3, RowRead DEF IInv, RowsTyped
  <2>2. req' = [req EXCEPT ![p].seen = x, ![p].from = x.state, ![p].to = "free",
                           ![p].uto = "finish", ![p].pc = l]
    BY <1>3 DEF FinishRead
  <2>3. /\ "free" \in DeviceState /\ l \in {"state", "upd", "games"}
        /\ "finish" \in UpdateState /\ (x.state = "busy" => l # "state")
    BY DEF DeviceState, UpdateState
  <2> HIDE DEF l
  <2>4. req' = [req EXCEPT ![p] = [@ EXCEPT !.seen = x, !.from = x.state, !.to = "free",
                                            !.uto = "finish", !.pc = l]]
    BY <2>1, <2>2
  <2>5. QED
    BY <1>1, <2>1, <2>3, <2>4, TakeKeeps
<1>4. QED
  BY <1>2, <1>3

LEMMA DeleteReadKeeps ==
    ASSUME IInv, NEW p \in Req, DeleteRead(p) \/ DeleteCaches(p) PROVE IInv'
<1>1. UNCHANGED rowVars /\ ~Late(req[p]) /\ req[p].kind = "delete" /\ ~Pre(req[p])
  BY DEF DeleteRead, DeleteCaches, At, Late, Pre, rowVars
<1>2. CASE Finish(p)
  BY <1>1, <1>2, FinishKeeps
<1>3. CASE Load(p, row[req[p].dev], "drop") /\ row[req[p].dev] # NoRow
  <2>1. row[req[p].dev] \in Row
    BY <1>3, RowRead
  <2>2. QED
    BY <1>1, <1>3, <2>1, LoadKeeps
<1>4. CASE Goto(p, "dropRow")
  BY <1>1, <1>4, GotoKeeps DEF Label
<1>5. QED
  BY <1>2, <1>3, <1>4 DEF DeleteRead, DeleteCaches
(* The row an UPDATE of p works on *)
LEMMA LatestIs ==
    ASSUME IInv, NEW p \in Req, CanWrite(p, req[p].dev), Latest(req[p].dev) # NoRow
    PROVE  LET d == req[p].dev
               w == Latest(d)
           IN  /\ row[d] \in Row /\ w \in Row
               /\ \/ w.state = row[d].state /\ w.ver = row[d].ver
                  \/ /\ ~Pre(req[p])
                     /\ w.ver = row[d].ver + 1
                     /\ req[p].from = row[d].state
                     /\ row[d].state = "busy" =>
                           req[p].kind \in {"logout", "check"} \/ w.state = "busy"
<1> DEFINE d == req[p].dev
<1>1. d \in Device /\ row[d] \in Row \cup {NoRow} /\ DInv(d)
  BY RowRead DEF IInv
<1> HIDE DEF d
<1>2. CASE dirty[d].by = NoReq
  BY <1>1, <1>2 DEF Latest, d
<1>3. CASE dirty[d].by = p
  BY <1>1, <1>3, ReqAssumption DEF Latest, DInv, Written, d
<1>4. QED
  BY <1>2, <1>3 DEF CanWrite, d

LEMMA NextVersion ==
    ASSUME NEW x \in Row, NEW s \in DeviceState
    PROVE  LET y == [x EXCEPT !.state = s, !.ver = @ + 1]
           IN  y \in Row /\ y.state = s /\ y.ver = x.ver + 1
<1> DEFINE n == x.ver + 1
           y == [x EXCEPT !.state = s, !.ver = n]
<1>1. n \in Nat
  BY DEF Row
<1> HIDE DEF n
<1>2. y \in Row /\ y.state = s /\ y.ver = n
  BY <1>1 DEF Row
<1>3. QED
  BY <1>2 DEF n

LEMMA StateWrittenKeeps ==
    ASSUME IInv, NEW p \in Req, StateWritten(p) PROVE IInv'
<1> DEFINE d == req[p].dev
           old == Latest(d)
           w == [old EXCEPT !.state = req[p].to, !.ver = @ + 1]
           seen == [req[p].seen EXCEPT !.state = req[p].to, !.ver = @ + 1]
           r == [req[p] EXCEPT !.seen = seen, !.pc = "stateCache"]
<1>1. /\ req[p].pc = "state" /\ CanWrite(p, d) /\ old # NoRow /\ old.ver = req[p].seen.ver
      /\ Put(p, d, w) /\ UNCHANGED row
  BY DEF StateWritten, UpdateStatus, VersionMatches
<1>2. /\ req[p] \in Request /\ RInv(req[p]) /\ Pre(req[p]) /\ Checked(req[p])
      /\ req \in [Req -> Request]
  BY <1>1, RowRead DEF RInv, Pre, IInv, RowsTyped
<1>3. row[d] \in Row /\ old \in Row /\ old.state = row[d].state /\ old.ver = row[d].ver
  BY <1>1, <1>2, LatestIs
<1>4. req[p].from = row[d].state /\ req[p].seen \in Row /\ req[p].to \in DeviceState
  BY <1>1, <1>2, <1>3, NoRowIsNone DEF Checked, SeenOK
<1>5. /\ w \in Row /\ w.state = req[p].to /\ w.ver = row[d].ver + 1
      /\ seen \in Row
  <2> HIDE DEF old, d
  <2>1. w \in Row /\ w.state = req[p].to /\ w.ver = old.ver + 1
    BY <1>3, <1>4, NextVersion
  <2>2. seen \in Row
    BY <1>4, NextVersion
  <2> HIDE DEF w, seen
  <2>3. QED
    BY <1>3, <2>1, <2>2
<1> HIDE DEF seen
<1>6. /\ r \in Request /\ r.pc = "stateCache" /\ r.kind = req[p].kind /\ r.dev = d
      /\ r.from = req[p].from /\ r.uto = req[p].uto
  BY <1>2, <1>5 DEF Request, Label
<1>7. req' = [req EXCEPT ![p] = r]
  BY <1>2 DEF StateWritten, seen
<1> HIDE DEF r, w, old
<1>8. ~Pre(r) /\ (HasUpdate(r) => HasUpdate(req[p]))
  BY <1>1, <1>6 DEF Pre, HasUpdate
<1>9. RInv(r)
  BY <1>1, <1>2, <1>6, <1>8 DEF RInv
<1>10. Late(r)
  BY <1>1, <1>2, <1>6 DEF Late, RInv
<1>11. row[d].state = "busy" => r.kind \in {"logout", "check"} \/ w.state = "busy"
  BY <1>2, <1>4, <1>5, <1>6 DEF Checked
<1>12. QED
  BY <1>1, <1>3, <1>4, <1>5, <1>6, <1>7, <1>8, <1>9, <1>10, <1>11, WriteKeeps

LEMMA StateRefusedKeeps ==
    ASSUME IInv, NEW p \in Req, StateRefused(p) PROVE IInv'
<1>1. /\ UNCHANGED rowVars /\ req[p].pc = "state" /\ req[p] \in Request
      /\ req \in [Req -> Request] /\ RInv(req[p]) /\ Pre(req[p])
  BY RowRead DEF StateRefused, Pre, IInv, RowsTyped
<1>2. CASE Finish(p)
  BY <1>1, <1>2, FinishKeeps
<1>3. CASE req[p].kind = "check"
  <2> DEFINE seen == [req[p].seen EXCEPT !.state = req[p].to, !.ver = @ + 1]
             r == [req[p] EXCEPT !.seen = seen, !.pc = "recheck"]
  <2>1. req[p].seen \in Row /\ req[p].to \in DeviceState
    BY <1>1 DEF RInv, Checked
  <2>2. req' = [req EXCEPT ![p].seen.state = req[p].to, ![p].seen.ver = @ + 1,
                           ![p].pc = "recheck"]
    BY <1>3 DEF StateRefused
  <2>3. req' = [req EXCEPT ![p] = r]
    BY <1>1, <2>2
  <2>4. seen \in Row
    BY <2>1, NextVersion
  <2> HIDE DEF seen
  <2>5. /\ r \in Request /\ r.pc = "recheck" /\ r.kind = "check" /\ r.dev = req[p].dev
        /\ r.from = req[p].from
    BY <1>1, <1>3, <2>4 DEF Request, Label
  <2> HIDE DEF r
  <2>6. RInv(r) /\ ~Pre(r) /\ Late(r)
    BY <2>5 DEF RInv, Pre, HasUpdate, Late
  <2>7. QED
    BY <1>1, <1>3, <2>3, <2>5, <2>6, QuietKeeps
<1>4. QED
  BY <1>2, <1>3 DEF StateRefused

LEMMA StateCachedKeeps ==
    ASSUME IInv, NEW p \in Req, StateCached(p) PROVE IInv'
<1> DEFINE l == AfterState(p)
<1>1. UNCHANGED rowVars /\ req[p].pc = "stateCache" /\ Goto(p, l) /\ RInv(req[p])
  BY RowRead DEF StateCached, rowVars
<1>2. /\ l \in {"seat", "settle", "recheck", "upd", "games", "end"}
      /\ l \in {"upd", "games"} => req[p].kind \in {"ing", "finish"}
  BY AfterStateIs
<1>3. l \in Label
  BY <1>2 DEF Label
<1>4. ~Pre(req[p]) /\ req[p].kind # "delete"
  BY <1>1 DEF Pre, RInv
<1>5. l \in {"upd", "games"} => HasUpdate(req[p])
  BY <1>1, <1>2 DEF HasUpdate
<1> HIDE DEF l
<1>6. QED
  BY <1>1, <1>2, <1>3, <1>4, <1>5, GotoKeeps

LEMMA UpdKeeps ==
    ASSUME IInv, NEW p \in Req, UpdWritten(p) \/ UpdRefused(p) PROVE IInv'
<1>1. CASE UpdRefused(p)
  BY <1>1, FinishKeeps DEF UpdRefused
<1>2. CASE UpdWritten(p)
  <2> DEFINE d == req[p].dev
             old == Latest(d)
             w == [old EXCEPT !.upd = req[p].uto]
             r == [req[p] EXCEPT !.pc = "state"]
             e == Done(req[p])
  <2>1. /\ req[p].pc = "upd" /\ CanWrite(p, d) /\ old # NoRow
        /\ Put(p, d, w) /\ UNCHANGED row
    BY <1>2 DEF UpdWritten, UpdateUpdateState
  <2>2. /\ req[p] \in Request /\ RInv(req[p]) /\ req \in [Req -> Request]
        /\ req[p].uto \in UpdateState /\ req[p].kind # "delete"
    BY <2>1, RowRead DEF RInv, HasUpdate, IInv, RowsTyped
  <2>3. row[d] \in Row /\ old \in Row
    BY <2>1, LatestIs
  <2>4. \/ old.state = row[d].state /\ old.ver = row[d].ver
        \/ /\ ~Pre(req[p])
           /\ old.ver = row[d].ver + 1
           /\ req[p].from = row[d].state
           /\ row[d].state = "busy" =>
                 req[p].kind \in {"logout", "check"} \/ old.state = "busy"
    BY <2>1, LatestIs
  <2>5. w \in Row /\ w.state = old.state /\ w.ver = old.ver
    BY <2>2, <2>3 DEF Row
  <2> HIDE DEF w, old
  <2>6. CASE req[p].kind = "logout"
    <3>1. req' = [req EXCEPT ![p] = r]
      BY <1>2, <2>6, <2>2 DEF UpdWritten, Goto
    <3>2. /\ r \in Request /\ r.pc = "state" /\ r.kind = "logout" /\ r.dev = d
          /\ r.from = req[p].from /\ r.seen = req[p].seen /\ r.to = req[p].to
      BY <2>2, <2>6 DEF Request, Label
    <3> HIDE DEF r
    <3>3. Pre(req[p]) /\ Checked(req[p])
      BY <2>1, <2>2, <2>6 DEF Pre, RInv
    <3>4. SeenOK(r) /\ Checked(r)
      BY <3>2, <3>3 DEF Checked, SeenOK
    <3>5. RInv(r) /\ Late(r)
      BY <3>2, <3>4 DEF RInv, HasUpdate, Late
    <3>6. QED
      BY <2>1, <2>3, <2>4, <2>5, <3>1, <3>2, <3>3, <3>5, WriteKeeps
  <2>7. CASE req[p].kind # "logout"
    <3>1. req' = [req EXCEPT ![p] = e]
      BY <1>2, <2>7 DEF UpdWritten, Goto, Finish
    <3>2. RInv(e) /\ e.pc = "end" /\ e.kind = req[p].kind /\ e.dev = d /\ e.from = req[p].from
      BY <2>2, DoneTyped, DoneOK
    <3> HIDE DEF e
    <3>3. ~Pre(e) /\ Late(e)
      BY <2>2, <3>2 DEF Pre, Late
    <3>4. QED
      BY <2>1, <2>3, <2>4, <2>5, <3>1, <3>2, <3>3, WriteKeeps
  <2>8. QED
    BY <2>6, <2>7
<1>3. QED
  BY <1>1, <1>2
LEMMA EndsKeep ==
    ASSUME IInv, NEW p \in Req,
           \/ LogoutSettle(p) \/ LogoutRaises(p) \/ FinishGames(p)
           \/ Teardown(p) \/ Crash(p)
    PROVE  IInv'
<1>1. req[p] \in Request /\ RInv(req[p]) /\ req \in [Req -> Request]
  BY RowRead DEF IInv, RowsTyped
<1>2. ASSUME Commit(p) \/ Rollback(p), Finish(p) PROVE IInv'
  <2> DEFINE r == Done(req[p])
  <2>1. req' = [req EXCEPT ![p] = r] /\ RInv(r) /\ r.pc = "end"
    BY <1>1, <1>2, DoneTyped, DoneOK DEF Finish
  <2> HIDE DEF r
  <2>2. ~Pre(r)
    BY <2>1 DEF Pre
  <2>3. QED
    BY <1>2, <2>1, <2>2, EndKeeps
<1>3. ASSUME Commit(p), NEW l \in {"unseat", "upd"}, Goto(p, l),
             l = "upd" => HasUpdate(req[p]) /\ req[p].kind = "finish",
             req[p].kind # "delete"
      PROVE  IInv'
  <2> DEFINE r == [req[p] EXCEPT !.pc = l]
  <2>1. req' = [req EXCEPT ![p] = r]
    BY <1>1, <1>3 DEF Goto
  <2>2. r \in Request /\ r.pc = l /\ r.kind = req[p].kind /\ r.uto = req[p].uto
    BY <1>1 DEF Request, Label
  <2> HIDE DEF r
  <2>3. ~Pre(r) /\ (HasUpdate(r) => r.uto \in UpdateState)
    BY <1>1, <1>3, <2>2 DEF Pre, HasUpdate, RInv
  <2>4. RInv(r)
    BY <1>3, <2>2, <2>3 DEF RInv
  <2>5. QED
    BY <1>3, <2>1, <2>2, <2>3, <2>4, EndKeeps
<1>4. ASSUME Commit(p) \/ Rollback(p), req' = [req EXCEPT ![p] = Idle] PROVE IInv'
  <2> DEFINE r == Idle
  <2>1. RInv(r) /\ r.pc = "idle"
    BY IdleOK, IdleTyped
  <2> HIDE DEF r
  <2>2. req' = [req EXCEPT ![p] = r]
    BY <1>4 DEF r
  <2>3. ~Pre(r)
    BY <2>1 DEF Pre
  <2>4. QED
    BY <1>4, <2>1, <2>2, <2>3, EndKeeps
<1>5. CASE LogoutSettle(p) \/ LogoutRaises(p)
  BY <1>2, <1>3, <1>5 DEF LogoutSettle, LogoutRaises, At
<1>6. CASE FinishGames(p)
  BY <1>3, <1>6 DEF FinishGames, At, HasUpdate
<1>7. CASE Teardown(p) \/ Crash(p)
  BY <1>4, <1>7 DEF Teardown, Crash
<1>8. QED
  BY <1>5, <1>6, <1>7

LEMMA DeleteRowKeeps ==
    ASSUME IInv, NEW p \in Req, DeleteRow(p) PROVE IInv'
<1> DEFINE c == req[p].dev
           r == Done(req[p])
<1>1. /\ CanWrite(p, c) /\ row' = [row EXCEPT ![c] = NoRow] /\ dirty' = dirty
      /\ req' = [req EXCEPT ![p] = r] /\ req[p].kind = "delete"
  BY DEF DeleteRow, At, Finish
<1>2. /\ req[p] \in Request /\ req \in [Req -> Request] /\ c \in Device
      /\ row \in [Device -> Row \cup {NoRow}]
  BY RowRead DEF IInv, RowsTyped
<1>3. RInv(r) /\ r.pc = "end"
  BY <1>2, DoneTyped, DoneOK
<1> HIDE DEF r
<1>4. \A q \in Req : req'[q] = IF q = p THEN r ELSE req[q]
  BY <1>1, <1>2
<1>5. row' \in [Device -> Row \cup {NoRow}]
      /\ \A d \in Device : row'[d] = IF d = c THEN NoRow ELSE row[d]
  BY <1>1, <1>2
<1>6. RInv(r) => r \in Request
  BY DEF RInv
<1>7. RowsTyped'
  BY <1>1, <1>2, <1>3, <1>5, <1>6 DEF IInv, RowsTyped
<1>8. ASSUME NEW q \in Req PROVE RInv(req[q])'
  <2>1. CASE q = p
    BY <1>3, <1>4, <2>1 DEF RInv, Pre, HasUpdate
  <2>2. CASE q # p
    <3>1. req'[q] = req[q] /\ RInv(req[q]) /\ req[q].dev \in Device
      BY <1>4, <2>2, RowRead
    <3>2. SeenOK(req[q]) => SeenOK(req[q])'
      BY <1>5, <3>1 DEF SeenOK
    <3>3. QED
      BY <3>1, <3>2 DEF RInv, Pre, HasUpdate, Checked
  <2>3. QED
    BY <2>1, <2>2
<1>9. dirty[c].by = NoReq
  BY <1>1, <1>2 DEF IInv, DInv, Late, CanWrite
<1>10. ASSUME NEW d \in Device PROVE DInv(d)'
  <2>1. CASE dirty[d].by = NoReq
    BY <1>1, <2>1 DEF DInv
  <2>2. CASE dirty[d].by # NoReq
    <3>1. DInv(d) /\ d # c
      BY <1>9, <2>2 DEF IInv
    <3>2. dirty[d].by # p
      BY <1>1, <2>2, <3>1 DEF DInv, Late
    <3>3. req'[dirty[d].by] = req[dirty[d].by] /\ row'[d] = row[d]
      BY <1>4, <1>5, <2>2, <3>1, <3>2 DEF DInv
    <3>4. QED
      BY <1>1, <3>1, <3>3 DEF DInv, Written, Late, Pre
  <2>3. QED
    BY <2>1, <2>2
<1>11. QED
  BY <1>7, <1>8, <1>10 DEF IInv

LEMMA IInvStep == IInv /\ [Next]_vars => IInv'
<1> SUFFICES ASSUME IInv, [Next]_vars PROVE IInv'
  OBVIOUS
<1>1. ASSUME UNCHANGED <<row, dirty, req>> PROVE IInv'
  <2>1. RowsTyped'
    BY <1>1 DEF IInv, RowsTyped
  <2>2. ASSUME NEW q \in Req PROVE RInv(req[q])'
    <3>1. RInv(req[q]) /\ req' = req /\ row' = row
      BY <1>1 DEF IInv
    <3>2. QED
      BY <3>1 DEF RInv, Pre, HasUpdate, Checked, SeenOK
  <2>3. ASSUME NEW d \in Device PROVE DInv(d)'
    <3>1. DInv(d) /\ dirty' = dirty /\ req' = req /\ row' = row
      BY <1>1 DEF IInv
    <3>2. QED
      BY <3>1 DEF DInv, Written, Late, Pre
  <2>4. QED
    BY <2>1, <2>2, <2>3 DEF IInv
<1>2. ASSUME NEW p \in Req, NEW k \in Kinds, NEW d \in Device, Start(p, k, d) PROVE IInv'
  BY <1>2, StartKeeps
<1>3. ASSUME NEW p \in Req, Writes(p) PROVE IInv'
  BY <1>3, StateWrittenKeeps, StateRefusedKeeps, StateCachedKeeps, UpdKeeps DEF Writes
<1>4. ASSUME NEW p \in Req, Login(p) PROVE IInv'
  BY <1>4, LoginKeeps
<1>5. ASSUME NEW p \in Req, Logout(p) PROVE IInv'
  <2>1. CASE LogoutUnseat(p)
    BY <2>1, FinishKeeps DEF LogoutUnseat
  <2>2. QED
    BY <1>5, <2>1, LogoutReadKeeps, EndsKeep DEF Logout
<1>6. ASSUME NEW p \in Req, Check(p) PROVE IInv'
  BY <1>6, CheckKeeps
<1>7. ASSUME NEW p \in Req, Admin(p) PROVE IInv'
  BY <1>7, AdminKeeps, UpdateReadKeeps, DeleteReadKeeps, DeleteRowKeeps DEF Admin
<1>8. ASSUME NEW p \in Req, Client(p) PROVE IInv'
  BY <1>8, IngReadKeeps, FinishReadKeeps, EndsKeep DEF Client
<1>9. ASSUME NEW p \in Req, Teardown(p) \/ Crash(p) PROVE IInv'
  BY <1>9, EndsKeep
<1>13. ASSUME NEW p \in Req, LoginRaises(p) \/ LogoutRaises(p) PROVE IInv'
  BY <1>13, EndsKeep, FinishKeeps DEF LoginRaises
<1>10. ASSUME NEW d \in Device, Environment(d) PROVE IInv'
  BY <1>1, <1>10 DEF Environment, Heartbeat, HeartbeatLost, StatusExpires, rowVars
<1>11. CASE UNCHANGED vars
  BY <1>1, <1>11 DEF vars
<1>12. QED
  BY <1>2, <1>3, <1>4, <1>5, <1>6, <1>7, <1>8, <1>9, <1>10, <1>11, <1>13
  DEF Next, Step
-----------------------------------------------------------------------------
(* Only a commit changes the state of a device that stays *)
LEMMA OnlyCommits ==
    ASSUME Next, NEW d \in Device, row'[d] # row[d], IInv, row'[d] # NoRow
    PROVE  \E p \in Req : Commit(p)
<1>1. row' # row
  OBVIOUS
<1>2. ASSUME NEW p \in Req, NEW k \in Kinds, NEW e \in Device, Start(p, k, e) PROVE FALSE
  BY <1>1, <1>2 DEF Start, rowVars
<1>3. ASSUME NEW p \in Req, Writes(p) \/ Login(p) PROVE FALSE
  BY <1>1, <1>3 DEF Writes, StateWritten, StateRefused, StateCached, UpdWritten, UpdRefused,
     Login, LoginRead, LoginReread, LoginSeat, rowVars
<1>4. ASSUME NEW p \in Req, Check(p) PROVE FALSE
  BY <1>1, <1>4 DEF Check, CheckHit, CheckMiss, CheckFill, CheckTransfer, CheckAgain,
     CheckRefill, rowVars
<1>5. ASSUME NEW p \in Req, Logout(p) PROVE Commit(p)
  BY <1>1, <1>5 DEF Logout, LogoutRead, LogoutSettle, LogoutUnseat, Rollback, rowVars
<1>6. ASSUME NEW p \in Req, Client(p) PROVE Commit(p)
  BY <1>1, <1>6 DEF Client, IngRead, FinishRead, FinishGames, rowVars
<1>7. ASSUME NEW p \in Req, DeleteRow(p) PROVE FALSE
  <2>1. row' = [row EXCEPT ![req[p].dev] = NoRow] /\ row \in [Device -> Row \cup {NoRow}]
    BY <1>7 DEF DeleteRow, IInv, RowsTyped
  <2>2. QED
    BY <2>1
<1>8. ASSUME NEW p \in Req, Admin(p) PROVE FALSE
  BY <1>1, <1>7, <1>8 DEF Admin, MaintainRead, LockRead, UnlockRead, UpdateRead, DeleteRead,
     DeleteCaches, rowVars
<1>9. ASSUME NEW p \in Req, Teardown(p) \/ Crash(p) PROVE Commit(p)
  BY <1>1, <1>9 DEF Teardown, Crash, Rollback
<1>12. ASSUME NEW p \in Req, LoginRaises(p) \/ LogoutRaises(p) PROVE Commit(p)
  BY <1>1, <1>12 DEF LoginRaises, LogoutRaises, Rollback, rowVars
<1>10. ASSUME NEW e \in Device, Environment(e) PROVE FALSE
  BY <1>1, <1>10 DEF Environment, Heartbeat, HeartbeatLost, StatusExpires, rowVars
<1>11. QED
  BY <1>2, <1>3, <1>4, <1>5, <1>6, <1>8, <1>9, <1>10, <1>12 DEF Next, Step

(* A commit that changes the state does so over the state the committer    *)
(* had in hand when it read the version, and takes no player's device      *)
LEMMA StateCommits ==
    ASSUME IInv, [Next]_vars, NEW d \in Device, StateCommit(d)
    PROVE  /\ Committer(d).from = row[d].state
           /\ row[d].state = "busy" => Committer(d).kind \in {"logout", "check"}
<1>1. row'[d] # row[d] /\ row'[d] # NoRow /\ row'[d].state # row[d].state
  BY DEF StateCommit
<1>2. PICK p \in Req : Commit(p)
  BY <1>1, OnlyCommits DEF vars
<1>3. /\ dirty[d].by = p /\ row'[d] = dirty[d].row
      /\ Written(d)
  BY <1>1, <1>2, Committed
<1>4. /\ req[p].from = row[d].state
      /\ row[d].state = "busy" =>
            req[p].kind \in {"logout", "check"} \/ dirty[d].row.state = "busy"
  BY <1>1, <1>3 DEF Written
<1>5. QED
  BY <1>1, <1>3, <1>4 DEF Committer

LEMMA Inductive == Spec => []IInv
BY IInvInit, IInvStep, PTL DEF Spec

CachesTyped ==
    /\ statusCache \in [Device -> DeviceState \cup {"none"}]
    /\ beat \in [Device -> BOOLEAN]
    /\ seated \in [Device -> BOOLEAN]

LEMMA CachesStep == IInv /\ CachesTyped /\ [Next]_vars => CachesTyped'
<1> SUFFICES ASSUME IInv, CachesTyped, [Next]_vars PROVE CachesTyped'
  OBVIOUS
<1> DEFINE Quiet == UNCHANGED <<statusCache, beat, seated>>
<1>1. ASSUME Quiet PROVE CachesTyped'
  BY <1>1 DEF CachesTyped
<1>2. ASSUME NEW p \in Req
      PROVE  req[p].to \in DeviceState \cup {"none"}
             /\ req[p].seen.state \in DeviceState \cup {"none"}
  BY DEF IInv, RowsTyped, Request, Row, NoRow
<1>3. ASSUME NEW p \in Req, NEW k \in Kinds, NEW d \in Device, Start(p, k, d)
      PROVE  CachesTyped'
  BY <1>1, <1>3 DEF Start
<1>4. ASSUME NEW p \in Req, Writes(p) PROVE CachesTyped'
  <2>1. CASE StateCached(p)
    BY <1>2, <2>1 DEF StateCached, CachesTyped
  <2>2. CASE Quiet
    BY <1>1, <2>2
  <2>3. QED
    BY <1>4, <2>1, <2>2 DEF Writes, StateWritten, StateRefused, UpdWritten, UpdRefused
<1>5. ASSUME NEW p \in Req, Login(p) \/ Logout(p) PROVE CachesTyped'
  <2>1. CASE LoginSeat(p) \/ LogoutUnseat(p)
    BY <2>1 DEF LoginSeat, LogoutUnseat, CachesTyped
  <2>2. CASE Quiet
    BY <1>1, <2>2
  <2>3. QED
    BY <1>5, <2>1, <2>2 DEF Login, Logout, LoginRead, LoginReread, LogoutRead, LogoutSettle
<1>6. ASSUME NEW p \in Req, Check(p) PROVE CachesTyped'
  <2>1. CASE CheckHit(p) \/ CheckFill(p) \/ CheckRefill(p)
    BY <1>2, <2>1 DEF CheckHit, CheckFill, CheckRefill, CachesTyped
  <2>2. CASE Quiet
    BY <1>1, <2>2
  <2>3. QED
    BY <1>6, <2>1, <2>2 DEF Check, CheckMiss, CheckTransfer, CheckAgain
<1>7. ASSUME NEW p \in Req, Admin(p) \/ Client(p) PROVE CachesTyped'
  <2>1. CASE DeleteCaches(p)
    BY <2>1 DEF DeleteCaches, CachesTyped
  <2>2. CASE Quiet
    BY <1>1, <2>2
  <2>3. QED
    BY <1>7, <2>1, <2>2 DEF Admin, Client, MaintainRead, LockRead, UnlockRead, UpdateRead,
       DeleteRead, DeleteRow, IngRead, FinishRead, FinishGames
<1>8. ASSUME NEW p \in Req,
             Teardown(p) \/ Crash(p) \/ LoginRaises(p) \/ LogoutRaises(p)
      PROVE  CachesTyped'
  BY <1>1, <1>8 DEF Teardown, Crash, LoginRaises, LogoutRaises
<1>9. ASSUME NEW d \in Device, Environment(d) PROVE CachesTyped'
  BY <1>9 DEF Environment, Heartbeat, HeartbeatLost, StatusExpires, CachesTyped
<1>10. CASE UNCHANGED vars
  BY <1>1, <1>10 DEF vars
<1>11. QED
  BY <1>3, <1>4, <1>5, <1>6, <1>7, <1>8, <1>9, <1>10 DEF Next, Step

(* The row, the copies in redis and every request keep their types. *)
THEOREM TypeCorrect == Spec => []TypeOK
<1>1. Init => CachesTyped
  BY DEF Init, CachesTyped
<1>2. IInv /\ CachesTyped => TypeOK
  BY DEF IInv, RowsTyped, CachesTyped, TypeOK, RowTypeOK
<1>3. QED
  BY <1>1, <1>2, CachesStep, Inductive, PTL DEF Spec

(* set_device_status compares state_version in the UPDATE itself: whatever *)
(* the other handlers do in between, the state a request replaces is the   *)
(* one it had in hand when it read the version.                            *)
THEOREM VersionsCompared == Spec => OptimisticLocking
<1>1. IInv /\ [Next]_vars =>
        [\A d \in Device : StateCommit(d) => Committer(d).from = row[d].state]_vars
  BY StateCommits
<1>2. QED
  BY <1>1, Inductive, PTL DEF Spec, OptimisticLocking

(* Maintenance, lock, unlock and the update reports look at the state and  *)
(* write it later: the version keeps them from taking a device somebody    *)
(* logged in to meanwhile.                                                 *)
THEOREM PlayersKeepTheirDevice == Spec => BusyNotTaken
<1>1. IInv /\ [Next]_vars =>
        [\A d \in Device :
           StateCommit(d) /\ row[d].state = "busy"
             => Committer(d).kind \in {"logout", "check"}]_vars
  BY StateCommits
<1>2. QED
  BY <1>1, Inductive, PTL DEF Spec, BusyNotTaken
=============================================================================
