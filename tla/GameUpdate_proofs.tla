---------------------------- MODULE GameUpdate_proofs ----------------------------
(***************************************************************************)
(* What is proved of GameUpdate, for every set of devices and requests and *)
(* every bound: the types, that the copy of the update state follows the   *)
(* row (CInv), and that what a report marks is on the device (MInv).       *)
(***************************************************************************)
EXTENDS GameUpdate, TLAPS, WellFoundedInduction

(* Min is the least of any devices there are.                              *)
LEMMA LeastDevice ==
  ASSUME NEW D, D \subseteq Device, D # {}
  PROVE  Min(D) \in D
<1> DEFINE R == {mn \in Nat \X Nat : mn[1] < mn[2]}
<1>1. IsWellFoundedOn(R, Nat)
  BY NatLessThanWellFounded DEF OpToRel
<1>2. D \subseteq Nat
  BY UpdateAssumption
<1> HIDE DEF R
<1>3. PICK n \in D : \A m \in D : <<m, n>> \notin R
  BY <1>1, <1>2, WFMin
<1>4. \A m \in D : n <= m
  <2> TAKE m \in D
  <2>1. m \in Nat /\ n \in Nat /\ ~(m < n)
    BY <1>2, <1>3 DEF R
  <2> QED
    BY <2>1
<1> QED
  BY <1>4 DEF Min
-----------------------------------------------------------------------------
(* Types *)

(* What the next write of a request needs *)
Made(r) ==
    /\ r \in Request
    /\ r.pc = "fill" => r.kind = "poll" /\ r.told \in UpdateState
    /\ r.pc = "state" => r.kind \in {"ing", "finish"} /\ r.to \in DeviceState
    /\ r.pc = "games" => r.kind = "finish" /\ r.rows[r.dev].upd = "ing"
    /\ r.pc \in {"state", "games", "upd", "cache"} =>
           /\ r.kind \in {"ing", "finish", "update", "all"}
           /\ r.uto \in UpdateState
           /\ r.uto = "ing" => r.kind = "ing"
           /\ r.kind \in {"update", "all"} => r.uto = "wait"

(* Every device has a row, and so does whoever wrote it without a commit    *)
Rows ==
    /\ RowTypeOK
    /\ row \in [Device -> Row]
    /\ \A d \in Device : dirty[d].by # NoReq => dirty[d].row \in Row

Games == newest \in [Device -> Version] /\ current \in [Device -> Version]
         /\ installed \in [Device -> Version]
Copies == updCache \in [Device -> UpdateState \cup {"none"}]
Callers == client \in [Device -> Client] /\ job \in Job
Requests == req \in [Req -> Request] /\ \A p \in Req : Made(req[p])
Notes == upsets \in 0..MaxUpsets /\ blurred \subseteq Device /\ overtaken \subseteq Device

TInv == Rows /\ Games /\ Copies /\ Callers /\ Requests /\ Notes

Caching(p, d) == req[p].pc = "cache" /\ req[p].dev = d
Telling(p, d) == req[p].kind = "poll" /\ req[p].pc \in {"fill", "end"} /\ req[p].dev = d

(* A row is held by a request that has the device in hand, and by whoever   *)
(* is about to store its copy; two that have it at once are noted           *)
Held(d) == dirty[d].by # NoReq => d \in Uses(dirty[d].by)
Owned(d) == \A p \in Req : Caching(p, d) => dirty[d].by = p
Met(d) == \A p, q \in Req : d \in Uses(p) \cap Uses(q) /\ p # q => d \in blurred

(* The copy is the last that was written, but for who is about to store it, *)
(* and so is what a poll was told                                           *)
Copied(d) ==
    /\ updCache[d] \in {Latest(d).upd, "none"} \/ \E p \in Req : Caching(p, d)
    /\ \A p \in Req : Caching(p, d) => Latest(d).upd = req[p].uto
    /\ \A p \in Req : Telling(p, d) => req[p].told = Latest(d).upd

CInv == TInv /\ \A d \in Device : Held(d) /\ Owned(d) /\ Met(d) /\ (d \notin blurred => Copied(d))

(* What a client waits for is served *)
Waits(d) == client[d].on # NoReq =>
                LET r == req[client[d].on] IN
                r.pc # "idle" /\ r.kind = client[d].at /\ r.dev = d

(* A client whose update was begun and given up is back to polling *)
Beginning(p, d) == req[p].kind = "ing" /\ req[p].pc # "idle" /\ req[p].dev = d
Polls(d) == client[d].at = "poll" /\ client[d].on = NoReq
Begun(d) == d \notin blurred =>
                \A p \in Req : Beginning(p, d) => client[d].on = p \/ Polls(d)

(* A client that is not overtaken has, or is about to load, the newest      *)
(* version; only its last report is on its way                              *)
Loads(d) ==
    /\ \A p \in Reports(d) : client[d].on = p
    /\ client[d].at = "list" /\ client[d].on # NoReq => req[client[d].on].new = newest[d]
    /\ client[d].at = "load" => client[d].want = newest[d]
HasNewest(d) ==
    /\ client[d].at = "finish" => installed[d] = newest[d] \/ Latest(d).upd # "ing"
    /\ \A p \in Reports(d) : req[p].rows[d].upd = "ing" => req[p].new = installed[d]

(* No device is noted any less than it was, or what is said of the others  *)
(* is so of it                                                              *)
Cleared(d) == Copied(d) /\ Begun(d) /\ HasNewest(d)
Grows(d) == d \in blurred => d \in blurred' \/ Cleared(d)'

Marked(d) ==
    /\ Waits(d) /\ Begun(d)
    /\ d \notin overtaken => Loads(d)
    /\ d \notin overtaken \cup blurred => HasNewest(d)

MInv == CInv /\ \A d \in Device : Marked(d)

LEMMA NothingMade ==
  /\ Made(Nothing)
  /\ Nothing.pc = "idle" /\ Nothing.kind = "poll" /\ Nothing.told = "none"
  /\ \A d \in Device : Nothing.rows[d].upd = "none"
<1>1. Min(Device) \in Device
  BY LeastDevice, UpdateAssumption
<1>2. 0 \in Version
  BY UpdateAssumption DEF Version
<1>3. [d \in Device |-> NoRow] \in [Device -> Row \cup {NoRow}]
  OBVIOUS
<1>4. Nothing \in Request
  BY <1>1, <1>2, <1>3, Zenon DEF Nothing, Request, Kind, Label
<1> QED
  BY <1>4 DEF Made, Nothing, NoRow

(* An answer q to r, of which told is told *)
Answers(q, r, told) ==
    /\ Made(q) /\ q.pc = "end" /\ q.kind = r.kind /\ q.dev = r.dev /\ q.told = told
    /\ \A d \in Device : q.rows[d].upd = "none"

LEMMA AnswerMade ==
  ASSUME NEW r \in Request, NEW ok \in BOOLEAN, NEW told \in UpdateState \cup {"none"}
  PROVE  Answers(Answer(r, ok, told), r, told) /\ Answer(r, ok, told).ok = ok
<1> DEFINE q == Answer(r, ok, told)
<1>1. Nothing \in Request /\ \A d \in Device : Nothing.rows[d].upd = "none"
  BY NothingMade DEF Made
<1>2. q = [Nothing EXCEPT !.kind = r.kind, !.dev = r.dev, !.pc = "end", !.ok = ok, !.told = told]
  BY DEF Answer
<1>3. /\ q \in Request /\ q.pc = "end" /\ q.kind = r.kind /\ q.dev = r.dev
      /\ q.ok = ok /\ q.told = told /\ q.rows = Nothing.rows
  BY <1>1, <1>2 DEF Request, Label
<1> HIDE DEF q
<1>4. Made(q)
  BY <1>3 DEF Made
<1> QED
  BY <1>1, <1>3, <1>4 DEF q, Answers

(* the answers that tell nothing *)
LEMMA NoTold ==
  ASSUME NEW r \in Request
  PROVE  /\ Answers(Answer(r, TRUE, "none"), r, "none")
         /\ Answers(Answer(r, FALSE, "none"), r, "none")
<1>1. TRUE \in BOOLEAN /\ FALSE \in BOOLEAN
  BY Zenon
<1>2. "none" \in UpdateState \cup {"none"}
  OBVIOUS
<1> QED
  BY <1>1, <1>2, AnswerMade, Zenon

LEMMA AskingMade ==
  ASSUME NEW r \in Request, r.kind \in {"update", "all"}, r.uto = "wait"
  PROVE  LET q == Asking(r) IN
         /\ Made(q) /\ q.pc \in {"upd", "end"} /\ q.kind = r.kind
         /\ q.dev \in {r.dev} \cup r.todo
<1> DEFINE due == {d \in r.todo : r.rows[d].upd = "finish" /\ d \in r.lag}
           d == Min(due)
           q == [r EXCEPT !.dev = d, !.todo = {e \in @ : e > d}, !.pc = "upd"]
<1>1. CASE due = {}
  <2>1. Asking(r) = Answer(r, TRUE, "none")
    BY <1>1 DEF Asking
  <2> QED
    BY <2>1, NoTold DEF Answers
<1>2. CASE due # {}
  <2>1. Asking(r) = q
    BY <1>2 DEF Asking
  <2>2. r.todo \in SUBSET Device
    BY DEF Request
  <2>3. d \in due /\ d \in Device
    BY <1>2, <2>2, LeastDevice
  <2>4. {e \in r.todo : e > d} \in SUBSET Device
    BY <2>2
  <2> HIDE DEF d
  <2>5. /\ q \in Request /\ q.pc = "upd" /\ q.kind = r.kind /\ q.dev = d /\ q.uto = "wait"
    BY <2>3, <2>4 DEF Request, Label
  <2> HIDE DEF q
  <2>6. Made(q)
    BY <2>5 DEF Made, UpdateState
  <2> QED
    BY <2>1, <2>3, <2>5, <2>6
<1> QED
  BY <1>1, <1>2

(* What a request begins with: of every kind that is served                 *)
LEMMA ReadsMade ==
  ASSUME TInv, NEW k \in Kind, NEW d \in Device
  PROVE  LET q == FirstReads(k, d) IN
         /\ Made(q) /\ q.kind = k /\ q.pc \notin {"idle", "cache"}
         /\ k # "all" => q.dev = d
         /\ k = "poll" => q.told = (IF updCache[d] # "none" THEN updCache[d] ELSE row[d].upd)
         /\ k = "list" => q.new = newest[d]
         /\ k = "finish" /\ q.rows[d].upd = "ing" => row[d].upd = "ing" /\ q.new = newest[d]
<1> DEFINE r == [Nothing EXCEPT !.kind = k, !.dev = d]
           q == FirstReads(k, d)
           w == row[d]
<1>1. /\ r \in Request /\ r.kind = k /\ r.dev = d /\ r.pc = "idle"
      /\ \A e \in Device : r.rows[e].upd = "none"
  BY NothingMade DEF Made, Request
<1>2. /\ row \in [Device -> Row] /\ w \in Row /\ w.upd \in UpdateState /\ w.state \in DeviceState
      /\ updCache[d] \in UpdateState \cup {"none"} /\ newest[d] \in Version
      /\ [e \in Device |-> row[e]] = row
  BY DEF TInv, Rows, Copies, Games, Row
<1>3. DeviceState \subseteq DeviceState \cup {"none"} /\ UpdateState \subseteq UpdateState \cup {"none"}
  OBVIOUS
<1> HIDE DEF r
<1>4. CASE k = "poll"
  <2>1. q = PollReads(r)
    BY <1>4, Zenon DEF FirstReads, r
  <2>2. CASE updCache[d] # "none"
    <3>1. q = Answer(r, TRUE, updCache[d])
      BY <1>1, <2>1, <2>2 DEF PollReads
    <3>2. TRUE \in BOOLEAN
      BY Zenon
    <3>3. Answers(q, r, updCache[d])
      BY <1>1, <1>2, <3>1, <3>2, AnswerMade, Zenon
    <3> HIDE DEF q
    <3> QED
      BY <1>1, <1>4, <2>2, <3>3 DEF Answers, q
  <2>3. CASE updCache[d] = "none"
    <3>1. q = [r EXCEPT !.pc = "fill", !.told = w.upd]
      BY <1>1, <2>1, <2>3 DEF PollReads
    <3>2. q \in Request /\ q.pc = "fill" /\ q.told = w.upd /\ q.kind = k /\ q.dev = d
      BY <1>1, <1>2, <3>1 DEF Request, Label
    <3> HIDE DEF q
    <3>3. Made(q)
      BY <1>2, <1>4, <3>2 DEF Made
    <3> QED
      BY <1>4, <2>3, <3>2, <3>3 DEF q
  <2> QED
    BY <2>2, <2>3
<1>5. CASE k = "ing"
  <2>1. q = IngReads(r)
    BY <1>5, Zenon DEF FirstReads, r
  <2>2. CASE w.upd = "check" \/ w.state \notin {"free", "lock"}
    <3>1. q = Answer(r, FALSE, "none")
      BY <1>1, <2>1, <2>2 DEF IngReads
    <3>2. Answers(q, r, "none")
      BY <1>1, <3>1, NoTold
    <3> HIDE DEF q
    <3> QED
      BY <1>1, <1>5, <3>2 DEF Answers, q
  <2>3. CASE ~(w.upd = "check" \/ w.state \notin {"free", "lock"})
    <3> DEFINE l == IF w.state = "free" THEN "state" ELSE "upd"
    <3>1. q = [r EXCEPT !.rows[d] = w, !.to = "lock", !.uto = "ing", !.pc = l]
      BY <1>1, <2>1, <2>3 DEF IngReads
    <3>2. l \in {"state", "upd"}
      OBVIOUS
    <3> HIDE DEF l
    <3> DEFINE s == [r.rows EXCEPT ![d] = w]
    <3>21. s \in [Device -> Row \cup {NoRow}]
      BY <1>1, <1>2 DEF Request
    <3>22. q = [r EXCEPT !.rows = s, !.to = "lock", !.uto = "ing", !.pc = l]
      BY <3>1
    <3> HIDE DEF s, w
    <3>3. /\ q \in Request /\ q.pc \in {"state", "upd"} /\ q.to = "lock" /\ q.uto = "ing"
          /\ q.kind = k /\ q.dev = d
      BY <1>1, <3>2, <3>21, <3>22 DEF Request, Label, DeviceState, UpdateState
    <3> HIDE DEF q
    <3>4. Made(q)
      BY <1>5, <3>3 DEF Made, DeviceState, UpdateState
    <3> QED
      BY <1>5, <3>3, <3>4 DEF q
  <2> QED
    BY <2>2, <2>3
<1>6. CASE k = "list"
  <2> DEFINE a == Answer(r, TRUE, "none")
  <2>1. q = [a EXCEPT !.new = newest[d]]
    BY <1>1, <1>6, Zenon DEF FirstReads, ListReads, r
  <2>2. a \in Request /\ a.pc = "end" /\ a.kind = k /\ a.dev = d
    BY <1>1, NoTold DEF Answers, Made
  <2> HIDE DEF a
  <2>3. q \in Request /\ q.pc = "end" /\ q.kind = k /\ q.dev = d /\ q.new = newest[d]
    BY <1>2, <2>1, <2>2 DEF Request
  <2> HIDE DEF q
  <2>4. Made(q)
    BY <2>3 DEF Made
  <2> QED
    BY <1>6, <2>3, <2>4 DEF q
<1>7. CASE k = "finish"
  <2>1. q = FinishReads(r)
    BY <1>7, Zenon DEF FirstReads, r
  <2>2. CASE w.upd = "finish"
    <3>1. q = Answer(r, TRUE, "none")
      BY <1>1, <2>1, <2>2 DEF FinishReads
    <3>2. Answers(q, r, "none")
      BY <1>1, <3>1, NoTold
    <3> HIDE DEF q
    <3> QED
      BY <1>1, <1>7, <3>2 DEF Answers, q
  <2>3. CASE w.upd # "finish"
    <3> DEFINE l == IF w.state = "lock" THEN "state" ELSE Unlocked(w)
    <3>1. q = [r EXCEPT !.rows[d] = w, !.new = newest[d], !.uto = "finish",
                        !.to = "free", !.pc = l]
      BY <1>1, <2>1, <2>3 DEF FinishReads
    <3>2. l \in {"state", "games", "upd"} /\ (l = "games" => w.upd = "ing")
      BY DEF Unlocked
    <3> HIDE DEF l
    <3> DEFINE s == [r.rows EXCEPT ![d] = w]
    <3>21. s \in [Device -> Row \cup {NoRow}] /\ s[d] = w
      BY <1>1, <1>2 DEF Request
    <3>22. q = [r EXCEPT !.rows = s, !.new = newest[d], !.uto = "finish", !.to = "free", !.pc = l]
      BY <3>1
    <3> HIDE DEF s, w
    <3>3. /\ q \in Request /\ q.pc = l /\ q.to = "free" /\ q.uto = "finish"
          /\ q.kind = k /\ q.dev = d /\ q.new = newest[d] /\ q.rows[d] = w
      BY <1>1, <1>2, <3>2, <3>21, <3>22 DEF Request, Label, DeviceState, UpdateState
    <3> HIDE DEF q
    <3>4. Made(q)
      BY <1>7, <3>2, <3>3 DEF Made, DeviceState, UpdateState
    <3> QED
      BY <1>7, <3>2, <3>3, <3>4 DEF q, w
  <2> QED
    BY <2>2, <2>3
<1>8. CASE k \in {"update", "all"}
  <2> DEFINE ds == IF k = "all" THEN Device ELSE {d}
             lag == {e \in Device : current[e] # newest[e]}
             s == [r EXCEPT !.rows = row, !.todo = ds, !.uto = "wait", !.lag = lag]
  <2>1. q = Asking(s)
    BY <1>8, Zenon DEF FirstReads, UpdateReads, r
  <2>2. ds \in SUBSET Device /\ lag \in SUBSET Device /\ (k # "all" => ds = {d})
    OBVIOUS
  <2> HIDE DEF ds, lag
  <2>3. s \in Request /\ s.kind = k /\ s.uto = "wait" /\ s.dev = d /\ s.todo = ds
    BY <1>1, <1>2, <2>2 DEF Request, UpdateState
  <2> HIDE DEF s
  <2> QED
    BY <1>8, <2>1, <2>2, <2>3, AskingMade
<1> QED
  BY <1>4, <1>5, <1>6, <1>7, <1>8 DEF Kind
-----------------------------------------------------------------------------
(* What a step does to a row *)

LEMMA PutIs ==
  ASSUME TInv, NEW p \in Req, NEW d \in Device, NEW w \in Row, Put(p, d, w), row' = row
  PROVE  /\ Rows'
         /\ Latest(d)' = w /\ dirty'[d].by = p
         /\ \A e \in Device \ {d} : dirty'[e] = dirty[e] /\ Latest(e)' = Latest(e)
<1>1. p # NoReq
  BY ReqAssumption
<1> DEFINE h == [by |-> p, row |-> w]
<1>2. h \in [by : Req \cup {NoReq}, row : Row \cup {NoRow}] /\ h.by = p /\ h.row = w
  OBVIOUS
<1>3. dirty' = [dirty EXCEPT ![d] = h]
  BY DEF Put
<1> HIDE DEF h
<1>4. dirty \in [Device -> [by : Req \cup {NoReq}, row : Row \cup {NoRow}]]
  BY DEF TInv, Rows, RowTypeOK
<1>5. dirty'[d] = h /\ \A e \in Device \ {d} : dirty'[e] = dirty[e]
  BY <1>3, <1>4
<1>6. RowTypeOK'
  BY <1>2, <1>3, <1>4 DEF TInv, Rows, RowTypeOK
<1>7. Rows'
  BY <1>2, <1>5, <1>6 DEF TInv, Rows
<1> QED
  BY <1>1, <1>2, <1>5, <1>7 DEF Latest

LEMMA CommitIs ==
  ASSUME TInv, NEW p \in Req, Commit(p)
  PROVE  /\ Rows'
         /\ \A d \in Device : /\ Latest(d)' = Latest(d)
                              /\ dirty'[d].by \in {NoReq, dirty[d].by} \ {p}
<1>1. p # NoReq /\ Clean.by = NoReq /\ Clean \in [by : Req \cup {NoReq}, row : Row \cup {NoRow}]
  BY ReqAssumption DEF Clean
<1>2. dirty \in [Device -> [by : Req \cup {NoReq}, row : Row \cup {NoRow}]]
  BY DEF TInv, Rows, RowTypeOK
<1>3. \A d \in Device : /\ row'[d] = IF dirty[d].by = p THEN dirty[d].row ELSE row[d]
                        /\ dirty'[d] = IF dirty[d].by = p THEN Clean ELSE dirty[d]
  BY DEF Commit
<1>4. row' \in [Device -> Row]
  BY <1>1 DEF Commit, TInv, Rows
<1>5. RowTypeOK'
  BY <1>1, <1>2, <1>3, <1>4 DEF RowTypeOK, Commit
<1>6. Rows'
  BY <1>1, <1>3, <1>4, <1>5 DEF TInv, Rows
<1> QED
  BY <1>1, <1>3, <1>6 DEF Latest

LEMMA RollbackIs ==
  ASSUME TInv, NEW p \in Req, Rollback(p)
  PROVE  /\ Rows'
         /\ \A d \in Device : /\ dirty[d].by # p => Latest(d)' = Latest(d)
                              /\ dirty'[d].by \in {NoReq, dirty[d].by} \ {p}
<1>1. p # NoReq /\ Clean.by = NoReq /\ Clean \in [by : Req \cup {NoReq}, row : Row \cup {NoRow}]
  BY ReqAssumption DEF Clean
<1>2. dirty \in [Device -> [by : Req \cup {NoReq}, row : Row \cup {NoRow}]]
  BY DEF TInv, Rows, RowTypeOK
<1>3. row' = row /\ \A d \in Device : dirty'[d] = IF dirty[d].by = p THEN Clean ELSE dirty[d]
  BY DEF Rollback
<1>4. RowTypeOK'
  BY <1>1, <1>2, <1>3 DEF RowTypeOK, Rollback, TInv, Rows
<1>5. Rows'
  BY <1>1, <1>3, <1>4 DEF TInv, Rows
<1> QED
  BY <1>1, <1>3, <1>5 DEF Latest
-----------------------------------------------------------------------------
(* What a step makes of a request: it is served further, as what it was     *)
Turns(p, q) ==
    LET r == req[p] IN
    /\ req' = [req EXCEPT ![p] = q]
    /\ Made(q) /\ q.kind = r.kind /\ q.pc # "idle"
    /\ q.kind # "all" => q.dev = r.dev
    /\ q.kind = "finish" => \A d \in Device :
           q.rows[d].upd = "ing" => r.rows[d].upd = "ing" /\ q.new = r.new

LEMMA TurnsOn ==
  ASSUME TInv, NEW p \in Req, NEW l \in {"games", "upd", "cache"},
         req' = [req EXCEPT ![p] = [req[p] EXCEPT !.pc = l]],
         req[p].pc \in {"state", "games", "upd"},
         l = "games" => req[p].kind = "finish" /\ req[p].rows[req[p].dev].upd = "ing"
  PROVE  LET q == [req[p] EXCEPT !.pc = l] IN
         Turns(p, q) /\ q.pc = l /\ q.uto = req[p].uto /\ q.dev = req[p].dev
<1> DEFINE r == req[p]
           q == [r EXCEPT !.pc = l]
<1>1. r \in Request /\ Made(r)
  BY DEF TInv, Requests
<1>2. /\ q \in Request /\ q.pc = l /\ q.uto = r.uto /\ q.dev = r.dev /\ q.kind = r.kind
      /\ q.rows = r.rows /\ q.new = r.new
  BY <1>1 DEF Request, Label
<1>3. /\ r.pc \in {"state", "games", "upd"}
      /\ l = "games" => r.kind = "finish" /\ r.rows[r.dev].upd = "ing"
      /\ req' = [req EXCEPT ![p] = q]
  OBVIOUS
<1> HIDE DEF q, r
<1>4. Made(q)
  BY <1>1, <1>2, <1>3 DEF Made
<1>5. Turns(p, q)
  BY <1>2, <1>3, <1>4 DEF Turns, r
<1> QED
  BY <1>2, <1>5 DEF q, r

LEMMA TurnsEnd ==
  ASSUME TInv, NEW p \in Req, NEW q, NEW told, Answers(q, req[p], told), req' = [req EXCEPT ![p] = q]
  PROVE  Turns(p, q) /\ q.pc = "end" /\ q.told = told /\ q.dev = req[p].dev
BY DEF Turns, Answers

LEMMA WriteStateIs ==
  ASSUME TInv, NEW p \in Req, WriteState(p), NEW d \in Device, d = req[p].dev
  PROVE  /\ \E q : Turns(p, q) /\ q.pc \in {"upd", "games", "end"}
         /\ Rows' /\ row' = row
         /\ \/ dirty' = dirty
            \/ /\ dirty'[d].by = p /\ Latest(d)'.upd = Latest(d).upd
               /\ \A e \in Device \ {d} : dirty'[e] = dirty[e] /\ Latest(e)' = Latest(e)
<1> DEFINE r == req[p]
           w == r.rows[d]
<1>1. r \in Request /\ Made(r) /\ d = r.dev /\ r.pc = "state" /\ r.to \in DeviceState /\ row' = row
      /\ r.kind \in {"ing", "finish"}
  BY DEF TInv, Requests, Request, Made, WriteState
<1>2. CASE UpdateStatus(p, d, w.ver, r.to)
           /\ Set(p, [r EXCEPT !.pc = IF r.kind = "ing" THEN "upd" ELSE Unlocked(w)])
  <2> DEFINE l == IF r.kind = "ing" THEN "upd" ELSE Unlocked(w)
             n == Latest(d)
             v == [n EXCEPT !.state = r.to, !.ver = @ + 1]
  <2>1. l \in {"games", "upd", "cache"} /\ (l = "games" => r.kind = "finish" /\ w.upd = "ing")
    BY <1>1 DEF Unlocked
  <2>2. req' = [req EXCEPT ![p] = [r EXCEPT !.pc = l]]
    BY <1>2 DEF Set
  <2>3. \E q : Turns(p, q) /\ q.pc \in {"upd", "games", "end"}
    <3>1. l # "cache"
      BY DEF Unlocked
    <3> HIDE DEF l
    <3> QED
      BY <1>1, <2>1, <2>2, <3>1, TurnsOn
  <2>4. Latest(d) # NoRow /\ Put(p, d, v)
    BY <1>2 DEF UpdateStatus, VersionMatches
  <2>5. n \in Row
    BY <1>1, <2>4 DEF Latest, TInv, Rows
  <2> HIDE DEF n
  <2>6. v \in Row /\ v.upd = n.upd
    <3>1. /\ n \in [state : DeviceState, ver : Nat, upd : UpdateState]
          /\ n.ver + 1 \in Nat /\ n.upd \in UpdateState
      BY <2>5 DEF Row
    <3>2. v = [n EXCEPT !.state = r.to, !.ver = n.ver + 1]
      OBVIOUS
    <3>3. r.to \in DeviceState
      BY <1>1
    <3> HIDE DEF r, v
    <3> QED
      BY <3>1, <3>2, <3>3 DEF Row
  <2> HIDE DEF v
  <2>7. /\ Rows' /\ Latest(d)' = v /\ dirty'[d].by = p
        /\ \A e \in Device \ {d} : dirty'[e] = dirty[e] /\ Latest(e)' = Latest(e)
    BY <1>1, <2>4, <2>6, PutIs DEF n
  <2> QED
    BY <1>1, <2>3, <2>6, <2>7 DEF n
<1>3. CASE Set(p, Answer(r, FALSE, "none")) /\ UNCHANGED dirty
  <2>1. Turns(p, Answer(r, FALSE, "none")) /\ Answer(r, FALSE, "none").pc = "end"
    BY <1>1, <1>3, NoTold, TurnsEnd DEF Set
  <2>2. Rows'
    BY <1>1, <1>3 DEF TInv, Rows, RowTypeOK
  <2> QED
    BY <1>1, <1>3, <2>1, <2>2
<1> QED
  BY <1>2, <1>3 DEF WriteState

LEMMA MarkGamesIs ==
  ASSUME TInv, NEW p \in Req, MarkGames(p)
  PROVE  /\ \E q : Turns(p, q) /\ q.pc = "upd"
         /\ Commit(p)
         /\ req[p].pc = "games" /\ req[p].kind = "finish" /\ req[p].rows[req[p].dev].upd = "ing"
         /\ req[p].new \in Version /\ req[p].dev \in Device
         /\ current' = [current EXCEPT ![req[p].dev] = req[p].new]
<1>1. Made(req[p]) /\ req[p].pc = "games"
  BY DEF TInv, Requests, MarkGames
<1>2. req' = [req EXCEPT ![p] = [req[p] EXCEPT !.pc = "upd"]]
  BY DEF MarkGames, Set
<1>3. \E q : Turns(p, q) /\ q.pc = "upd"
  BY <1>1, <1>2, TurnsOn
<1> QED
  BY <1>1, <1>3 DEF MarkGames, Made, Request

LEMMA WriteUpdIs ==
  ASSUME TInv, NEW p \in Req, WriteUpd(p), NEW d \in Device, d = req[p].dev
  PROVE  /\ \E q : Turns(p, q) /\ q.pc = "cache" /\ q.dev = d /\ q.uto = req[p].uto
         /\ Rows' /\ row' = row /\ req[p].pc = "upd"
         /\ req[p].uto = "ing" => req[p].kind = "ing"
         /\ dirty'[d].by = p /\ Latest(d)'.upd = req[p].uto
         /\ \A e \in Device \ {d} : dirty'[e] = dirty[e] /\ Latest(e)' = Latest(e)
<1> DEFINE r == req[p]
           n == Latest(d)
           v == [n EXCEPT !.upd = r.uto]
<1>1. /\ Made(r) /\ d = r.dev /\ r.pc = "upd" /\ row' = row /\ r.uto \in UpdateState
      /\ r.uto = "ing" => r.kind = "ing"
  BY DEF TInv, Requests, Made, WriteUpd
<1>2. req' = [req EXCEPT ![p] = [r EXCEPT !.pc = "cache"]]
  BY DEF WriteUpd, Set
<1>3. LET q == [r EXCEPT !.pc = "cache"] IN
      Turns(p, q) /\ q.pc = "cache" /\ q.uto = r.uto /\ q.dev = r.dev
  BY <1>1, <1>2, TurnsOn
<1>4. n # NoRow /\ Put(p, d, v)
  BY DEF WriteUpd, UpdateUpdateState
<1>5. n \in Row
  BY <1>4 DEF Latest, TInv, Rows
<1> HIDE DEF n
<1>6. v \in Row /\ v.upd = r.uto
  BY <1>1, <1>5 DEF Row
<1> HIDE DEF v
<1>7. /\ Rows' /\ Latest(d)' = v /\ dirty'[d].by = p
      /\ \A e \in Device \ {d} : dirty'[e] = dirty[e] /\ Latest(e)' = Latest(e)
  BY <1>1, <1>4, <1>6, PutIs
<1> QED
  BY <1>1, <1>3, <1>6, <1>7

LEMMA CacheUpdIs ==
  ASSUME TInv, NEW p \in Req, CacheUpd(p)
  PROVE  /\ \E q : Turns(p, q) /\ q.pc \in {"upd", "end"}
         /\ req[p].pc = "cache" /\ req[p].uto \in UpdateState /\ req[p].dev \in Device
         /\ req[p].kind \in {"ing", "finish", "update", "all"}
         /\ updCache' = [updCache EXCEPT ![req[p].dev] = req[p].uto]
<1> DEFINE r == req[p]
<1>1. /\ Made(r) /\ r \in Request /\ r.pc = "cache" /\ r.uto \in UpdateState /\ r.dev \in Device
      /\ r.kind \in {"ing", "finish", "update", "all"}
  BY DEF TInv, Requests, Made, Request, CacheUpd
<1>2. CASE r.kind = "all"
  <2>1. r.uto = "wait"
    BY <1>1, <1>2 DEF Made
  <2>2. req' = [req EXCEPT ![p] = Asking(r)]
    BY <1>2 DEF CacheUpd, Set
  <2>3. Made(Asking(r)) /\ Asking(r).pc \in {"upd", "end"} /\ Asking(r).kind = r.kind
    BY <1>1, <1>2, <2>1, AskingMade
  <2>4. Turns(p, Asking(r))
    BY <1>2, <2>2, <2>3 DEF Turns
  <2> QED
    BY <1>1, <2>3, <2>4 DEF CacheUpd
<1>3. CASE r.kind # "all"
  <2>1. req' = [req EXCEPT ![p] = Answer(r, TRUE, "none")]
    BY <1>3 DEF CacheUpd, Set
  <2>2. \E q : Turns(p, q) /\ q.pc = "end"
    BY <1>1, <2>1, NoTold, TurnsEnd
  <2> QED
    BY <1>1, <2>2 DEF CacheUpd
<1> QED
  BY <1>2, <1>3

LEMMA FillCacheIs ==
  ASSUME TInv, NEW p \in Req, FillCache(p)
  PROVE  /\ \E q : Turns(p, q) /\ q.pc = "end" /\ q.told = req[p].told /\ q.dev = req[p].dev
         /\ req[p].pc = "fill" /\ req[p].kind = "poll"
         /\ req[p].told \in UpdateState /\ req[p].dev \in Device
         /\ updCache' = [updCache EXCEPT ![req[p].dev] = req[p].told]
<1> DEFINE r == req[p]
<1>1. /\ Made(r) /\ r \in Request /\ r.pc = "fill" /\ r.told \in UpdateState /\ r.dev \in Device
      /\ r.kind = "poll"
  BY DEF TInv, Requests, Made, Request, FillCache
<1>2. req' = [req EXCEPT ![p] = Answer(r, TRUE, r.told)]
  BY DEF FillCache, Set
<1>3. TRUE \in BOOLEAN
  BY Zenon
<1>4. Answers(Answer(r, TRUE, r.told), r, r.told)
  BY <1>1, <1>3, AnswerMade, Zenon
<1>5. \E q : Turns(p, q) /\ q.pc = "end" /\ q.told = r.told /\ q.dev = r.dev
  BY <1>2, <1>4, TurnsEnd
<1> QED
  BY <1>1, <1>5 DEF FillCache
-----------------------------------------------------------------------------
(* What a caller makes of an answer *)

LEMMA ReactIs ==
  ASSUME NEW c \in Client, NEW r \in Request
  PROVE  LET e == React(c, r) IN
         /\ e \in Client /\ e.on = NoReq
         /\ e.at = "load" => c.at = "list" /\ r.ok /\ e.want = r.new
         /\ e.at = "finish" => c.at = "poll" /\ r.told = "check"
<1> DEFINE then(s) == [Polling EXCEPT !.at = s]
           e == React(c, r)
<1>0. 0 \in Version /\ r.new \in Version
  BY UpdateAssumption DEF Version, Request
<1>1. /\ Polling \in Client /\ Polling.on = NoReq /\ Polling.at = "poll"
      /\ \A s \in {"ing", "list", "load", "finish"} :
             then(s) \in Client /\ then(s).on = NoReq /\ then(s).at = s
  BY <1>0 DEF Polling, Client
<1>2. /\ [then("load") EXCEPT !.want = r.new] \in Client
      /\ [then("load") EXCEPT !.want = r.new].on = NoReq
      /\ [then("load") EXCEPT !.want = r.new].at = "load"
      /\ [then("load") EXCEPT !.want = r.new].want = r.new
  BY <1>0 DEF Polling, Client
<1>3. \/ e = Polling
      \/ e = then("ing") \/ e = then("list")
      \/ c.at = "poll" /\ r.told = "check" /\ e = then("finish")
      \/ c.at = "list" /\ r.ok /\ e = [then("load") EXCEPT !.want = r.new]
  <2>1. CASE c.at = "poll" /\ r.told = "wait"
    BY <2>1, Zenon DEF React
  <2>2. CASE c.at = "poll" /\ r.told = "ing"
    BY <2>2 DEF React
  <2>3. CASE c.at = "poll" /\ r.told = "check"
    BY <2>3 DEF React
  <2>4. CASE c.at = "ing" /\ r.ok
    BY <2>4 DEF React
  <2>5. CASE c.at = "list" /\ r.ok
    BY <2>5 DEF React
  <2>6. CASE /\ ~(c.at = "poll" /\ r.told \in {"wait", "ing", "check"})
             /\ ~(c.at \in {"ing", "list"} /\ r.ok)
    BY <2>6 DEF React
  <2> QED
    BY <2>1, <2>2, <2>3, <2>4, <2>5, <2>6
<1> HIDE DEF e, then
<1>4. "load" # "finish" /\ "load" # "poll" /\ "finish" # "poll"
  OBVIOUS
<1>5. /\ e \in Client /\ e.on = NoReq
      /\ e.at = "load" => c.at = "list" /\ r.ok /\ e.want = r.new
      /\ e.at = "finish" => c.at = "poll" /\ r.told = "check"
  BY <1>1, <1>2, <1>3
<1> QED
  BY <1>5 DEF e

LEMMA DeliverIs ==
  ASSUME TInv, NEW p \in Req, NEW r \in Request, Deliver(p, r)
  PROVE  /\ Callers'
         /\ \A d \in Device : client'[d] = IF client[d].on = p THEN React(client[d], r) ELSE client[d]
<1>1. client \in [Device -> Client] /\ job \in Job
  BY DEF TInv, Callers
<1>2. \A d \in Device : React(client[d], r) \in Client
  BY <1>1, ReactIs
<1>3. client' \in [Device -> Client]
  BY <1>1, <1>2 DEF Deliver
<1>4. job' \in Job
  <2>1. JobTries \in Nat /\ JobTries > 0
    BY UpdateAssumption
  <2> QED
    BY <1>1, <2>1 DEF Deliver, Job
<1> QED
  BY <1>3, <1>4 DEF Callers, Deliver
-----------------------------------------------------------------------------
(* Every step keeps the types *)

Sound == Rows /\ Games /\ Copies /\ Callers /\ Requests

LEMMA RowsStay ==
  ASSUME TInv, UNCHANGED rowVars
  PROVE  Rows'
BY DEF TInv, Rows, RowTypeOK, rowVars

LEMMA TurnsKeep ==
  ASSUME TInv, NEW p \in Req, \E q : Turns(p, q)
  PROVE  Requests'
BY DEF Turns, TInv, Requests, Made

LEMMA WorkKeeps ==
  ASSUME TInv, NEW p \in Req, Work(p), UNCHANGED <<client, job>>
  PROVE  Sound'
<1> USE DEF Sound
<1>0. Callers'
  BY DEF TInv, Callers
<1>1. CASE WriteState(p)
  <2>1. req[p].dev \in Device
    BY DEF TInv, Requests, Made, Request
  <2>2. (\E q : Turns(p, q)) /\ Rows'
    BY <1>1, <2>1, WriteStateIs
  <2>3. Games' /\ Copies'
    BY <1>1 DEF WriteState, gameVars, TInv, Games, Copies
  <2> QED
    BY <1>0, <2>2, <2>3, TurnsKeep
<1>2. CASE MarkGames(p)
  <2>1. (\E q : Turns(p, q)) /\ Rows'
    BY <1>2, MarkGamesIs, CommitIs
  <2>2. Games' /\ Copies'
    BY <1>2, MarkGamesIs DEF MarkGames, TInv, Games, Copies
  <2> QED
    BY <1>0, <2>1, <2>2, TurnsKeep
<1>3. CASE WriteUpd(p)
  <2>1. req[p].dev \in Device
    BY DEF TInv, Requests, Made, Request
  <2>2. (\E q : Turns(p, q)) /\ Rows'
    BY <1>3, <2>1, WriteUpdIs
  <2>3. Games' /\ Copies'
    BY <1>3 DEF WriteUpd, gameVars, TInv, Games, Copies
  <2> QED
    BY <1>0, <2>2, <2>3, TurnsKeep
<1>4. CASE CacheUpd(p)
  <2>1. \E q : Turns(p, q)
    BY <1>4, CacheUpdIs
  <2>2. Games' /\ Copies' /\ Rows'
    BY <1>4, CacheUpdIs, RowsStay DEF CacheUpd, gameVars, TInv, Games, Copies
  <2> QED
    BY <1>0, <2>1, <2>2, TurnsKeep
<1>5. CASE FillCache(p)
  <2>1. \E q : Turns(p, q)
    BY <1>5, FillCacheIs
  <2>2. Games' /\ Copies' /\ Rows'
    BY <1>5, FillCacheIs, RowsStay DEF FillCache, gameVars, TInv, Games, Copies
  <2> QED
    BY <1>0, <2>1, <2>2, TurnsKeep
<1> QED
  BY <1>1, <1>2, <1>3, <1>4, <1>5 DEF Work

LEMMA BeginIs ==
  ASSUME TInv, NEW p \in Req, NEW k \in Kind, NEW d \in Device, Begin(p, k, d)
  PROVE  /\ Rows' /\ Games' /\ Copies' /\ Requests'
         /\ req[p].pc = "idle" /\ req' = [req EXCEPT ![p] = FirstReads(k, d)]
         /\ UNCHANGED <<rowVars, gameVars, updCache>>
<1>1. Made(FirstReads(k, d))
  BY ReadsMade
<1>2. Requests'
  BY <1>1 DEF Begin, Set, TInv, Requests, Made
<1>3. Games' /\ Copies'
  BY DEF Begin, gameVars, TInv, Games, Copies
<1> QED
  BY <1>2, <1>3, RowsStay DEF Begin, Set

LEMMA NotesKept == TInv /\ Next => Notes'
<1> SUFFICES ASSUME TInv, Next PROVE Notes'
  OBVIOUS
<1>0. Notes /\ MaxUpsets \in Nat /\ upsets \in Nat
  BY UpdateAssumption DEF TInv, Notes
<1>1. Noted => blurred' \subseteq Device /\ overtaken' \subseteq Device
  BY <1>0 DEF Noted, Notes
<1>2. CASE Calm
  BY <1>0, <1>1, <1>2 DEF Calm, Notes
<1>3. CASE Upset
  <2>1. upsets' \in 0..MaxUpsets
    BY <1>0, <1>3 DEF Upset
  <2>2. CASE Noted
    BY <1>1, <2>1, <2>2 DEF Notes
  <2>3. CASE Fault
    <3>1. \A p \in Req : Uses(p) \subseteq Device
      BY DEF Uses, TInv, Requests, Request
    <3>2. blurred' \subseteq Device /\ overtaken' \subseteq Device
      BY <1>0, <2>3, <3>1 DEF Fault, Crash, GiveUp, LogoutFails, JobTimeout, Notes
    <3> QED
      BY <2>1, <3>2 DEF Notes
  <2> QED
    BY <1>3, <2>2, <2>3 DEF Upset
<1> QED
  BY <1>2, <1>3 DEF Next

LEMMA SendKeeps ==
  ASSUME TInv, NEW p \in Req, NEW d \in Device, Send(p, d)
  PROVE  Sound' /\ client[d].at \in Kind
<1>1. client[d] \in Client /\ client[d].at \in Kind /\ client \in [Device -> Client]
  BY DEF TInv, Callers, Client, Kind, Send
<1>2. Begin(p, client[d].at, d) /\ client' = [client EXCEPT ![d].on = p] /\ job' = job
  BY DEF Send
<1>3. [client[d] EXCEPT !.on = p] \in Client
  BY <1>1 DEF Client
<1>4. Callers'
  BY <1>1, <1>2, <1>3 DEF TInv, Callers
<1> QED
  BY <1>1, <1>2, <1>4, BeginIs DEF Sound

LEMMA TryUpdateKeeps ==
  ASSUME TInv, NEW p \in Req, TryUpdate(p)
  PROVE  Sound'
<1>1. Min(Device) \in Device /\ "all" \in Kind
  BY LeastDevice, UpdateAssumption DEF Kind
<1>2. job \in Job /\ JobTries \in Nat \ {0}
  BY UpdateAssumption DEF TInv, Callers
<1>3. job' \in Job
  BY <1>2 DEF TryUpdate, Job
<1>4. Callers'
  BY <1>3 DEF TryUpdate, TInv, Callers
<1> QED
  BY <1>1, <1>4, BeginIs DEF TryUpdate, Sound

LEMMA EndKeeps ==
  ASSUME TInv, NEW p \in Req, End(p) \/ Crash(p)
  PROVE  /\ Sound'
         /\ req' = [req EXCEPT ![p] = Nothing]
         /\ UNCHANGED <<gameVars, updCache>>
<1>1. req[p] \in Request
  BY DEF TInv, Requests
<1>2. req' = [req EXCEPT ![p] = Nothing] /\ UNCHANGED <<gameVars, updCache>>
  BY DEF End, Crash, Set
<1>3. Requests'
  BY <1>2, NothingMade DEF TInv, Requests, Made
<1>4. Rows'
  BY CommitIs, RollbackIs DEF End, Crash
<1>5. Callers'
  <2>1. CASE End(p)
    BY <1>1, <2>1, DeliverIs DEF End
  <2>2. CASE Crash(p)
    <3>1. Answer(req[p], FALSE, "none") \in Request
      BY <1>1, NoTold DEF Answers, Made
    <3> QED
      BY <2>2, <3>1, DeliverIs DEF Crash
  <2> QED
    BY <2>1, <2>2
<1>6. Games' /\ Copies'
  BY <1>2 DEF gameVars, TInv, Games, Copies
<1> QED
  BY <1>2, <1>3, <1>4, <1>5, <1>6 DEF Sound

(* what happens to the device d *)
LEMMA HappensKeeps ==
  ASSUME TInv, NEW d \in Device,
         \/ Load(d) \/ Publish(d) \/ Login(d) \/ Logout(d) \/ CacheExpires(d)
         \/ GiveUp(d) \/ LogoutFails(d)
  PROVE  Sound' /\ req' = req
<1>0. req' = req
  BY DEF Load, Publish, Login, Logout, CacheExpires, GiveUp, LogoutFails
<1>1. Requests'
  BY <1>0 DEF TInv, Requests
<1>2. /\ row \in [Device -> Row] /\ row[d] \in Row /\ client \in [Device -> Client]
      /\ client[d] \in Client /\ Polling \in Client
      /\ newest[d] \in Version /\ Newest \in Nat
  BY UpdateAssumption DEF TInv, Rows, Callers, Games, Client, Polling, Version
<1>3. CASE Load(d)
  <2>1. client[d].want \in Version
    BY <1>2 DEF Client
  <2>2. [Polling EXCEPT !.at = "finish"] \in Client
    BY <1>2 DEF Client, Polling
  <2>3. Games' /\ Callers'
    BY <1>2, <1>3, <2>1, <2>2 DEF Load, TInv, Games, Callers
  <2> QED
    BY <1>1, <1>0, <1>3, <2>3, RowsStay DEF Load, Sound, TInv, Copies
<1>4. CASE Publish(d)
  <2>1. newest[d] + 1 \in Version
    BY <1>2, <1>4 DEF Publish, Version
  <2> QED
    BY <1>0, <1>1, <1>4, <2>1, RowsStay DEF Publish, Sound, TInv, Games, Copies, Callers
<1>5. CASE Login(d) \/ Logout(d)
  <2> PICK w \in Row : row' = [row EXCEPT ![d] = w] /\ UNCHANGED dirty
    <3>1. row[d].ver \in Nat /\ row[d].ver + 1 \in Nat /\ row[d].upd \in UpdateState
      BY <1>2 DEF Row
    <3>2. \A s \in DeviceState : [row[d] EXCEPT !.state = s, !.ver = row[d].ver + 1] \in Row
      BY <1>2, <3>1 DEF Row
    <3>3. [state |-> "lock", ver |-> row[d].ver + 1, upd |-> "check"] \in Row
      BY <3>1 DEF Row, DeviceState, UpdateState
    <3>4. "busy" \in DeviceState /\ "free" \in DeviceState
      BY DEF DeviceState
    <3>5. CASE Login(d)
      <4>1. row' = [row EXCEPT ![d] = [row[d] EXCEPT !.state = "busy", !.ver = row[d].ver + 1]]
        BY <1>2, <3>5 DEF Login
      <4> QED
        BY <3>2, <3>4, <3>5, <4>1 DEF Login
    <3>6. CASE Logout(d)
      <4>1. \/ row' = [row EXCEPT ![d] = [row[d] EXCEPT !.state = "free", !.ver = row[d].ver + 1]]
            \/ row' = [row EXCEPT ![d] = [state |-> "lock", ver |-> row[d].ver + 1, upd |-> "check"]]
        BY <1>2, <3>6 DEF Logout
      <4> QED
        BY <3>2, <3>3, <3>4, <3>6, <4>1 DEF Logout
    <3> QED
      BY <1>5, <3>5, <3>6
  <2>1. Rows'
    BY <1>2 DEF TInv, Rows, RowTypeOK
  <2>2. Games' /\ Callers'
    BY <1>5 DEF Login, Logout, gameVars, TInv, Games, Callers
  <2>3. Copies'
    BY <1>5 DEF Login, Logout, TInv, Copies, UpdateState
  <2> QED
    BY <1>0, <1>1, <2>1, <2>2, <2>3 DEF Sound
<1>6. CASE CacheExpires(d) \/ LogoutFails(d)
  <2>1. Copies'
    BY <1>6 DEF CacheExpires, LogoutFails, TInv, Copies, UpdateState
  <2>2. Games' /\ Callers' /\ Rows'
    BY <1>6, RowsStay DEF CacheExpires, LogoutFails, gameVars, TInv, Games, Callers
  <2> QED
    BY <1>0, <1>1, <2>1, <2>2 DEF Sound
<1>7. CASE GiveUp(d)
  BY <1>0, <1>1, <1>2, <1>7, RowsStay DEF GiveUp, gameVars, Sound, TInv, Games, Copies, Callers
<1> QED
  BY <1>3, <1>4, <1>5, <1>6, <1>7

LEMMA JobTimeoutKeeps ==
  ASSUME TInv, JobTimeout
  PROVE  Sound' /\ req' = req
<1>1. job' \in Job
  BY DEF JobTimeout, TInv, Callers, Job
<1> QED
  BY <1>1, RowsStay DEF JobTimeout, gameVars, Sound, TInv, Games, Copies, Callers, Requests

(* The steps there are, with what is noted of each *)
LEMMA StepsAre ==
  ASSUME Next
  PROVE  \/ \E d \in Device : (Load(d) \/ Publish(d) \/ Login(d) \/ Logout(d) \/ CacheExpires(d)) /\ Noted
         \/ \E p \in Req, d \in Device : Send(p, d) /\ Noted
         \/ \E p \in Req : Work(p) /\ UNCHANGED <<client, job>> /\ Noted
         \/ \E p \in Req : End(p) /\ Noted
         \/ \E p \in Req : TryUpdate(p) /\ Noted
         \/ \E p \in Req, d \in Device : AskUpdate(p, d) /\ Noted
         \/ \E p \in Req : Crash(p)
         \/ \E d \in Device : GiveUp(d) \/ LogoutFails(d)
         \/ JobTimeout
BY DEF Next, Happens, Serve, Calm, Upset, Fault

LEMMA TypeInductive == TInv /\ [Next]_vars => TInv'
<1> SUFFICES ASSUME TInv, [Next]_vars PROVE TInv'
  OBVIOUS
<1>1. CASE Next
  <2>1. Sound'
    <3>1. ASSUME NEW p \in Req, NEW d \in Device, AskUpdate(p, d) PROVE Sound'
      BY <3>1, BeginIs DEF AskUpdate, Kind, Sound, TInv, Callers
    <3> QED
      BY <1>1, <3>1, StepsAre, HappensKeeps, SendKeeps, WorkKeeps, EndKeeps, TryUpdateKeeps,
         JobTimeoutKeeps
  <2>2. Notes'
    BY <1>1, NotesKept
  <2> QED
    BY <2>1, <2>2 DEF Sound, TInv
<1>2. CASE UNCHANGED vars
  BY <1>2, RowsStay DEF vars, gameVars, history, TInv, Games, Copies, Callers, Requests, Notes
<1> QED
  BY <1>1, <1>2

LEMMA TypeInit == Init => TInv
<1> SUFFICES ASSUME Init PROVE TInv
  OBVIOUS
<1>1. 0 \in Version /\ 0 \in 0..MaxUpsets /\ 0 \in 0..(JobTries - 1)
  BY UpdateAssumption DEF Version
<1>2. Polling \in Client /\ [left |-> 0, on |-> NoReq] \in Job
  BY <1>1 DEF Polling, Client, Job
<1>3. NewRow \in Row /\ Clean \in [by : Req \cup {NoReq}, row : Row \cup {NoRow}] /\ Clean.by = NoReq
  BY DEF NewRow, Row, DeviceState, UpdateState, Clean
<1>4. Rows
  BY <1>3 DEF Init, RowInit, Rows, RowTypeOK
<1>5. Games /\ Copies /\ Callers /\ Notes
  BY <1>1, <1>2 DEF Init, Games, Copies, Callers, Notes
<1>6. Requests
  BY NothingMade DEF Init, Requests, Made
<1> QED
  BY <1>4, <1>5, <1>6 DEF TInv

(* The rows, the copies, the clients and every request keep their types.    *)
THEOREM UpdateTypeOK == Spec => []TypeOK
<1>1. TInv => TypeOK
  BY DEF TInv, Rows, Games, Copies, Callers, Requests, Notes, TypeOK
<1> QED
  BY <1>1, TypeInit, TypeInductive, PTL DEF Spec
-----------------------------------------------------------------------------
(* The copy of the update state *)

LEMMA InHand ==
  ASSUME TInv, NEW p \in Req, NEW d \in Device, Caching(p, d) \/ Telling(p, d)
  PROVE  d \in Uses(p)
BY DEF TInv, Requests, Made, Caching, Telling, Uses

LEMMA TurnsUse ==
  ASSUME TInv, NEW p \in Req, NEW q, Turns(p, q), req[p].pc # "idle"
  PROVE  \A o \in Req : Uses(o)' = Uses(o)
<1>1. req \in [Req -> Request]
  BY DEF TInv, Requests
<1>2. req'[p] = q /\ \A o \in Req \ {p} : req'[o] = req[o]
  BY <1>1 DEF Turns
<1>3. q.kind = req[p].kind /\ q.pc # "idle" /\ (q.kind # "all" => q.dev = req[p].dev)
  BY DEF Turns
<1>4. Uses(p)' = Uses(p)
  BY <1>2, <1>3 DEF Uses
<1> QED
  BY <1>2, <1>4 DEF Uses

LEMMA EndUses ==
  ASSUME TInv, NEW p \in Req, req' = [req EXCEPT ![p] = Nothing]
  PROVE  Uses(p)' = {} /\ \A o \in Req \ {p} : Uses(o)' = Uses(o)
<1>1. req'[p] = Nothing /\ \A o \in Req \ {p} : req'[o] = req[o]
  BY DEF TInv, Requests
<1> QED
  BY <1>1, NothingMade DEF Uses

(* What is said of a device that is not noted is so of one that has settled *)
LEMMA SettledCleared ==
  ASSUME TInv', NEW d \in Device, Settled(d)'
  PROVE  Cleared(d)'
<1>1. /\ updCache'[d] = "none" /\ client'[d].at = "poll" /\ client'[d].on = NoReq
      /\ \A p \in Req : d \notin Uses(p)'
  BY DEF Settled, Polling
<1>2. \A p \in Req : ~Caching(p, d)' /\ ~Telling(p, d)'
  BY <1>1 DEF TInv, Requests, Made, Caching, Telling, Uses
<1>3. Copied(d)'
  BY <1>1, <1>2 DEF Copied
<1>4. Begun(d)'
  BY <1>1 DEF Begun, Polls
<1>5. Reports(d)' = {}
  BY <1>1 DEF Reports, Uses
<1>6. HasNewest(d)'
  BY <1>1, <1>5 DEF HasNewest
<1> QED
  BY <1>3, <1>4, <1>6 DEF Cleared

LEMMA BlurredGrows ==
  ASSUME TInv', Next, NEW d \in Device
  PROVE  Grows(d)
<1>1. CASE Noted
  <2>1. Settled(d)' => Cleared(d)'
    BY SettledCleared
  <2> QED
    BY <1>1, <2>1 DEF Noted, Grows
<1>2. CASE blurred \subseteq blurred'
  BY <1>2 DEF Grows
<1> QED
  BY <1>1, <1>2 DEF Next, Calm, Upset, Fault, Crash, GiveUp, LogoutFails, JobTimeout

LEMMA NotedMet ==
  ASSUME TInv, Noted, NEW d \in Device
  PROVE  Met(d)'
BY DEF Noted, Meets, Meeting, Met

(* Who uses a device that is not noted is alone with it                     *)
LEMMA Alone ==
  ASSUME NEW p \in Req, NEW o \in Req \ {p}, NEW d \in Device, Met(d)', d \notin blurred',
         d \in Uses(p)'
  PROVE  d \notin Uses(o)'
BY DEF Met

(* A step of p that is neither at the copy nor at the row of d             *)
LEMMA CopiedStays ==
  ASSUME NEW d \in Device, Copied(d), updCache'[d] \in {updCache[d], "none"},
         Latest(d)'.upd = Latest(d).upd,
         \A p \in Req : \/ req'[p] = req[p]
                        \/ /\ ~Caching(p, d) /\ ~Caching(p, d)'
                           /\ Telling(p, d)' => req'[p].told = Latest(d).upd
  PROVE  Copied(d)'
<1>1. \A p \in Req : Caching(p, d)' <=> Caching(p, d)
  BY DEF Caching
<1>2. updCache'[d] \in {Latest(d).upd, "none"} \/ \E p \in Req : Caching(p, d)
  BY DEF Copied
<1>3. ASSUME NEW p \in Req, Caching(p, d)' PROVE Latest(d).upd = req'[p].uto
  <2>1. Caching(p, d)
    BY <1>1, <1>3
  <2>2. req'[p] = req[p]
    BY <1>3, <2>1
  <2> QED
    BY <2>1, <2>2 DEF Copied
<1>4. \A p \in Req : Telling(p, d)' => req'[p].told = Latest(d).upd
  BY DEF Copied, Telling
<1> QED
  BY <1>1, <1>2, <1>3, <1>4 DEF Copied

(* Who holds the row goes on using the device                               *)
LEMMA HeldStays ==
  ASSUME TInv, NEW d \in Device, Held(d), dirty'[d].by \in {NoReq, dirty[d].by},
         \A o \in Req : o = dirty'[d].by => (Uses(o)' = Uses(o))
  PROVE  Held(d)'
<1>1. dirty[d].by \in Req \cup {NoReq}
  BY DEF TInv, Rows, RowTypeOK
<1>2. CASE dirty'[d].by = NoReq
  BY <1>2 DEF Held
<1>3. CASE dirty'[d].by # NoReq
  <2> PICK o \in Req : o = dirty'[d].by
    BY <1>1, <1>3
  <2>1. d \in Uses(o) /\ Uses(o)' = Uses(o)
    BY <1>3 DEF Held
  <2> QED
    BY <1>3, <2>1 DEF Held
<1> QED
  BY <1>2, <1>3

LEMMA OwnedStays ==
  ASSUME NEW d \in Device, Owned(d), NEW p \in Req, ~Caching(p, d)',
         \A o \in Req \ {p} : req'[o] = req[o],
         dirty[d].by # p => dirty'[d] = dirty[d]
  PROVE  Owned(d)'
<1> SUFFICES ASSUME NEW o \in Req, Caching(o, d)' PROVE dirty'[d].by = o
  BY DEF Owned
<1>1. o # p /\ Caching(o, d)
  BY DEF Caching
<1> QED
  BY <1>1 DEF Owned

Kept(d) == Held(d) /\ Owned(d) /\ (d \notin blurred => Copied(d))

LEMMA WriteStateKept ==
  ASSUME CInv, NEW p \in Req, WriteState(p), NEW d \in Device, Grows(d)
  PROVE  Kept(d)'
<1> PICK e \in Device : e = req[p].dev
  BY DEF CInv, TInv, Requests, Request
<1>0. /\ TInv /\ req[p].pc = "state" /\ req[p].kind \in {"ing", "finish"}
      /\ e \in Uses(p) /\ updCache' = updCache
  BY DEF CInv, TInv, Requests, Made, Request, WriteState, Uses
<1> PICK q : Turns(p, q) /\ q.pc \in {"upd", "games", "end"}
  BY <1>0, WriteStateIs
<1>1. \A o \in Req : Uses(o)' = Uses(o)
  BY <1>0, TurnsUse
<1>2. /\ req'[p] = q /\ (\A o \in Req \ {p} : req'[o] = req[o])
      /\ q.pc # "cache" /\ q.kind # "poll"
  BY <1>0 DEF Turns, TInv, Requests
<1>3. row' = row /\ \/ dirty' = dirty
                    \/ /\ dirty'[e].by = p /\ \A c \in Device \ {e} : dirty'[c] = dirty[c]
                       /\ \A c \in Device : c = e => Latest(c)'.upd = Latest(c).upd
  BY <1>0, WriteStateIs
<1>4. Latest(d)'.upd = Latest(d).upd
  BY <1>3 DEF Latest
<1>5. Held(d)'
  <2>1. CASE d = e /\ dirty'[d].by = p
    BY <1>0, <1>1, <2>1 DEF Held
  <2>2. CASE dirty'[d] = dirty[d]
    BY <1>0, <1>1, <2>2, HeldStays DEF CInv
  <2> QED
    BY <1>3, <2>1, <2>2
<1>7. Owned(d)'
  <2>1. ~Caching(p, d)'
    BY <1>2 DEF Caching
  <2>2. CASE dirty'[d] = dirty[d]
    BY <1>2, <2>1, <2>2, OwnedStays DEF CInv
  <2>3. CASE d = e
    <3>1. CanWrite(p, d)
      BY <2>3 DEF WriteState
    <3>2. ASSUME NEW o \in Req \ {p} PROVE ~Caching(o, d)
      BY <3>1, ReqAssumption DEF CanWrite, CInv, Owned
    <3> QED
      BY <1>2, <2>1, <3>2 DEF Owned, Caching
  <2> QED
    BY <1>3, <2>2, <2>3
<1>6. d \notin blurred' => Copied(d)'
  <2> SUFFICES ASSUME d \notin blurred', d \notin blurred PROVE Copied(d)'
    BY DEF Grows, Cleared
  <2>1. Copied(d)
    BY DEF CInv
  <2> QED
    BY <1>0, <1>2, <1>4, <2>1, CopiedStays DEF Caching, Telling
<1> QED
  BY <1>5, <1>6, <1>7 DEF Kept

LEMMA MarkGamesKept ==
  ASSUME CInv, NEW p \in Req, MarkGames(p), NEW d \in Device, Grows(d)
  PROVE  Kept(d)'
<1>0. TInv /\ updCache' = updCache /\ req[p].pc = "games" /\ req[p].kind = "finish"
  BY MarkGamesIs DEF CInv, MarkGames
<1> PICK q : Turns(p, q) /\ q.pc = "upd"
  BY <1>0, MarkGamesIs
<1>1. \A o \in Req : Uses(o)' = Uses(o)
  BY <1>0, TurnsUse
<1>2. /\ req'[p] = q /\ (\A o \in Req \ {p} : req'[o] = req[o])
      /\ q.pc # "cache" /\ q.kind # "poll"
  BY <1>0 DEF Turns, TInv, Requests
<1>3. Latest(d)' = Latest(d) /\ dirty'[d].by \in {NoReq, dirty[d].by}
  BY <1>0, MarkGamesIs, CommitIs
<1>5. Held(d)'
  BY <1>0, <1>1, <1>3, HeldStays DEF CInv
<1>7. Owned(d)'
  <2>1. ~Caching(p, d)'
    BY <1>2 DEF Caching
  <2>2. dirty[d].by # p => dirty'[d] = dirty[d]
    BY <1>0, MarkGamesIs DEF Commit
  <2> QED
    BY <1>2, <2>1, <2>2, OwnedStays DEF CInv
<1>6. d \notin blurred' => Copied(d)'
  <2> SUFFICES ASSUME d \notin blurred', d \notin blurred PROVE Copied(d)'
    BY DEF Grows, Cleared
  <2>1. Copied(d)
    BY DEF CInv
  <2> QED
    BY <1>0, <1>2, <1>3, <2>1, CopiedStays DEF Caching, Telling
<1> QED
  BY <1>5, <1>6, <1>7 DEF Kept

LEMMA WriteUpdKept ==
  ASSUME CInv, NEW p \in Req, WriteUpd(p), NEW d \in Device, Grows(d), Met(d)'
  PROVE  Kept(d)'
<1> PICK e \in Device : e = req[p].dev
  BY DEF CInv, TInv, Requests, Request
<1>0. /\ TInv /\ req[p].pc = "upd"
      /\ req[p].kind \in {"ing", "finish", "update", "all"}
      /\ e \in Uses(p) /\ updCache' = updCache
  BY DEF CInv, TInv, Requests, Made, Request, WriteUpd, Uses
<1> PICK q : Turns(p, q) /\ q.pc = "cache" /\ q.dev = e /\ q.uto = req[p].uto
  BY <1>0, WriteUpdIs
<1>1. \A o \in Req : Uses(o)' = Uses(o)
  BY <1>0, TurnsUse
<1>2. /\ req'[p] = q /\ (\A o \in Req \ {p} : req'[o] = req[o])
      /\ q.kind # "poll"
  BY <1>0 DEF Turns, TInv, Requests
<1>3. /\ dirty'[e].by = p /\ \A c \in Device \ {e} : dirty'[c] = dirty[c] /\ Latest(c)' = Latest(c)
      /\ d = e => Latest(d)'.upd = req[p].uto
  BY <1>0, WriteUpdIs
<1>4. Held(d)'
  <2>1. CASE d = e /\ dirty'[d].by = p
    BY <1>0, <1>1, <2>1 DEF Held
  <2>2. CASE dirty'[d] = dirty[d]
    BY <1>0, <1>1, <2>2, HeldStays DEF CInv
  <2> QED
    BY <1>3, <2>1, <2>2
<1>6. Owned(d)'
  <2>1. CASE d # e
    <3>1. ~Caching(p, d)' /\ dirty'[d] = dirty[d]
      BY <1>0, <1>2, <1>3, <2>1 DEF Caching
    <3> QED
      BY <1>2, <3>1, OwnedStays DEF CInv
  <2>2. CASE d = e
    <3>1. CanWrite(p, d)
      BY <2>2 DEF WriteUpd
    <3>2. ASSUME NEW o \in Req \ {p} PROVE ~Caching(o, d)'
      BY <1>2, <3>1, ReqAssumption DEF CanWrite, CInv, Owned, Caching
    <3> QED
      BY <1>3, <2>2, <3>2 DEF Owned
  <2> QED
    BY <2>1, <2>2
<1>5. d \notin blurred' => Copied(d)'
  <2> SUFFICES ASSUME d \notin blurred', d \notin blurred PROVE Copied(d)'
    BY DEF Grows, Cleared
  <2>1. Copied(d)
    BY DEF CInv
  <2>2. CASE d = e
    <3>1. \A o \in Req \ {p} : ~Caching(o, d)' /\ ~Telling(o, d)'
      <4> SUFFICES ASSUME NEW o \in Req \ {p}, Caching(o, d)' \/ Telling(o, d)' PROVE FALSE
        OBVIOUS
      <4>1. Caching(o, d) \/ Telling(o, d)
        BY <1>2 DEF Caching, Telling
      <4>2. d \in Uses(o)'
        BY <1>0, <1>1, <4>1, InHand
      <4>3. d \in Uses(p)'
        BY <1>0, <1>1, <2>2
      <4> QED
        BY <4>2, <4>3, Alone
    <3>2. Caching(p, d)' /\ ~Telling(p, d)'
      BY <1>2, <2>2 DEF Caching, Telling
    <3>3. \A o \in Req : Caching(o, d)' => Latest(d)'.upd = req'[o].uto
      BY <1>2, <1>3, <2>2, <3>1
    <3> QED
      BY <3>1, <3>2, <3>3 DEF Copied
  <2>3. CASE d # e
    BY <1>0, <1>2, <1>3, <2>1, <2>3, CopiedStays DEF Caching, Telling
  <2> QED
    BY <2>2, <2>3
<1> QED
  BY <1>4, <1>5, <1>6 DEF Kept

LEMMA CacheUpdKept ==
  ASSUME CInv, NEW p \in Req, CacheUpd(p), NEW d \in Device, Grows(d)
  PROVE  Kept(d)'
<1> PICK e \in Device : e = req[p].dev
  BY DEF CInv, TInv, Requests, Request
<1>0. /\ TInv /\ req[p].pc = "cache" /\ req[p].kind # "poll" /\ UNCHANGED rowVars
      /\ updCache' = [updCache EXCEPT ![e] = req[p].uto]
      /\ updCache \in [Device -> UpdateState \cup {"none"}]
  BY CacheUpdIs DEF CInv, CacheUpd, TInv, Copies
<1> PICK q : Turns(p, q) /\ q.pc \in {"upd", "end"}
  BY <1>0, CacheUpdIs
<1>1. \A o \in Req : Uses(o)' = Uses(o)
  BY <1>0, TurnsUse
<1>2. /\ req'[p] = q /\ (\A o \in Req \ {p} : req'[o] = req[o]) /\ q.kind # "poll"
      /\ q.pc # "cache"
  BY <1>0 DEF Turns, TInv, Requests
<1>3. Latest(d)' = Latest(d) /\ dirty' = dirty
  BY <1>0 DEF Latest, rowVars
<1>4. Held(d)'
  BY <1>0, <1>1, <1>3, HeldStays DEF CInv
<1>6. Owned(d)'
  <2>1. ~Caching(p, d)'
    BY <1>0, <1>2 DEF Caching
  <2> QED
    BY <1>2, <1>3, <2>1, OwnedStays DEF CInv
<1>5. d \notin blurred' => Copied(d)'
  <2> SUFFICES ASSUME d \notin blurred', d \notin blurred PROVE Copied(d)'
    BY DEF Grows, Cleared
  <2>1. Copied(d)
    BY DEF CInv
  <2>2. ~Caching(p, d)' /\ ~Telling(p, d)'
    BY <1>2 DEF Caching, Telling
  <2>3. CASE d = e
    <3>1. updCache'[d] = Latest(d).upd
      BY <1>0, <2>1, <2>3 DEF Copied, Caching
    <3>2. ASSUME NEW o \in Req PROVE /\ Caching(o, d)' => Latest(d).upd = req'[o].uto
                                     /\ Telling(o, d)' => req'[o].told = Latest(d).upd
      <4>1. CASE o = p
        BY <2>2, <4>1
      <4>2. CASE o # p
        <5>1. req'[o] = req[o]
          BY <1>2, <4>2
        <5> QED
          BY <2>1, <5>1 DEF Copied, Caching, Telling
      <4> QED
        BY <4>1, <4>2
    <3> QED
      BY <1>3, <3>1, <3>2 DEF Copied
  <2>4. CASE d # e
    <3>1. updCache'[d] = updCache[d] /\ ~Caching(p, d)
      BY <1>0, <2>4 DEF Caching
    <3> QED
      BY <1>2, <1>3, <2>1, <2>2, <3>1, CopiedStays
  <2> QED
    BY <2>3, <2>4
<1> QED
  BY <1>4, <1>5, <1>6 DEF Kept

LEMMA FillCacheKept ==
  ASSUME CInv, NEW p \in Req, FillCache(p), NEW d \in Device, Grows(d)
  PROVE  Kept(d)'
<1> PICK e \in Device : e = req[p].dev
  BY DEF CInv, TInv, Requests, Request
<1>0. /\ TInv /\ req[p].pc = "fill" /\ req[p].kind = "poll" /\ UNCHANGED rowVars
      /\ updCache' = [updCache EXCEPT ![e] = req[p].told]
      /\ updCache \in [Device -> UpdateState \cup {"none"}]
  BY FillCacheIs DEF CInv, FillCache, TInv, Copies
<1> PICK q : Turns(p, q) /\ q.pc = "end" /\ q.told = req[p].told /\ q.dev = e
  BY <1>0, FillCacheIs
<1>1. \A o \in Req : Uses(o)' = Uses(o)
  BY <1>0, TurnsUse
<1>2. req'[p] = q /\ \A o \in Req \ {p} : req'[o] = req[o]
  BY <1>0 DEF Turns, TInv, Requests
<1>3. Latest(d)' = Latest(d) /\ dirty' = dirty
  BY <1>0 DEF Latest, rowVars
<1>4. Held(d)'
  BY <1>0, <1>1, <1>3, HeldStays DEF CInv
<1>6. Owned(d)'
  <2>1. ~Caching(p, d)'
    BY <1>0, <1>2 DEF Caching
  <2> QED
    BY <1>2, <1>3, <2>1, OwnedStays DEF CInv
<1>5. d \notin blurred' => Copied(d)'
  <2> SUFFICES ASSUME d \notin blurred', d \notin blurred PROVE Copied(d)'
    BY DEF Grows, Cleared
  <2>1. Copied(d)
    BY DEF CInv
  <2>2. ~Caching(p, d)' /\ ~Caching(p, d)
    BY <1>0, <1>2 DEF Caching
  <2>3. d = e => req[p].told = Latest(d).upd
    BY <1>0, <2>1 DEF Copied, Telling
  <2>4. Telling(p, d)' => req'[p].told = Latest(d).upd
    BY <1>2, <2>3 DEF Telling
  <2>5. CASE d = e
    <3>1. updCache'[d] = Latest(d).upd
      BY <1>0, <2>3, <2>5
    <3>2. ASSUME NEW o \in Req PROVE /\ Caching(o, d)' => Latest(d).upd = req'[o].uto
                                     /\ Telling(o, d)' => req'[o].told = Latest(d).upd
      <4>1. CASE o = p
        BY <2>2, <2>4, <4>1
      <4>2. CASE o # p
        <5>1. req'[o] = req[o]
          BY <1>2, <4>2
        <5> QED
          BY <2>1, <5>1 DEF Copied, Caching, Telling
      <4> QED
        BY <4>1, <4>2
    <3> QED
      BY <1>3, <3>1, <3>2 DEF Copied
  <2>6. CASE d # e
    <3>1. updCache'[d] = updCache[d]
      BY <1>0, <2>6
    <3> QED
      BY <1>2, <1>3, <2>1, <2>2, <2>4, <3>1, CopiedStays
  <2> QED
    BY <2>5, <2>6
<1> QED
  BY <1>4, <1>5, <1>6 DEF Kept

(* A request that begins with a device nobody else has in hand reads the    *)
(* state of the row, and no other                                           *)
LEMMA BeginKept ==
  ASSUME CInv, NEW p \in Req, NEW k \in Kind, NEW e \in Device, Begin(p, k, e),
         NEW d \in Device, Grows(d), Met(d)'
  PROVE  Kept(d)'
<1> PICK q : q = FirstReads(k, e)
  OBVIOUS
<1>0. /\ TInv /\ req[p].pc = "idle" /\ req' = [req EXCEPT ![p] = q]
      /\ UNCHANGED rowVars /\ updCache' = updCache
  BY BeginIs DEF CInv
<1>1. /\ q.kind = k /\ q.pc \notin {"idle", "cache"}
      /\ k = "poll" => q.dev = e
      /\ k = "poll" => q.told = (IF updCache[e] # "none" THEN updCache[e] ELSE row[e].upd)
  BY <1>0, ReadsMade
<1>2. req'[p] = q /\ \A o \in Req \ {p} : req'[o] = req[o]
  BY <1>0 DEF TInv, Requests
<1>3. Uses(p) = {} /\ \A o \in Req \ {p} : Uses(o)' = Uses(o)
  BY <1>0, <1>2 DEF Uses
<1>4. Latest(d)' = Latest(d) /\ dirty' = dirty
  BY <1>0 DEF Latest, rowVars
<1>5. Held(d)
  BY DEF CInv
<1>6. dirty[d].by # p
  BY <1>3, <1>5, ReqAssumption DEF Held
<1>7. Held(d)'
  <2>1. \A o \in Req : o = dirty'[d].by => (Uses(o)' = Uses(o))
    BY <1>3, <1>4, <1>6
  <2> QED
    BY <1>0, <1>4, <1>5, <2>1, HeldStays
<1>9. Owned(d)'
  <2>1. ~Caching(p, d)'
    BY <1>1, <1>2 DEF Caching
  <2> QED
    BY <1>2, <1>4, <2>1, OwnedStays DEF CInv
<1>8. d \notin blurred' => Copied(d)'
  <2> SUFFICES ASSUME d \notin blurred', d \notin blurred PROVE Copied(d)'
    BY DEF Grows, Cleared
  <2>1. Copied(d)
    BY DEF CInv
  <2>2. ~Caching(p, d) /\ ~Caching(p, d)'
    BY <1>0, <1>1, <1>2 DEF Caching
  <2>3. ASSUME Telling(p, d)' PROVE req'[p].told = Latest(d).upd
    <3>1. k = "poll" /\ d = e /\ d \in Uses(p)'
      BY <1>1, <1>2, <2>3 DEF Telling, Uses
    <3>2. \A o \in Req : d \notin Uses(o)
      BY <1>3, <3>1, Alone
    <3>3. dirty[d].by = NoReq
      BY <1>0, <1>5, <3>2 DEF Held, TInv, Rows, RowTypeOK
    <3>4. \A o \in Req : ~Caching(o, d)
      BY <1>0, <3>2, InHand
    <3>5. updCache[d] \in {row[d].upd, "none"} /\ Latest(d) = row[d]
      BY <2>1, <3>3, <3>4 DEF Copied, Latest
    <3> QED
      BY <1>1, <1>2, <3>1, <3>5
  <2> QED
    BY <1>0, <1>2, <1>4, <2>1, <2>2, <2>3, CopiedStays
<1> QED
  BY <1>7, <1>8, <1>9 DEF Kept

LEMMA EndKept ==
  ASSUME CInv, NEW p \in Req, End(p), NEW d \in Device, Grows(d)
  PROVE  Kept(d)'
<1>0. /\ TInv /\ req[p].pc = "end" /\ updCache' = updCache /\ Commit(p)
      /\ req' = [req EXCEPT ![p] = Nothing]
  BY EndKeeps DEF CInv, End
<1>1. \A o \in Req \ {p} : Uses(o)' = Uses(o)
  BY <1>0, EndUses
<1>2. req'[p] = Nothing /\ \A o \in Req \ {p} : req'[o] = req[o]
  BY <1>0 DEF TInv, Requests
<1>3. Latest(d)' = Latest(d) /\ dirty'[d].by \in {NoReq, dirty[d].by} \ {p}
  BY <1>0, CommitIs
<1>4. Held(d)'
  BY <1>0, <1>1, <1>3, HeldStays DEF CInv
<1>5. ~Caching(p, d) /\ ~Caching(p, d)' /\ ~Telling(p, d)'
  BY <1>0, <1>2, NothingMade DEF Caching, Telling
<1>7. Owned(d)'
  <2>1. dirty[d].by # p => dirty'[d] = dirty[d]
    BY <1>0 DEF Commit
  <2> QED
    BY <1>2, <1>5, <2>1, OwnedStays DEF CInv
<1>6. d \notin blurred' => Copied(d)'
  <2> SUFFICES ASSUME d \notin blurred', d \notin blurred PROVE Copied(d)'
    BY DEF Grows, Cleared
  <2>1. Copied(d)
    BY DEF CInv
  <2> QED
    BY <1>0, <1>2, <1>3, <1>5, <2>1, CopiedStays
<1> QED
  BY <1>4, <1>6, <1>7 DEF Kept

LEMMA CrashKept ==
  ASSUME CInv, NEW p \in Req, Crash(p), NEW d \in Device
  PROVE  Kept(d)' /\ Met(d)'
<1>0. /\ TInv /\ updCache' = updCache /\ Rollback(p) /\ blurred' = blurred \cup {c \in Device : dirty[c].by = p}
      /\ req' = [req EXCEPT ![p] = Nothing]
  BY EndKeeps DEF CInv, Crash
<1>1. Uses(p)' = {} /\ \A o \in Req \ {p} : Uses(o)' = Uses(o)
  BY <1>0, EndUses
<1>2. req'[p] = Nothing /\ \A o \in Req \ {p} : req'[o] = req[o]
  BY <1>0 DEF TInv, Requests
<1>3. dirty'[d].by \in {NoReq, dirty[d].by} \ {p}
  BY <1>0, RollbackIs
<1>4. Held(d)'
  BY <1>0, <1>1, <1>3, HeldStays DEF CInv
<1>5. Met(d)'
  BY <1>0, <1>1 DEF CInv, Met
<1>7. Owned(d)'
  <2>1. dirty[d].by # p => dirty'[d] = dirty[d]
    BY <1>0 DEF Rollback
  <2>2. ~Caching(p, d)'
    BY <1>2, NothingMade DEF Caching
  <2> QED
    BY <1>2, <2>1, <2>2, OwnedStays DEF CInv
<1>6. d \notin blurred' => Copied(d)'
  <2> SUFFICES ASSUME d \notin blurred' PROVE Copied(d)'
    OBVIOUS
  <2>1. Copied(d) /\ Owned(d)
    BY <1>0 DEF CInv
  <2>2. dirty[d].by # p
    BY <1>0
  <2>3. Latest(d)' = Latest(d)
    BY <1>0, <2>2, RollbackIs
  <2>4. ~Caching(p, d) /\ ~Caching(p, d)' /\ ~Telling(p, d)'
    BY <1>2, <2>1, <2>2, NothingMade DEF Owned, Caching, Telling
  <2> QED
    BY <1>0, <1>2, <2>1, <2>3, <2>4, CopiedStays
<1> QED
  BY <1>4, <1>5, <1>6, <1>7 DEF Kept

(* A step of no request: what is left is the row and the copy               *)
LEMMA ReqStays ==
  ASSUME CInv, req' = req, UNCHANGED dirty, NEW d \in Device
  PROVE  /\ Held(d)' /\ Owned(d)' /\ ((d \in blurred => d \in blurred') => Met(d)')
         /\ Copied(d) /\ Latest(d)'.upd = Latest(d).upd /\ updCache'[d] \in {updCache[d], "none"}
            => Copied(d)'
<1>1. \A o \in Req : Uses(o)' = Uses(o)
  BY DEF Uses
<1>2. Held(d)'
  BY <1>1, HeldStays DEF CInv
<1>4. Owned(d)'
  BY DEF CInv, Owned, Caching
<1>3. (d \in blurred => d \in blurred') => Met(d)'
  BY <1>1 DEF CInv, Met
<1> QED
  BY <1>2, <1>3, <1>4, CopiedStays

LEMMA HappensKept ==
  ASSUME CInv, NEW e \in Device, NEW d \in Device, Grows(d),
         \/ (Load(e) \/ Publish(e) \/ Login(e) \/ Logout(e) \/ CacheExpires(e)) /\ Noted
         \/ GiveUp(e) \/ LogoutFails(e)
  PROVE  Kept(d)' /\ Met(d)'
<1>0. /\ TInv /\ req' = req /\ dirty' = dirty
      /\ dirty \in [Device -> [by : Req \cup {NoReq}, row : Row \cup {NoRow}]]
      /\ row \in [Device -> Row] /\ updCache \in [Device -> UpdateState \cup {"none"}]
  BY DEF CInv, TInv, Rows, RowTypeOK, Copies, Load, Publish, Login, Logout, CacheExpires,
         GiveUp, LogoutFails, rowVars
<1>1. Held(d)' /\ Owned(d)' /\ Met(d)'
  <2>1. Noted \/ blurred \subseteq blurred'
    BY DEF GiveUp, LogoutFails
  <2> QED
    BY <1>0, <2>1, ReqStays, NotedMet
<1>2. d \notin blurred' => Copied(d)'
  <2> SUFFICES ASSUME d \notin blurred', d \notin blurred PROVE Copied(d)'
    BY DEF Grows, Cleared
  <2>1. Copied(d)
    BY DEF CInv
  <2>2. CASE Latest(d)'.upd = Latest(d).upd /\ updCache'[d] \in {updCache[d], "none"}
    BY <1>0, <2>1, <2>2, ReqStays
  <2>3. CASE Load(e) \/ Publish(e) \/ GiveUp(e)
    BY <2>2, <2>3 DEF Load, Publish, GiveUp, rowVars, Latest
  <2>4. CASE Login(e)
    <3>1. row'[d].upd = row[d].upd /\ updCache' = updCache
      BY <1>0, <2>4 DEF Login, Row
    <3>2. dirty'[d] = dirty[d] /\ (dirty[d].by = NoReq \/ dirty[d].by # NoReq)
      BY <1>0
    <3> QED
      BY <2>2, <3>1, <3>2 DEF Latest
  <2>5. CASE CacheExpires(e)
    BY <1>0, <2>2, <2>5 DEF CacheExpires, rowVars, Latest
  <2>6. CASE LogoutFails(e)
    <3>1. d # e
      BY <2>6 DEF LogoutFails
    <3> QED
      BY <1>0, <2>2, <2>6, <3>1 DEF LogoutFails, rowVars, Latest
  <2>7. CASE Logout(e) /\ Noted
    <3>1. CASE d # e
      <4>1. row'[d] = row[d] /\ updCache'[d] = updCache[d]
        BY <1>0, <2>7, <3>1 DEF Logout
      <4> QED
        BY <1>0, <2>2, <4>1 DEF Latest
    <3>2. CASE d = e /\ row[d].upd # "finish"
      <4>1. row'[d].upd = row[d].upd /\ updCache' = updCache
        BY <1>0, <2>7, <3>2 DEF Logout, Row
      <4> QED
        BY <1>0, <2>2, <4>1 DEF Latest
    <3>3. CASE d = e /\ row[d].upd = "finish"
      <4>1. row'[d].upd = "check" /\ updCache'[d] = "check" /\ dirty[d].by = NoReq
        BY <1>0, <2>7, <3>3 DEF Logout, Clean
      <4>2. Latest(d)'.upd = "check"
        BY <1>0, <4>1 DEF Latest
      <4>3. \A p \in Req : d \notin Uses(p)
        BY <2>7, <3>3, <4>1 DEF Noted, Meets
      <4>4. \A p \in Req : ~Caching(p, d) /\ ~Telling(p, d)
        BY <1>0, <4>3, InHand
      <4>5. \A p \in Req : ~Caching(p, d)' /\ ~Telling(p, d)'
        BY <1>0, <4>4 DEF Caching, Telling
      <4> QED
        BY <4>1, <4>2, <4>5 DEF Copied
    <3> QED
      BY <3>1, <3>2, <3>3
  <2> QED
    BY <2>3, <2>4, <2>5, <2>6, <2>7
<1> QED
  BY <1>1, <1>2 DEF Kept

LEMMA CopyInductive == CInv /\ [Next]_vars => CInv'
<1> SUFFICES ASSUME CInv, [Next]_vars PROVE CInv'
  OBVIOUS
<1>0. TInv /\ TInv'
  BY TypeInductive DEF CInv
<1> SUFFICES ASSUME NEW d \in Device PROVE Kept(d)' /\ Met(d)'
  BY <1>0 DEF CInv, Kept
<1>1. CASE Next
  <2>1. Grows(d)
    BY <1>0, <1>1, BlurredGrows
  <2>2. Noted => Met(d)'
    BY <1>0, NotedMet
  <2>3. ASSUME NEW p \in Req, NEW e \in Device, Send(p, e), Noted PROVE Kept(d)'
    <3>1. client[e].at \in Kind
      BY <1>0, <2>3, SendKeeps
    <3> QED
      BY <2>1, <2>2, <2>3, <3>1, BeginKept DEF Send
  <2>4. ASSUME NEW p \in Req, NEW e \in Device, AskUpdate(p, e), Noted PROVE Kept(d)'
    <3>1. "update" \in Kind
      BY DEF Kind
    <3> QED
      BY <2>1, <2>2, <2>4, <3>1, BeginKept DEF AskUpdate
  <2>5. ASSUME NEW p \in Req, TryUpdate(p), Noted PROVE Kept(d)'
    <3>1. "all" \in Kind /\ Min(Device) \in Device
      BY LeastDevice, UpdateAssumption DEF Kind
    <3> QED
      BY <2>1, <2>2, <2>5, <3>1, BeginKept DEF TryUpdate
  <2>6. ASSUME NEW p \in Req, Work(p), Noted PROVE Kept(d)'
    BY <2>1, <2>2, <2>6, WriteStateKept, MarkGamesKept, WriteUpdKept, CacheUpdKept, FillCacheKept
       DEF Work
  <2>7. JobTimeout => Kept(d)' /\ Met(d)'
    <3> SUFFICES ASSUME JobTimeout PROVE Kept(d)' /\ Met(d)'
      OBVIOUS
    <3>1. req' = req /\ UNCHANGED rowVars /\ updCache' = updCache /\ blurred' = blurred
      BY DEF JobTimeout
    <3>2. dirty' = dirty /\ Latest(d)' = Latest(d)
      BY <3>1 DEF rowVars, Latest
    <3> QED
      BY <3>1, <3>2, ReqStays DEF Kept, CInv
  <2> QED
    BY <1>1, <2>1, <2>2, <2>3, <2>4, <2>5, <2>6, <2>7, StepsAre, HappensKept, EndKept, CrashKept
<1>2. CASE UNCHANGED vars
  <2>1. req' = req /\ UNCHANGED rowVars /\ updCache' = updCache /\ blurred' = blurred
    BY <1>2 DEF vars, history
  <2>2. dirty' = dirty /\ Latest(d)' = Latest(d)
    BY <2>1 DEF rowVars, Latest
  <2> QED
    BY <2>1, <2>2, ReqStays DEF Kept, CInv
<1> QED
  BY <1>1, <1>2

LEMMA CopyInit == Init => CInv
<1> SUFFICES ASSUME Init PROVE CInv
  OBVIOUS
<1>1. TInv
  BY TypeInit
<1>2. \A p \in Req : req[p] = Nothing
  BY DEF Init
<1>3. \A p \in Req : Uses(p) = {}
  BY <1>2, NothingMade DEF Uses
<1>4. ASSUME NEW d \in Device PROVE Held(d) /\ Owned(d) /\ Met(d) /\ Copied(d)
  <2>1. updCache[d] = "none" /\ dirty[d].by = NoReq
    BY DEF Init, RowInit, Clean
  <2>2. \A p \in Req : ~Caching(p, d) /\ ~Telling(p, d)
    BY <1>2, NothingMade DEF Caching, Telling
  <2> QED
    BY <1>3, <2>1, <2>2 DEF Held, Owned, Met, Copied
<1> QED
  BY <1>1, <1>4 DEF CInv

(* While no request has a device in hand, nobody holds its row and nobody   *)
(* is about to store a copy: what redis has is what the row says.           *)
THEOREM CopyFollows == Spec => []CopyFollowsRow
<1>1. CInv => CopyFollowsRow
  <2> SUFFICES ASSUME CInv, NEW d \in Device \ blurred, \A p \in Req : d \notin Uses(p)
               PROVE  updCache[d] \in {row[d].upd, "none"}
    BY DEF CopyFollowsRow
  <2>1. TInv /\ Copied(d) /\ Held(d)
    BY DEF CInv
  <2>2. dirty[d].by = NoReq
    BY <2>1 DEF Held, TInv, Rows, RowTypeOK
  <2>3. \A p \in Req : ~Caching(p, d)
    BY <2>1, InHand
  <2> QED
    BY <2>1, <2>2, <2>3 DEF Copied, Latest
<1> QED
  BY <1>1, CopyInit, CopyInductive, PTL DEF Spec
-----------------------------------------------------------------------------
(* The mark *)

(* A device that is overtaken no more has just got its list                 *)
LEMMA NotOvertaken ==
  ASSUME Noted, NEW d \in Device, d \notin overtaken'
  PROVE  ~Late(d) /\ (d \notin overtaken \/ Fresh(d))
BY DEF Noted

(* what the client of d waits for is a request of its own *)
LEMMA OnIs ==
  ASSUME TInv, NEW d \in Device, Waits(d)
  PROVE  /\ client[d].at \in {"poll", "ing", "list", "load", "finish"}
         /\ client[d].on \in Req \cup {NoReq}
         /\ client[d].at = "load" => client[d].on = NoReq
         /\ \A p \in Req : client[d].on = p => /\ req[p].pc # "idle" /\ req[p].dev = d
                                               /\ req[p].kind = client[d].at
                                               /\ req[p].kind # "all"
<1>1. client[d] \in Client
  BY DEF TInv, Callers
<1>2. client[d].at \in {"poll", "ing", "list", "load", "finish"} /\ client[d].on \in Req \cup {NoReq}
  BY <1>1 DEF Client
<1>3. \A p \in Req : client[d].on = p => /\ req[p].pc # "idle" /\ req[p].dev = d
                                         /\ req[p].kind = client[d].at
  BY ReqAssumption DEF Waits
<1>4. \A p \in Req : req[p].kind # "load"
  BY DEF TInv, Requests, Request, Kind
<1> QED
  BY <1>2, <1>3, <1>4

(* a step that is no request's and does not begin an update *)
LEMMA MarkedStays ==
  ASSUME NEW d \in Device, Marked(d), req' = req, client'[d] = client[d],
         newest'[d] = newest[d], installed'[d] = installed[d],
         Grows(d), d \notin overtaken' => d \notin overtaken,
         Latest(d)'.upd = "ing" => Latest(d).upd = "ing"
  PROVE  Marked(d)'
<1>1. Waits(d)'
  BY DEF Marked, Waits
<1>2. Begun(d)'
  BY DEF Marked, Begun, Beginning, Polls, Grows, Cleared
<1>3. Reports(d)' = Reports(d)
  BY DEF Reports
<1>4. d \notin overtaken' => Loads(d)'
  BY <1>3 DEF Marked, Loads
<1>5. d \notin overtaken' \cup blurred' => HasNewest(d)'
  BY <1>3 DEF Marked, HasNewest, Grows, Cleared
<1> QED
  BY <1>1, <1>2, <1>4, <1>5 DEF Marked

(* what the work of p may make of the state of a row *)
LEMMA WorkUpd ==
  ASSUME TInv, NEW p \in Req, Work(p), NEW d \in Device
  PROVE  Latest(d)'.upd = "ing" => Latest(d).upd = "ing" \/ Beginning(p, d)
<1> PICK e \in Device : e = req[p].dev
  BY DEF TInv, Requests, Request
<1>1. CASE WriteState(p)
  <2>1. \/ row' = row /\ dirty' = dirty
        \/ d = e /\ Latest(d)'.upd = Latest(d).upd
        \/ Latest(d)' = Latest(d)
    BY <1>1, WriteStateIs
  <2> QED
    BY <2>1 DEF Latest
<1>2. CASE MarkGames(p)
  BY <1>2, MarkGamesIs, CommitIs
<1>3. CASE WriteUpd(p)
  <2>1. /\ d # e => Latest(d)' = Latest(d)
        /\ d = e => Latest(d)'.upd = req[p].uto
        /\ req[p].uto = "ing" => req[p].kind = "ing"
        /\ req[p].pc = "upd"
    BY <1>3, WriteUpdIs
  <2> QED
    BY <2>1 DEF Beginning
<1>4. CASE CacheUpd(p) \/ FillCache(p)
  BY <1>4 DEF CacheUpd, FillCache, rowVars, Latest
<1> QED
  BY <1>1, <1>2, <1>3, <1>4 DEF Work

(* While the client reports, no request begins an update; and what a report *)
(* has read it keeps.                                                       *)
LEMMA WorkMarked ==
  ASSUME MInv, NEW p \in Req, Work(p), client' = client, Noted, NEW d \in Device,
         Grows(d)
  PROVE  Marked(d)'
<1>0. TInv /\ Marked(d) /\ newest' = newest /\ installed' = installed
  BY DEF MInv, CInv, Work, WriteState, MarkGames, WriteUpd, CacheUpd, FillCache, gameVars
<1>1. req[p].pc \in {"fill", "state", "games", "upd", "cache"} /\ req[p].kind # "list"
  BY <1>0 DEF Work, WriteState, MarkGames, WriteUpd, CacheUpd, FillCache, TInv, Requests, Made
<1> PICK q : Turns(p, q)
  <2>1. \E e \in Device : e = req[p].dev
    BY <1>0 DEF TInv, Requests, Request
  <2> QED
    BY <1>0, <2>1, WriteStateIs, MarkGamesIs, WriteUpdIs, CacheUpdIs, FillCacheIs DEF Work
<1>2. /\ req'[p] = q /\ (\A o \in Req \ {p} : req'[o] = req[o])
      /\ q.kind = req[p].kind /\ q.pc # "idle"
      /\ q.kind # "all" => q.dev = req[p].dev
      /\ q.kind = "finish" => \A e \in Device :
             q.rows[e].upd = "ing" => req[p].rows[e].upd = "ing" /\ q.new = req[p].new
  BY <1>0 DEF Turns, TInv, Requests
<1>3. /\ Waits(d) /\ Begun(d)
      /\ d \notin overtaken => Loads(d)
      /\ d \notin overtaken \cup blurred => HasNewest(d)
  BY <1>0 DEF Marked
<1>4. Waits(d)'
  <2>1. CASE client[d].on = p
    BY <1>0, <1>2, <1>3, <2>1, OnIs DEF Waits
  <2>2. CASE client[d].on # p
    BY <1>0, <1>2, <1>3, <2>2, OnIs DEF Waits
  <2> QED
    BY <2>1, <2>2
<1>5. \A o \in Req : Beginning(o, d)' => Beginning(o, d)
  BY <1>1, <1>2 DEF Beginning
<1>6. Begun(d)'
  BY <1>3, <1>5 DEF Begun, Polls, Grows, Cleared
<1>7. d \notin overtaken' => d \notin overtaken
  BY NotOvertaken DEF Fresh
<1>8. \A o \in Req : o \in Reports(d)' => o \in Reports(d)
  BY <1>1, <1>2 DEF Reports
<1>9. d \notin overtaken' => Loads(d)'
  <2> SUFFICES ASSUME d \notin overtaken' PROVE Loads(d)'
    OBVIOUS
  <2>1. Loads(d)
    BY <1>3, <1>7
  <2>2. \A o \in Reports(d)' : client'[d].on = o
    <3>1. \A o \in Reports(d)' : o \in Req
      BY DEF Reports
    <3> QED
      BY <1>8, <2>1, <3>1 DEF Loads
  <2>3. client[d].at = "list" /\ client[d].on # NoReq => req'[client[d].on].new = newest[d]
    BY <1>0, <1>1, <1>2, <1>3, <2>1, OnIs DEF Loads
  <2> QED
    BY <1>0, <2>1, <2>2, <2>3 DEF Loads
<1>10. d \notin overtaken' \cup blurred' => HasNewest(d)'
  <2> SUFFICES ASSUME d \notin overtaken' \cup blurred', d \notin blurred PROVE HasNewest(d)'
    BY DEF Grows, Cleared
  <2>1. HasNewest(d)
    BY <1>3, <1>7
  <2>2. client[d].at = "finish" => ~Beginning(p, d)
    BY <1>0, <1>3, OnIs DEF Begun, Beginning, Polls
  <2>3. client[d].at = "finish" => installed[d] = newest[d] \/ Latest(d)'.upd # "ing"
    BY <1>0, <2>1, <2>2, WorkUpd DEF HasNewest
  <2>4. ASSUME NEW o \in Reports(d)', req'[o].rows[d].upd = "ing" PROVE req'[o].new = installed[d]
    <3>1. o \in Req /\ o \in Reports(d)
      BY <1>8 DEF Reports
    <3>2. req[o].rows[d].upd = "ing" /\ req'[o].new = req[o].new
      BY <1>2, <2>4, <3>1 DEF Reports
    <3> QED
      BY <2>1, <3>1, <3>2 DEF HasNewest
  <2> QED
    BY <1>0, <2>3, <2>4 DEF HasNewest
<1> QED
  BY <1>4, <1>6, <1>9, <1>10 DEF Marked

(* Whoever asks for an update, and the daily job, leave the client alone    *)
LEMMA AskMarked ==
  ASSUME MInv, NEW p \in Req, NEW k \in {"update", "all"}, NEW e \in Device, Begin(p, k, e),
         client' = client, Noted, NEW d \in Device, Grows(d)
  PROVE  Marked(d)'
<1> PICK q : q = FirstReads(k, e)
  OBVIOUS
<1>0. /\ TInv /\ Marked(d) /\ req[p].pc = "idle" /\ req' = [req EXCEPT ![p] = q]
      /\ newest' = newest /\ installed' = installed /\ Latest(d)' = Latest(d)
  BY BeginIs DEF MInv, CInv, Kind, gameVars, rowVars, Latest
<1>1. q.kind = k
  BY <1>0, ReadsMade DEF Kind
<1>2. req'[p] = q /\ \A o \in Req \ {p} : req'[o] = req[o]
  BY <1>0 DEF TInv, Requests
<1>3. /\ Waits(d) /\ Begun(d)
      /\ d \notin overtaken => Loads(d)
      /\ d \notin overtaken \cup blurred => HasNewest(d)
  BY <1>0 DEF Marked
<1>4. client[d].on \in Req \cup {NoReq} /\ client[d].on # p
  BY <1>0, <1>3, OnIs
<1>5. \A o \in Req : client[d].on = o => req'[o] = req[o]
  BY <1>2, <1>4
<1>6. Waits(d)'
  BY <1>3, <1>4, <1>5 DEF Waits
<1>7. Begun(d)'
  BY <1>1, <1>2, <1>3 DEF Begun, Beginning, Polls, Grows, Cleared
<1>8. Reports(d)' = Reports(d)
  BY <1>0, <1>1, <1>2 DEF Reports
<1>9. d \notin overtaken' => d \notin overtaken
  BY NotOvertaken DEF Fresh
<1>10. d \notin overtaken' => Loads(d)'
  BY <1>0, <1>3, <1>4, <1>5, <1>8, <1>9 DEF Loads
<1>11. d \notin overtaken' \cup blurred' => HasNewest(d)'
  <2> SUFFICES ASSUME d \notin overtaken' \cup blurred', d \notin blurred PROVE HasNewest(d)'
    BY DEF Grows, Cleared
  <2>1. \A o \in Reports(d) : o \in Req /\ req'[o] = req[o]
    BY <1>0, <1>2 DEF Reports
  <2> QED
    BY <1>0, <1>3, <1>8, <1>9, <2>1 DEF HasNewest
<1> QED
  BY <1>6, <1>7, <1>10, <1>11 DEF Marked

(* A client reports what it has just loaded, and only then; one that begins *)
(* an update anew while the request of the last one is served is noted      *)
LEMMA SendMarked ==
  ASSUME MInv, NEW p \in Req, NEW e \in Device, Send(p, e), Noted, NEW d \in Device,
         Grows(d), Met(d)'
  PROVE  Marked(d)'
<1> PICK k : k = client[e].at
  OBVIOUS
<1> PICK q : q = FirstReads(k, e)
  OBVIOUS
<1>a. TInv /\ k \in Kind
  BY SendKeeps DEF MInv, CInv
<1>0. /\ Marked(d) /\ Marked(e) /\ Held(d)
      /\ req[p].pc = "idle" /\ req' = [req EXCEPT ![p] = q]
      /\ newest' = newest /\ installed' = installed /\ Latest(d)' = Latest(d)
      /\ client \in [Device -> Client] /\ client[e].on = NoReq
      /\ client' = [client EXCEPT ![e].on = p]
  BY <1>a, BeginIs DEF Send, MInv, CInv, gameVars, rowVars, Latest, TInv, Callers
<1>1. /\ k \in {"poll", "ing", "list", "finish"} /\ q.kind = k /\ q.pc # "idle" /\ q.dev = e
      /\ k = "list" => q.new = newest[e]
      /\ k = "finish" /\ q.rows[e].upd = "ing" => row[e].upd = "ing" /\ q.new = newest[e]
  <2>1. k \in {"poll", "ing", "list", "finish"}
    BY <1>a, <1>0, OnIs DEF Marked, Kind
  <2> QED
    BY <1>a, <2>1, ReadsMade
<1>2. req'[p] = q /\ \A o \in Req \ {p} : req'[o] = req[o]
  BY <1>a, <1>0 DEF TInv, Requests
<1>3. /\ Waits(d) /\ Begun(d)
      /\ d \notin overtaken => Loads(d)
      /\ d \notin overtaken \cup blurred => HasNewest(d)
  BY <1>0 DEF Marked
<1>4. /\ d = e => client'[d].on = p /\ client'[d].at = k /\ client'[d].want = client[d].want
      /\ d # e => client'[d] = client[d]
  BY <1>0 DEF Client
<1>5. client[d].on \in Req \cup {NoReq} /\ client[d].on # p
  BY <1>a, <1>0, <1>3, OnIs
<1>6. d # e => \A o \in Req : client'[d].on = o => req'[o] = req[o]
  BY <1>2, <1>4, <1>5
<1>7. p # NoReq
  BY ReqAssumption
<1>8. Waits(d)'
  <2>1. CASE d = e
    BY <1>1, <1>2, <1>4, <2>1 DEF Waits
  <2>2. CASE d # e
    BY <1>3, <1>4, <1>5, <1>6, <2>2 DEF Waits
  <2> QED
    BY <2>1, <2>2
<1>9. Begun(d)'
  <2> SUFFICES ASSUME d \notin blurred', d \notin blurred, NEW o \in Req, Beginning(o, d)'
               PROVE  client'[d].on = o \/ Polls(d)'
    BY DEF Begun, Grows, Cleared
  <2>1. CASE o = p
    BY <1>1, <1>2, <1>4, <2>1 DEF Beginning
  <2>2. CASE o # p
    <3>1. Beginning(o, d)
      BY <1>2, <2>2 DEF Beginning
    <3>2. client[d].on = o \/ Polls(d)
      BY <1>3, <3>1 DEF Begun
    <3>3. CASE d # e
      BY <1>4, <3>2, <3>3 DEF Polls
    <3>4. CASE d = e
      <4>1. Polls(d)
        BY <1>0, <3>2, <3>4, ReqAssumption
      <4>2. d \in Uses(p)'
        BY <1>1, <1>2, <3>4, <4>1 DEF Uses, Polls
      <4>3. d \in Uses(o)'
        BY <2>2 DEF Uses, Beginning
      <4> QED
        BY <2>2, <4>2, <4>3, Alone
    <3> QED
      BY <3>3, <3>4
  <2> QED
    BY <2>1, <2>2
<1>10. d \notin overtaken' => d \notin overtaken
  <2>1. client'[d].at = client[d].at
    BY <1>4
  <2> QED
    BY <2>1, NotOvertaken DEF Fresh
<1>11. \A o \in Req \ {p} : o \in Reports(d)' => o \in Reports(d)
  BY <1>2 DEF Reports
<1>12. p \in Reports(d)' => d = e /\ k = "finish"
  BY <1>1, <1>2 DEF Reports
<1>13. d \notin overtaken' => Loads(d)'
  <2> SUFFICES ASSUME d \notin overtaken' PROVE Loads(d)'
    OBVIOUS
  <2>1. Loads(d)
    BY <1>3, <1>10
  <2>2. ASSUME NEW o \in Reports(d)' PROVE client'[d].on = o
    <3>1. CASE o = p
      BY <1>4, <1>12, <2>2, <3>1
    <3>2. CASE o # p
      <4>1. o \in Req /\ client[d].on = o
        BY <1>11, <2>1, <2>2, <3>2 DEF Loads, Reports
      <4>2. d # e
        BY <1>0, <4>1, ReqAssumption
      <4> QED
        BY <1>4, <4>1, <4>2
    <3> QED
      BY <3>1, <3>2
  <2>3. client'[d].at = "list" /\ client'[d].on # NoReq => req'[client'[d].on].new = newest'[d]
    <3>1. CASE d = e
      BY <1>0, <1>1, <1>2, <1>4, <3>1
    <3>2. CASE d # e
      BY <1>0, <1>4, <1>5, <1>6, <2>1, <3>2 DEF Loads
    <3> QED
      BY <3>1, <3>2
  <2>4. client'[d].at = "load" => client'[d].want = newest'[d]
    BY <1>0, <1>1, <1>4, <2>1 DEF Loads
  <2> QED
    BY <2>2, <2>3, <2>4 DEF Loads
<1>14. d \notin overtaken' \cup blurred' => HasNewest(d)'
  <2> SUFFICES ASSUME d \notin overtaken' \cup blurred', d \notin blurred PROVE HasNewest(d)'
    BY DEF Grows, Cleared
  <2>1. HasNewest(d)
    BY <1>3, <1>10
  <2>2. client'[d].at = "finish" => installed'[d] = newest'[d] \/ Latest(d)'.upd # "ing"
    BY <1>0, <1>4, <2>1 DEF HasNewest
  <2>3. ASSUME NEW o \in Reports(d)', req'[o].rows[d].upd = "ing" PROVE req'[o].new = installed'[d]
    <3>1. CASE o = p
      <4>1. d = e /\ k = "finish"
        BY <1>12, <2>3, <3>1
      <4>2. row[d].upd = "ing" /\ q.new = newest[d]
        BY <1>1, <1>2, <2>3, <3>1, <4>1
      <4>3. d \in Uses(p)'
        BY <1>1, <1>2, <4>1 DEF Uses
      <4>4. \A o1 \in Req \ {p} : d \notin Uses(o1)
        <5>1. \A o1 \in Req \ {p} : d \notin Uses(o1)' /\ (Uses(o1)' = Uses(o1))
          BY <1>2, <4>3, Alone DEF Uses
        <5> QED
          BY <5>1
      <4>5. d \notin Uses(p)
        BY <1>0 DEF Uses
      <4>6. dirty[d].by = NoReq
        BY <1>a, <1>0, <4>4, <4>5 DEF Held, TInv, Rows, RowTypeOK
      <4>7. Latest(d).upd = "ing"
        BY <4>2, <4>6 DEF Latest
      <4> QED
        BY <1>0, <1>2, <1>4, <2>1, <3>1, <4>1, <4>2, <4>7 DEF HasNewest
    <3>2. CASE o # p
      <4>1. o \in Req \ {p}
        BY <2>3, <3>2 DEF Reports
      <4>2. o \in Reports(d) /\ req'[o] = req[o]
        BY <1>2, <1>11, <2>3, <4>1
      <4> QED
        BY <1>0, <2>1, <2>3, <4>2 DEF HasNewest
    <3> QED
      BY <3>1, <3>2
  <2> QED
    BY <2>2, <2>3 DEF HasNewest
<1> QED
  BY <1>8, <1>9, <1>13, <1>14 DEF Marked

(* When p is done, the client that waited for it goes on: it loads what the *)
(* list of p says, and after a self-check nothing is marked.  When p dies   *)
(* the client starts again.                                                 *)
LEMMA LeaveMarked ==
  ASSUME MInv, NEW p \in Req, NEW r \in Request,
         req' = [req EXCEPT ![p] = Nothing], UNCHANGED <<newest, installed>>,
         NEW d \in Device,
         client'[d] = IF client[d].on = p THEN React(client[d], r) ELSE client[d],
         r.ok => r.new = req[p].new,
         d \notin blurred => r.told # "check" \/ (req[p].pc = "end" /\ r.told = req[p].told),
         Grows(d), d \notin blurred' => Latest(d)' = Latest(d),
         d \notin overtaken' => d \notin overtaken \/ Fresh(d)
  PROVE  Marked(d)'
<1> PICK c \in Client : c = client[d]
  BY DEF MInv, CInv, TInv, Callers
<1> PICK e : e = React(c, r)
  OBVIOUS
<1>1. /\ e.on = NoReq
      /\ e.at = "load" => c.at = "list" /\ r.ok /\ e.want = r.new
      /\ e.at = "finish" => c.at = "poll" /\ r.told = "check"
  BY ReactIs
<1>2. /\ c.on = p => client'[d] = e
      /\ c.on # p => client'[d] = c
  OBVIOUS
<1>3. /\ Waits(d) /\ Begun(d)
      /\ d \notin overtaken => Loads(d)
      /\ d \notin overtaken \cup blurred => HasNewest(d)
  BY DEF MInv, Marked
<1>4. req'[p] = Nothing /\ \A o \in Req \ {p} : req'[o] = req[o]
  BY DEF MInv, CInv, TInv, Requests
<1>5. /\ c.on \in Req \cup {NoReq}
      /\ \A o \in Req : c.on = o => req[o].dev = d /\ req[o].kind = c.at /\ req[o].pc # "idle"
  BY <1>3, OnIs DEF MInv, CInv
<1>6. Waits(d)'
  <2>1. CASE c.on = p
    BY <1>1, <1>2, <2>1 DEF Waits
  <2>2. CASE c.on # p
    BY <1>2, <1>3, <1>4, <1>5, <2>2 DEF Waits
  <2> QED
    BY <2>1, <2>2
<1>7. Begun(d)'
  <2> SUFFICES ASSUME d \notin blurred', d \notin blurred, NEW o \in Req, Beginning(o, d)'
               PROVE  client'[d].on = o \/ Polls(d)'
    BY DEF Begun, Grows, Cleared
  <2>1. o # p /\ Beginning(o, d)
    BY <1>4, NothingMade DEF Beginning
  <2>2. c.on = o \/ (c.on = NoReq /\ c.at = "poll")
    BY <1>3, <2>1 DEF Begun, Polls
  <2>3. client'[d] = c
    BY <1>2, <2>1, <2>2, ReqAssumption
  <2> QED
    BY <2>2, <2>3 DEF Polls
<1>8. \A o \in Req : o \in Reports(d)' => o # p /\ o \in Reports(d) /\ req'[o] = req[o]
  BY <1>4, NothingMade DEF Reports
<1>9. \A o \in Reports(d)' : o \in Req
  BY DEF Reports
<1>10. CASE d \in overtaken'
  BY <1>6, <1>7, <1>10 DEF Marked
<1>11. CASE d \notin overtaken' /\ d \in overtaken
  <2>1. Reports(d)' = {}
    BY <1>8, <1>9, <1>11 DEF Fresh
  <2>2. client'[d].at = "load" /\ client'[d].want = newest'[d]
    BY <1>11 DEF Fresh
  <2>3. Loads(d)' /\ HasNewest(d)'
    BY <2>1, <2>2 DEF Loads, HasNewest
  <2> QED
    BY <1>6, <1>7, <2>3 DEF Marked
<1>12. CASE d \notin overtaken' /\ d \notin overtaken
  <2>0. Loads(d)
    BY <1>3, <1>12
  <2>1. Loads(d)'
    <3>1. \A o \in Reports(d)' : client'[d].on = o
      BY <1>2, <1>8, <1>9, <2>0 DEF Loads
    <3>2. client'[d].at = "list" /\ client'[d].on # NoReq => req'[client'[d].on].new = newest'[d]
      BY <1>1, <1>2, <1>4, <1>5, <2>0 DEF Loads
    <3>3. client'[d].at = "load" => client'[d].want = newest'[d]
      <4>1. CASE c.on = p
        BY <1>1, <1>2, <2>0, <4>1, ReqAssumption DEF Loads
      <4>2. CASE c.on # p
        BY <1>2, <2>0, <4>2 DEF Loads
      <4> QED
        BY <4>1, <4>2
    <3> QED
      BY <3>1, <3>2, <3>3 DEF Loads
  <2>2. d \notin blurred' => HasNewest(d)'
    <3> SUFFICES ASSUME d \notin blurred', d \notin blurred PROVE HasNewest(d)'
      BY DEF Grows, Cleared
    <3>0. HasNewest(d) /\ d \notin blurred /\ Latest(d)' = Latest(d)
      BY <1>3, <1>12
    <3>1. client'[d].at = "finish" => installed'[d] = newest'[d] \/ Latest(d)'.upd # "ing"
      <4>1. CASE c.on = p
        <5> SUFFICES ASSUME e.at = "finish" PROVE Latest(d).upd # "ing"
          BY <1>2, <3>0, <4>1
        <5>1. req[p].pc = "end" /\ req[p].told = "check" /\ req[p].kind = "poll" /\ req[p].dev = d
          BY <1>1, <1>5, <3>0, <4>1
        <5>2. Telling(p, d) /\ Copied(d)
          BY <3>0, <5>1 DEF Telling, MInv, CInv
        <5>3. Latest(d).upd = "check"
          BY <5>1, <5>2 DEF Copied
        <5> QED
          BY <5>3
      <4>2. CASE c.on # p
        BY <1>2, <3>0, <4>2 DEF HasNewest
      <4> QED
        BY <4>1, <4>2
    <3>2. \A o \in Reports(d)' : req'[o].rows[d].upd = "ing" => req'[o].new = installed'[d]
      BY <1>8, <1>9, <3>0 DEF HasNewest
    <3> QED
      BY <3>1, <3>2 DEF HasNewest
  <2> QED
    BY <1>6, <1>7, <2>1, <2>2 DEF Marked
<1> QED
  BY <1>10, <1>11, <1>12

LEMMA EndMarked ==
  ASSUME MInv, NEW p \in Req, End(p), Noted, NEW d \in Device, Grows(d)
  PROVE  Marked(d)'
<1>0. TInv /\ req[p] \in Request /\ req[p].pc = "end"
  BY DEF MInv, CInv, TInv, Requests, End
<1>1. req' = [req EXCEPT ![p] = Nothing] /\ UNCHANGED <<newest, installed>>
  BY <1>0, EndKeeps DEF gameVars
<1>2. client'[d] = IF client[d].on = p THEN React(client[d], req[p]) ELSE client[d]
  BY <1>0, DeliverIs DEF End
<1>3. Latest(d)' = Latest(d)
  BY <1>0, CommitIs DEF End
<1>4. d \notin overtaken' => d \notin overtaken \/ Fresh(d)
  BY NotOvertaken
<1> QED
  BY <1>0, <1>1, <1>2, <1>3, <1>4, LeaveMarked

LEMMA CrashMarked ==
  ASSUME MInv, NEW p \in Req, Crash(p), NEW d \in Device
  PROVE  Marked(d)'
<1> PICK r : r = Answer(req[p], FALSE, "none")
  OBVIOUS
<1>0. TInv /\ req[p] \in Request
  BY DEF MInv, CInv, TInv, Requests
<1>1. req' = [req EXCEPT ![p] = Nothing] /\ UNCHANGED <<newest, installed>>
  BY <1>0, EndKeeps DEF gameVars
<1>2. r \in Request /\ r.ok = FALSE /\ r.told = "none"
  <2>1. FALSE \in BOOLEAN /\ "none" \in UpdateState \cup {"none"}
    BY Zenon
  <2>2. Answers(r, req[p], "none") /\ r.ok = FALSE
    BY <1>0, <2>1, AnswerMade, Zenon
  <2> QED
    BY <2>2 DEF Answers, Made
<1>3. client'[d] = IF client[d].on = p THEN React(client[d], r) ELSE client[d]
  BY <1>0, <1>2, DeliverIs DEF Crash
<1>4. blurred' = blurred \cup {c \in Device : dirty[c].by = p} /\ overtaken' = overtaken
  BY DEF Crash
<1>5. d \notin blurred' => Latest(d)' = Latest(d)
  <2> SUFFICES ASSUME d \notin blurred' PROVE Latest(d)' = Latest(d)
    OBVIOUS
  <2>1. dirty[d].by # p
    BY <1>4
  <2> QED
    BY <1>0, <2>1, RollbackIs DEF Crash
<1>6. Grows(d)
  BY <1>4 DEF Grows
<1> QED
  BY <1>0, <1>1, <1>2, <1>3, <1>4, <1>5, <1>6, LeaveMarked

LEMMA LoadMarked ==
  ASSUME MInv, NEW d \in Device, Load(d), Noted, Grows(d)
  PROVE  Marked(d)'
<1>0. /\ TInv /\ req' = req /\ newest' = newest /\ client[d].at = "load"
      /\ Waits(d) /\ Begun(d) /\ (d \notin overtaken => Loads(d))
      /\ client \in [Device -> Client] /\ installed \in [Device -> Version]
  BY DEF MInv, CInv, TInv, Callers, Games, Load, Marked
<1>1. client[d].on = NoReq
  BY <1>0, OnIs
<1>2. /\ client'[d].at = "finish" /\ client'[d].on = NoReq
      /\ installed'[d] = client[d].want
  BY <1>0 DEF Load, Polling
<1>3. Waits(d)'
  BY <1>2 DEF Waits
<1>4. Begun(d)'
  BY <1>0, <1>1, ReqAssumption DEF Begun, Polls, Beginning, Grows, Cleared
<1>5. d \notin overtaken' => d \notin overtaken
  BY <1>2, NotOvertaken DEF Fresh
<1>6. d \notin overtaken' => Loads(d)' /\ HasNewest(d)'
  <2> SUFFICES ASSUME d \notin overtaken' PROVE Loads(d)' /\ HasNewest(d)'
    OBVIOUS
  <2>1. Loads(d)
    BY <1>0, <1>5
  <2>2. Reports(d)' = {}
    BY <1>0, <1>1, <2>1, ReqAssumption DEF Loads, Reports
  <2>3. installed'[d] = newest'[d]
    BY <1>0, <1>2, <2>1 DEF Loads
  <2> QED
    BY <1>2, <2>2, <2>3 DEF Loads, HasNewest
<1> QED
  BY <1>3, <1>4, <1>6 DEF Marked

LEMMA PublishMarked ==
  ASSUME MInv, NEW d \in Device, Publish(d), Noted, Grows(d)
  PROVE  Marked(d)'
<1>0. /\ TInv /\ req' = req /\ client' = client /\ installed' = installed /\ Latest(d)' = Latest(d)
      /\ Waits(d) /\ Begun(d)
      /\ d \notin overtaken => Loads(d)
      /\ d \notin overtaken \cup blurred => HasNewest(d)
      /\ newest'[d] # newest[d]
  <2>1. newest \in [Device -> Version] /\ newest[d] \in Nat
    BY DEF MInv, CInv, TInv, Games, Version
  <2> QED
    BY <2>1 DEF Publish, MInv, CInv, Marked, rowVars, Latest
<1>1. Waits(d)' /\ Begun(d)'
  BY <1>0 DEF Waits, Begun, Beginning, Polls, Grows, Cleared
<1>2. d \notin overtaken' => /\ d \notin overtaken
                             /\ client[d].at \notin {"list", "load", "finish"}
  BY <1>0, NotOvertaken DEF Fresh, Late
<1>3. Reports(d)' = Reports(d)
  BY <1>0 DEF Reports
<1>4. d \notin overtaken' => Loads(d)'
  BY <1>0, <1>2, <1>3 DEF Loads
<1>5. d \notin overtaken' \cup blurred' => HasNewest(d)'
  BY <1>0, <1>2, <1>3 DEF HasNewest, Grows, Cleared
<1> QED
  BY <1>1, <1>4, <1>5 DEF Marked

LEMMA GiveUpMarked ==
  ASSUME MInv, NEW d \in Device, GiveUp(d)
  PROVE  Marked(d)'
<1>0. /\ req' = req /\ newest' = newest /\ installed' = installed
      /\ client'[d] = Polling /\ Polling.at = "poll" /\ Polling.on = NoReq
      /\ d \notin overtaken' => Reports(d) = {}
  BY DEF MInv, CInv, TInv, Callers, GiveUp, gameVars, Polling
<1>1. Waits(d)' /\ Begun(d)'
  BY <1>0 DEF Waits, Begun, Polls
<1>2. d \notin overtaken' => Reports(d)' = {}
  BY <1>0 DEF Reports
<1>3. d \notin overtaken' => Loads(d)' /\ HasNewest(d)'
  BY <1>0, <1>2 DEF Loads, HasNewest
<1> QED
  BY <1>1, <1>3 DEF Marked

(* the device e something happens to, and the others *)
LEMMA HappensMarked ==
  ASSUME MInv, NEW e \in Device, NEW d \in Device, Grows(d),
         \/ (Load(e) \/ Publish(e) \/ Login(e) \/ Logout(e) \/ CacheExpires(e)) /\ Noted
         \/ GiveUp(e) \/ LogoutFails(e)
  PROVE  Marked(d)'
<1>0. /\ TInv /\ Marked(d) /\ req' = req /\ dirty' = dirty
      /\ row \in [Device -> Row] /\ client \in [Device -> Client]
      /\ newest \in [Device -> Version] /\ installed \in [Device -> Version]
  BY DEF MInv, CInv, TInv, Rows, Callers, Games, Load, Publish, Login, Logout, CacheExpires,
         GiveUp, LogoutFails, rowVars
<1>1. d # e \/ Login(e) \/ Logout(e) \/ CacheExpires(e) \/ LogoutFails(e) =>
          client'[d] = client[d] /\ newest'[d] = newest[d] /\ installed'[d] = installed[d]
  BY <1>0 DEF Load, Publish, Login, Logout, CacheExpires, GiveUp, LogoutFails, gameVars
<1>2. Latest(d)'.upd = "ing" => Latest(d).upd = "ing"
  <2>1. row'[d].upd = "ing" => row[d].upd = "ing"
    <3>1. CASE Login(e)
      BY <1>0, <3>1 DEF Login, Row
    <3>2. CASE Logout(e)
      BY <1>0, <3>2 DEF Logout, Row
    <3>3. CASE row' = row
      BY <3>3
    <3> QED
      BY <3>1, <3>2, <3>3 DEF Load, Publish, CacheExpires, GiveUp, LogoutFails, rowVars
  <2> QED
    BY <1>0, <2>1 DEF Latest
<1>3. d # e \/ Login(e) \/ Logout(e) \/ CacheExpires(e) \/ LogoutFails(e) => Marked(d)'
  <2> SUFFICES ASSUME d # e \/ Login(e) \/ Logout(e) \/ CacheExpires(e) \/ LogoutFails(e)
               PROVE  Marked(d)'
    OBVIOUS
  <2>1. d \notin overtaken' => d \notin overtaken
    BY <1>1, NotOvertaken DEF Fresh, GiveUp, LogoutFails
  <2> QED
    BY <1>0, <1>1, <1>2, <2>1, MarkedStays
<1> QED
  BY <1>3, LoadMarked, PublishMarked, GiveUpMarked

LEMMA MarkInductive == MInv /\ [Next]_vars => MInv'
<1> SUFFICES ASSUME MInv, [Next]_vars PROVE MInv'
  OBVIOUS
<1>0. CInv /\ CInv' /\ TInv
  BY CopyInductive DEF MInv, CInv
<1> SUFFICES ASSUME NEW d \in Device PROVE Marked(d)'
  BY <1>0 DEF MInv
<1>1. CASE Next
  <2>1. Grows(d) /\ Met(d)'
    BY <1>0, <1>1, BlurredGrows DEF CInv
  <2>2. ASSUME NEW p \in Req, NEW e \in Device, AskUpdate(p, e), Noted PROVE Marked(d)'
    BY <2>1, <2>2, AskMarked DEF AskUpdate
  <2>3. ASSUME NEW p \in Req, TryUpdate(p), Noted PROVE Marked(d)'
    <3>1. Min(Device) \in Device
      BY LeastDevice, UpdateAssumption
    <3> QED
      BY <2>1, <2>3, <3>1, AskMarked DEF TryUpdate
  <2>4. JobTimeout => Marked(d)'
    BY MarkedStays DEF JobTimeout, MInv, gameVars, rowVars, Latest, Grows
  <2> QED
    BY <1>1, <2>1, <2>2, <2>3, <2>4, StepsAre, HappensMarked, SendMarked, WorkMarked, EndMarked,
       CrashMarked
<1>2. CASE UNCHANGED vars
  BY <1>2, MarkedStays DEF vars, history, MInv, gameVars, rowVars, Latest, Grows
<1> QED
  BY <1>1, <1>2

LEMMA MarkInit == Init => MInv
<1> SUFFICES ASSUME Init PROVE MInv
  OBVIOUS
<1>1. CInv /\ \A p \in Req : req[p] = Nothing
  BY CopyInit DEF Init
<1>2. ASSUME NEW d \in Device PROVE Marked(d)
  <2>1. client[d].at = "poll" /\ client[d].on = NoReq
    BY DEF Init, Polling
  <2>2. Reports(d) = {}
    BY <1>1, NothingMade DEF Reports
  <2> QED
    BY <2>1, <2>2 DEF Marked, Waits, Begun, Polls, Loads, HasNewest
<1> QED
  BY <1>1, <1>2 DEF MInv

(* Only MarkGames marks; the report it serves has read the state "ing", so  *)
(* what it marks is what the client has on its disk.                        *)
THEOREM MarkedAsInstalled == Spec => MarkedIsInstalled
<1> DEFINE A == \A d \in Device : current'[d] # current[d]
                   => current'[d] = installed[d] \/ d \in overtaken \cup blurred'
<1>1. MInv /\ [Next]_vars => [A]_vars
  <2> SUFFICES ASSUME MInv, Next, NEW d \in Device, current'[d] # current[d],
                      d \notin overtaken \cup blurred'
               PROVE  current'[d] = installed[d]
    OBVIOUS
  <2>1. PICK p \in Req : MarkGames(p)
    BY StepsAre DEF Load, Publish, Login, Logout, CacheExpires, Send, Begin, Work, WriteState,
       WriteUpd, CacheUpd, FillCache, End, TryUpdate, AskUpdate, Crash, GiveUp, LogoutFails,
       JobTimeout, gameVars
  <2>2. TInv /\ current \in [Device -> Version]
    BY DEF MInv, CInv, TInv, Games
  <2>3. /\ req[p].pc = "games" /\ req[p].kind = "finish" /\ req[p].rows[req[p].dev].upd = "ing"
        /\ req[p].dev = d /\ current'[d] = req[p].new
    BY <2>1, <2>2, MarkGamesIs
  <2>4. Noted /\ d \in Uses(p)'
    <3>1. PICK q : Turns(p, q)
      BY <2>1, <2>2, MarkGamesIs
    <3>2. Uses(p)' = Uses(p)
      BY <2>2, <2>3, <3>1, TurnsUse
    <3>3. Noted
      BY <2>1 DEF Next, Upset, Calm, MarkGames, Fault, AskUpdate, Begin, Crash, GiveUp,
         LogoutFails, JobTimeout, gameVars
    <3> QED
      BY <2>3, <3>2, <3>3 DEF Uses
  <2>5. d \notin blurred
    BY <2>4 DEF Noted, Settled
  <2>6. HasNewest(d) /\ p \in Reports(d)
    BY <2>3, <2>5 DEF MInv, Marked, Reports
  <2> QED
    BY <2>3, <2>6 DEF HasNewest
<1> QED
  BY <1>1, MarkInit, MarkInductive, PTL DEF Spec, MarkedIsInstalled

=============================================================================
