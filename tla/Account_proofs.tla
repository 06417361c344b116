---------------------------- MODULE Account_proofs ----------------------------
(***************************************************************************)
(* What Account promises for every number of payments, requests and        *)
(* sessions, and whatever the lock and crashes do.                          *)
(***************************************************************************)
EXTENDS Account, TLAPS, FiniteSetTheorems, WellFoundedInduction

(* The kind of a request, by the place it has reached *)
NotifyHasTx ==
    \A p \in Req :
        /\ req[p].pc \in {"find", "query", "create", "syncRead", "syncWrite"}
              => req[p].kind = "notify"
        /\ req[p].pc \in {"read", "open"} => req[p].kind = "login"
        /\ req[p].pc \in {"recheck", "settle", "close"} => req[p].kind = "logout"
        /\ req[p].pc = "lock" => req[p].kind # "none"
        /\ req[p].kind = "notify" => req[p].tx \in Tx

IInv == TypeOK /\ NotifyHasTx

LEMMA BodyOfKinds ==
    \A p : /\ req[p].kind = "notify" => Body(p) = "syncRead"
           /\ req[p].kind = "login" => Body(p) = "open"
           /\ req[p].kind = "logout" => Body(p) = "recheck"
BY DEF Body

LEMMA NewValuesTyped ==
    /\ NewAccount \in AccountRow /\ NoText \in Text
    /\ TypeOK => Idle \in Request
BY DEF NewAccount, AccountRow, NoText, Text, Idle, Request, Label, TypeOK

LEMMA RowFields ==
    ASSUME NEW a \in AccountRow
    PROVE  a.balance \in Nat /\ a.total \in Nat /\ a.used \in Nat
BY DEF AccountRow

LEMMA RowsTyped ==
    ASSUME NEW a \in AccountRow, NEW m \in Nat, NEW n \in Nat
    PROVE  /\ [a EXCEPT !.balance = m, !.total = n] \in AccountRow
           /\ [a EXCEPT !.used = m, !.balance = n] \in AccountRow
BY DEF AccountRow

LEMMA CreditedTyped ==
    ASSUME IInv, NEW p \in Req, req[p].kind = "notify"
    PROVE  Credited(p) \in AccountRow
<1> DEFINE fee == Fee[req[p].tx]
<1>1. fee \in Nat
  BY AccountAssumption DEF IInv, NotifyHasTx
<1>2. req[p].snap \in AccountRow /\ account \in AccountRow
  BY DEF IInv, TypeOK, Request
<1>3. req[p].snap.balance \in Nat /\ req[p].snap.total \in Nat
  BY <1>2, RowFields
<1> HIDE DEF fee
<1>4. req[p].snap.balance + fee \in Nat /\ req[p].snap.total + fee \in Nat
  BY <1>1, <1>3
<1>5. QED
  BY <1>2, <1>4, RowsTyped DEF Credited, fee

LEMMA ChargedTyped ==
    ASSUME TypeOK, NEW s \in AccountRow, NEW c \in Nat
    PROVE  Charged(s, c) \in AccountRow /\ Charged(s, c).used = s.used + c
<1> DEFINE b == IF s.balance < c THEN 0 ELSE s.balance - c
           u == s.used + c
<1>1. u \in Nat /\ b \in Nat
  BY RowFields
<1>2. account \in AccountRow
  BY DEF TypeOK
<1>3. Charged(s, c) = [account EXCEPT !.used = u, !.balance = b]
  BY DEF Charged
<1> HIDE DEF u, b
<1>4. [account EXCEPT !.used = u, !.balance = b].used = u
  BY <1>2 DEF AccountRow
<1>5. QED
  BY <1>1, <1>2, <1>3, <1>4, RowsTyped DEF u

(* Most steps of a request only move it on *)
LEMMA GotoTyped ==
    ASSUME IInv, NEW p \in Req, NEW l \in {"leave", "end", "close"},
           l = "close" => req[p].kind = "logout",
           req' = [req EXCEPT ![p].pc = l]
    PROVE  req' \in [Req -> Request] /\ NotifyHasTx'
<1>1. req \in [Req -> Request] /\ NotifyHasTx
  BY DEF IInv, TypeOK
<1>2. \A q \in Req : req'[q] \in Request
  BY <1>1 DEF Request, Label
<1>3. \A q \in Req : /\ req'[q].kind = req[q].kind /\ req'[q].tx = req[q].tx
                     /\ req'[q].pc = IF q = p THEN l ELSE req[q].pc
  BY <1>1 DEF Request
<1>4. QED
  BY <1>1, <1>2, <1>3 DEF NotifyHasTx

LEMMA TypeInductive == IInv /\ [Next]_vars => IInv'
<1> SUFFICES ASSUME IInv, [Next]_vars PROVE IInv'
  OBVIOUS
<1> USE AccountAssumption, NewValuesTyped DEF IInv, NotifyHasTx, At, Goto, Finish
<1>1. ASSUME NEW t \in Tx, Pay(t) PROVE IInv'
  BY <1>1 DEF Pay, TypeOK, ghosts
<1>2. ASSUME NEW p \in Req, NEW t \in Tx, Notify(p, t) PROVE IInv'
  <2> DEFINE r == [Idle EXCEPT !.kind = "notify", !.tx = t, !.pc = "find"]
  <2>1. r \in Request /\ r.tx = t /\ r.pc = "find" /\ r.kind = "notify"
    BY DEF Request, Label
  <2>2. req' = [req EXCEPT ![p] = r] /\ req \in [Req -> Request]
    BY <1>2 DEF Notify, TypeOK
  <2> HIDE DEF r
  <2>3. QED
    BY <1>2, <2>1, <2>2 DEF Notify, TypeOK, ghosts
<1>3. ASSUME NEW p \in Req, StartLogin(p) PROVE IInv'
  <2>1. [NoText EXCEPT !.id = sessions'] \in Text /\ sessions' \in Nat
    BY <1>3 DEF StartLogin, TypeOK, Text, NoText
  <2> DEFINE t == [NoText EXCEPT !.id = sessions']
             r == [Idle EXCEPT !.kind = "login", !.pc = "read", !.text = t]
  <2>2. req' = [req EXCEPT ![p] = r]
    BY <1>3 DEF StartLogin
  <2> HIDE DEF t
  <2>3. r \in Request /\ r.pc = "read" /\ r.kind = "login"
    BY <2>1 DEF Idle, Request, Label, NewAccount, AccountRow, t
  <2> HIDE DEF r
  <2>4. req'[p] \in Request /\ req'[p].pc = "read" /\ req'[p].kind = "login"
    BY <2>2, <2>3 DEF TypeOK
  <2>5. QED
    BY <1>3, <2>1, <2>4 DEF StartLogin, TypeOK, ghosts
<1>4. ASSUME NEW p \in Req, StartLogout(p) PROVE IInv'
  <2>1. PICK by \in {"anonymous", "administrator"} :
          req' = [req EXCEPT ![p] = [Idle EXCEPT !.kind = "logout", !.pc = "lock",
                     !.text = text,
                     !.snap = IF by = "administrator" THEN account ELSE @,
                     !.gen = IF by = "administrator" THEN gen ELSE @]]
    BY <1>4 DEF StartLogout
  <2> DEFINE a == IF by = "administrator" THEN account ELSE Idle.snap
             g == IF by = "administrator" THEN gen ELSE Idle.gen
             r == [Idle EXCEPT !.kind = "logout", !.pc = "lock", !.text = text,
                               !.snap = a, !.gen = g]
  <2>2. a \in AccountRow /\ g \in Nat \cup {-1} /\ text \in Text
    BY DEF TypeOK, Idle
  <2>3. req' = [req EXCEPT ![p] = r]
    BY <2>1 DEF Idle
  <2> HIDE DEF a, g
  <2>4. r \in Request /\ r.pc = "lock" /\ r.kind = "logout"
    BY <2>2 DEF Idle, Request, Label
  <2> HIDE DEF r
  <2>5. req'[p] \in Request /\ req'[p].pc = "lock" /\ req'[p].kind = "logout"
    BY <2>3, <2>4 DEF TypeOK
  <2>6. QED
    BY <1>4, <2>5 DEF StartLogout, TypeOK, ghosts
<1>5. ASSUME NEW p \in Req, FindRecharge(p) \/ QueryOrder(p) PROVE IInv'
  <2>1. CASE FindRecharge(p) /\ req[p].tx \in recharges
    <3>1. req' = [req EXCEPT ![p] = Idle] /\ payment' \in [Tx -> {"none", "due", "acked"}]
      BY <2>1 DEF FindRecharge, Finish, Acknowledge, TypeOK
    <3>2. QED
      BY <2>1, <3>1 DEF FindRecharge, TypeOK, ghosts, Idle, Request, Label
  <2>2. CASE FindRecharge(p) /\ req[p].tx \notin recharges
    BY <2>2 DEF FindRecharge, TypeOK, ghosts, Request, Label
  <2>3. CASE QueryOrder(p)
    BY <2>3 DEF QueryOrder, TypeOK, ghosts, Idle, Request, Label
  <2>4. QED
    BY <1>5, <2>1, <2>2, <2>3
<1>6. ASSUME NEW p \in Req, CreateRecharge(p) PROVE IInv'
  BY <1>6, CreditedTyped DEF CreateRecharge, TypeOK, ghosts, Idle, Request, Label
<1>7. ASSUME NEW p \in Req, SyncRead(p) PROVE IInv'
  BY <1>7 DEF SyncRead, TypeOK, ghosts, Request, Label
<1>8. ASSUME NEW p \in Req, SyncWrite(p) PROVE IInv'
  <2>1. req[p].text \in Text /\ Fee[req[p].tx] \in Nat
    BY <1>8 DEF SyncWrite, TypeOK, Request
  <2>2. text' \in Text
    BY <1>8, <2>1 DEF SyncWrite, Text
  <2>3. Goto(p, "leave")
    BY <1>8 DEF SyncWrite
  <2>4. req' \in [Req -> Request] /\ NotifyHasTx'
    BY <2>3, GotoTyped
  <2>5. QED
    BY <1>8, <2>2, <2>4 DEF SyncWrite, TypeOK, ghosts
<1>9. ASSUME NEW p \in Req, ReadBalance(p) \/ OpenSession(p) \/ CloseSession(p)
      PROVE  IInv'
  <2>1. CASE ReadBalance(p)
    <3>1. [req[p].text EXCEPT !.balance = account.balance] \in Text
      BY DEF TypeOK, Request, Text, AccountRow
    <3>2. req'[p] \in Request /\ req'[p].pc = "lock" /\ req'[p].kind = req[p].kind
                              /\ req'[p].tx = req[p].tx
      BY <2>1, <3>1 DEF ReadBalance, TypeOK, Request, Label
    <3>3. QED
      BY <2>1, <3>2 DEF ReadBalance, TypeOK, ghosts
  <2>2. CASE OpenSession(p) \/ CloseSession(p)
    BY <2>2 DEF OpenSession, CloseSession, TypeOK, ghosts, Request, Label
  <2>3. QED
    BY <1>9, <2>1, <2>2
<1>10. ASSUME NEW p \in Req, Recheck(p) PROVE IInv'
  <2> DEFINE s == IF req[p].gen = -1 THEN account ELSE req[p].snap
             g == IF req[p].gen = -1 THEN gen ELSE req[p].gen
             l == IF text = NoText THEN "leave" ELSE "settle"
  <2>1. req[p] \in Request /\ account \in AccountRow /\ gen \in Nat
    BY DEF TypeOK
  <2>2. s \in AccountRow /\ g \in Nat \cup {-1} /\ l \in {"leave", "settle"}
    BY <2>1 DEF Request
  <2>3. req' = [req EXCEPT ![p].snap = s, ![p].gen = g, ![p].pc = l]
    BY <1>10, <2>1 DEF Recheck
  <2> HIDE DEF s, g, l
  <2>4. req'[p] \in Request /\ req'[p].pc = l /\ req'[p].kind = req[p].kind
                            /\ req'[p].tx = req[p].tx
    <3> DEFINE r == [req[p] EXCEPT !.snap = s, !.gen = g, !.pc = l]
    <3>1. r \in Request /\ r.pc = l /\ r.kind = req[p].kind /\ r.tx = req[p].tx
      BY <2>1, <2>2 DEF Request, Label
    <3>2. req'[p] = r
      BY <2>3 DEF TypeOK
    <3> HIDE DEF r
    <3>3. QED
      BY <3>1, <3>2
  <2>5. req' \in [Req -> Request] /\ \A q \in Req \ {p} : req'[q] = req[q]
    BY <2>3, <2>4 DEF TypeOK
  <2>6. req[p].kind = "logout"
    BY <1>10 DEF Recheck, TypeOK, NotifyHasTx
  <2>7. QED
    BY <1>10, <2>2, <2>4, <2>5 DEF Recheck, TypeOK, ghosts
<1>11. ASSUME NEW p \in Req, Settle(p) PROVE IInv'
  <2>1. req[p].snap \in AccountRow /\ req[p].text.id \in Nat
    BY DEF TypeOK, Request, Text
  <2>2. ASSUME NEW c \in Cost, Bill(p, c)
        PROVE  account' \in AccountRow /\ spent' \in Nat /\ settled' \subseteq Nat
               /\ gen' \in Nat /\ req' \in [Req -> Request] /\ NotifyHasTx'
    <3>1. c \in Nat
      OBVIOUS
    <3>2. account' \in AccountRow
      BY <2>1, <2>2, <3>1, ChargedTyped DEF Bill
    <3>3. spent' \in Nat /\ settled' \subseteq Nat /\ gen' \in Nat
      BY <2>1, <2>2, <3>1 DEF Bill, TypeOK
    <3>4. req' \in [Req -> Request] /\ NotifyHasTx'
      BY <1>11, <2>2, GotoTyped DEF Bill, Settle
    <3>5. QED
      BY <3>2, <3>3, <3>4
  <2>3. CASE \E c \in Cost : Bill(p, c)
    BY <1>11, <2>2, <2>3 DEF Settle, TypeOK
  <2>4. CASE Goto(p, "leave") /\ UNCHANGED <<account, spent, settled, gen>>
    <3>1. req' \in [Req -> Request] /\ NotifyHasTx'
      BY <2>4, GotoTyped
    <3>2. QED
      BY <1>11, <2>4, <3>1 DEF Settle, TypeOK
  <2>5. QED
    BY <1>11, <2>3, <2>4 DEF Settle
<1>12. ASSUME NEW p \in Req, EnterLock(p) PROVE IInv'
  BY <1>12, BodyOfKinds DEF EnterLock, TypeOK, ghosts, Request, Label
<1>13. ASSUME NEW p \in Req, FailLock(p) \/ LeaveLock(p) PROVE IInv'
  BY <1>13 DEF FailLock, LeaveLock, TypeOK, ghosts, Request, Label
<1>14. ASSUME NEW p \in Req, Teardown(p) \/ Crash(p) PROVE IInv'
  <2>1. req' \in [Req -> Request] /\ NotifyHasTx'
    BY <1>14 DEF Teardown, Crash, TypeOK, Idle, Request, Label
  <2>2. gen' \in Nat /\ payment' \in [Tx -> {"none", "due", "acked"}]
    BY <1>14 DEF Teardown, Crash, Acknowledge, TypeOK
  <2>3. orphaned' \subseteq Nat
    <3>1. req[p].text.id \in Nat
      BY DEF TypeOK, Request, Text
    <3>2. QED
      BY <1>14, <3>1 DEF Teardown, Crash, TypeOK, ghosts
  <2>4. lockKey' \in {"absent", "left"} \cup Req
    BY <1>14 DEF Teardown, Crash, TypeOK
  <2>5. /\ account' \in AccountRow /\ recharges' \subseteq Tx
        /\ text' \in Text /\ sessions' \in Nat
        /\ credit' \in [Tx -> Nat] /\ spent' \in Nat /\ settled' \subseteq Nat
    BY <1>14 DEF Teardown, Crash, TypeOK, ghosts
  <2>6. QED
    BY <2>1, <2>2, <2>3, <2>4, <2>5 DEF TypeOK
<1>15. CASE UNCHANGED vars
  BY <1>15 DEF vars, ghosts, TypeOK
<1>16. QED
  BY <1>1, <1>2, <1>3, <1>4, <1>5, <1>6, <1>7, <1>8, <1>9, <1>10, <1>11, <1>12,
     <1>13, <1>14, <1>15
     DEF Next, Step, Recharge, Online, Offline, Lock

(* The typing invariant, with the fact that only a notify carries a payment *)
LEMMA AccountInvariant == Spec => []IInv
<1>1. Init => IInv
  BY AccountAssumption, NewValuesTyped
     DEF Init, IInv, TypeOK, NotifyHasTx, Idle, Request, Label, NewAccount, NoText,
         AccountRow, Text
<1>2. QED
  BY <1>1, TypeInductive, PTL DEF Spec

(* Every variable of the account keeps its type: no balance and no total   *)
(* is ever negative, whatever repeats, races, fails or dies.               *)
THEOREM AccountTypeOK == Spec => []TypeOK
<1>1. IInv => TypeOK
  BY DEF IInv
<1>2. QED
  BY <1>1, AccountInvariant, PTL
-----------------------------------------------------------------------------
(* Payments *)

LEMMA CreditedInductive == IInv /\ CreditedOnce /\ [Next]_vars => CreditedOnce'
<1> SUFFICES ASSUME IInv, CreditedOnce, [Next]_vars PROVE CreditedOnce'
  OBVIOUS
<1> USE DEF CreditedOnce
<1>1. ASSUME NEW p \in Req, CreateRecharge(p) PROVE CreditedOnce'
  <2>1. req[p].tx \in Tx /\ credit \in [Tx -> Nat]
    BY <1>1 DEF CreateRecharge, At, IInv, NotifyHasTx, TypeOK
  <2>2. QED
    BY <1>1, <2>1 DEF CreateRecharge
<1>2. UNCHANGED <<recharges, credit>> => CreditedOnce'
  OBVIOUS
<1>3. QED
  BY <1>1, <1>2
     DEF Next, vars, ghosts, Pay, Notify, StartLogin, StartLogout, Step, Crash, Recharge,
         FindRecharge, QueryOrder, SyncRead, SyncWrite, Online, ReadBalance,
         OpenSession, Offline, Recheck, Settle, Bill, CloseSession, Lock, EnterLock,
         FailLock, LeaveLock, Teardown

(* A payment is added to the account once, by the commit of its recharge   *)
(* row, however often and concurrently it is notified.                     *)
THEOREM PaymentCreditedOnce == Spec => []CreditedOnce
<1>1. Init => CreditedOnce
  BY DEF Init, CreditedOnce
<1>2. QED
  BY <1>1, CreditedInductive, AccountInvariant, PTL DEF Spec

(* A notify past its commit has its payment on record *)
CommittedIsRecorded ==
    \A p \in Req :
        req[p].kind = "notify"
        /\ req[p].pc \in {"lock", "syncRead", "syncWrite", "leave", "end"}
            => req[p].tx \in recharges

LEMMA AckedInductive ==
    IInv /\ CommittedIsRecorded /\ AckedIsRecorded /\ [Next]_vars
        => (CommittedIsRecorded /\ AckedIsRecorded)'
<1> SUFFICES ASSUME IInv, CommittedIsRecorded, AckedIsRecorded, [Next]_vars
             PROVE  CommittedIsRecorded' /\ AckedIsRecorded'
  OBVIOUS
<1> USE DEF CommittedIsRecorded, AckedIsRecorded, At
<1> DEFINE Late == {"lock", "syncRead", "syncWrite", "leave", "end"}
           Recorded(r) == r.kind = "notify" /\ r.pc \in Late => r.tx \in recharges'
<1>0. /\ \A p \in Req : req[p].kind = "notify" => req[p].tx \in Tx
      /\ \A p \in Req : req[p].pc \in {"syncRead", "syncWrite"} => req[p].kind = "notify"
      /\ payment \in [Tx -> {"none", "due", "acked"}]
      /\ req \in [Req -> Request]
  BY DEF IInv, NotifyHasTx, TypeOK
<1>1. ASSUME NEW p \in Req, NEW r, req' = [req EXCEPT ![p] = r], Recorded(r),
             recharges \subseteq recharges'
      PROVE  CommittedIsRecorded'
  BY <1>0, <1>1
<1>2. ASSUME NEW p \in Req, NEW k, req' = [req EXCEPT ![p].pc = k],
             k \in Late /\ req[p].kind = "notify" => req[p].tx \in recharges,
             recharges' = recharges
      PROVE  CommittedIsRecorded'
  BY <1>0, <1>2 DEF Request
<1>3. payment' = payment /\ recharges \subseteq recharges' => AckedIsRecorded'
  OBVIOUS
<1>4. ~(Idle.kind = "notify")
  BY DEF Idle
<1>5. ASSUME NEW t \in Tx, Pay(t) PROVE CommittedIsRecorded' /\ AckedIsRecorded'
  BY <1>5, <1>0 DEF Pay
<1>6. ASSUME NEW p \in Req, NEW t \in Tx, Notify(p, t)
      PROVE  CommittedIsRecorded' /\ AckedIsRecorded'
  BY <1>6, <1>0, <1>3 DEF Notify, Idle
<1>7. ASSUME NEW p \in Req, StartLogin(p)
      PROVE  CommittedIsRecorded' /\ AckedIsRecorded'
  BY <1>7, <1>0, <1>3 DEF StartLogin, Idle
<1>8. ASSUME NEW p \in Req, StartLogout(p)
      PROVE  CommittedIsRecorded' /\ AckedIsRecorded'
  <2>1. \A q \in Req : req'[q] = req[q] \/ req'[q].kind = "logout"
    BY <1>8, <1>0 DEF StartLogout, Idle
  <2>2. recharges' = recharges /\ payment' = payment
    BY <1>8 DEF StartLogout
  <2>3. QED
    BY <2>1, <2>2
<1>9. ASSUME NEW p \in Req, FindRecharge(p)
      PROVE  CommittedIsRecorded' /\ AckedIsRecorded'
  <2>1. CASE req[p].tx \in recharges
    BY <1>9, <2>1, <1>0, <1>1, <1>4 DEF FindRecharge, Finish, Acknowledge
  <2>2. CASE req[p].tx \notin recharges
    <3>1. \A q \in Req : req'[q] = req[q] \/ req'[q].pc = "query"
      BY <1>9, <2>2, <1>0 DEF FindRecharge, Request
    <3>2. recharges' = recharges /\ payment' = payment
      BY <1>9, <2>2 DEF FindRecharge
    <3>3. QED
      BY <3>1, <3>2
  <2>3. QED
    BY <2>1, <2>2
<1>10. ASSUME NEW p \in Req, QueryOrder(p)
       PROVE  CommittedIsRecorded' /\ AckedIsRecorded'
  BY <1>10, <1>1, <1>2, <1>3, <1>4 DEF QueryOrder, Goto, Finish
<1>11. ASSUME NEW p \in Req, CreateRecharge(p)
       PROVE  CommittedIsRecorded' /\ AckedIsRecorded'
  <2>1. req[p].tx \in recharges' /\ recharges \subseteq recharges'
        /\ payment' = payment
    BY <1>11 DEF CreateRecharge
  <2>2. CASE Finish(p)
    BY <2>1, <2>2, <1>1, <1>3, <1>4 DEF Finish
  <2>3. CASE Goto(p, "lock")
    BY <2>1, <2>3, <1>0, <1>3 DEF Goto, Request
  <2>4. QED
    BY <1>11, <2>2, <2>3 DEF CreateRecharge
<1>12. ASSUME NEW p \in Req, SyncRead(p)
       PROVE  CommittedIsRecorded' /\ AckedIsRecorded'
  <2>1. req[p].tx \in recharges /\ recharges' = recharges /\ payment' = payment
    BY <1>12, <1>0 DEF SyncRead
  <2>2. \A q \in Req : req'[q] = req[q] \/ req'[q].tx = req[p].tx
    BY <1>12, <1>0 DEF SyncRead, Request
  <2>3. QED
    BY <2>1, <2>2
<1>13. ASSUME NEW p \in Req, SyncWrite(p) \/ OpenSession(p) \/ CloseSession(p)
       PROVE  CommittedIsRecorded' /\ AckedIsRecorded'
  <2>1. Goto(p, "leave") /\ recharges' = recharges /\ payment' = payment
    BY <1>13 DEF SyncWrite, OpenSession, CloseSession
  <2>2. req[p].kind = "notify" => req[p].tx \in recharges
    BY <1>13, <1>0 DEF SyncWrite, OpenSession, CloseSession, IInv, NotifyHasTx
  <2>3. QED
    BY <2>1, <2>2, <1>2, <1>3 DEF Goto
<1>14. ASSUME NEW p \in Req, ReadBalance(p) \/ Recheck(p) \/ Settle(p)
       PROVE  CommittedIsRecorded' /\ AckedIsRecorded'
  <2>1. \A q \in Req : req'[q] = req[q] \/ req'[q].kind = req[p].kind
    BY <1>14, <1>0 DEF ReadBalance, Recheck, Settle, Bill, Goto, Request
  <2>2. req[p].kind # "notify"
    BY <1>14 DEF ReadBalance, Recheck, Settle, IInv, NotifyHasTx
  <2>3. recharges' = recharges /\ payment' = payment
    BY <1>14 DEF ReadBalance, Recheck, Settle
  <2>4. QED
    BY <2>1, <2>2, <2>3
<1>15. ASSUME NEW p \in Req, EnterLock(p)
       PROVE  CommittedIsRecorded' /\ AckedIsRecorded'
  BY <1>15, <1>2, <1>3 DEF EnterLock, Goto
<1>16. ASSUME NEW p \in Req, FailLock(p)
       PROVE  CommittedIsRecorded' /\ AckedIsRecorded'
  BY <1>16, <1>0, <1>3 DEF FailLock, Request
<1>17. ASSUME NEW p \in Req, LeaveLock(p)
       PROVE  CommittedIsRecorded' /\ AckedIsRecorded'
  BY <1>17, <1>2, <1>3 DEF LeaveLock, Goto
<1>18. ASSUME NEW p \in Req, Teardown(p)
       PROVE  CommittedIsRecorded' /\ AckedIsRecorded'
  BY <1>18, <1>0, <1>1, <1>4 DEF Teardown, Finish, Acknowledge
<1>19. ASSUME NEW p \in Req, Crash(p)
       PROVE  CommittedIsRecorded' /\ AckedIsRecorded'
  BY <1>19, <1>1, <1>3, <1>4 DEF Crash, Finish
<1>20. CASE UNCHANGED vars
  BY <1>20 DEF vars
<1>21. QED
  BY <1>5, <1>6, <1>7, <1>8, <1>9, <1>10, <1>11, <1>12, <1>13, <1>14, <1>15,
     <1>16, <1>17, <1>18, <1>19, <1>20
     DEF Next, Step, Recharge, Online, Offline, Lock

(* WeChat stops posting only payments that are on record.                  *)
THEOREM AckedPaymentRecorded == Spec => []AckedIsRecorded
<1>1. Init => CommittedIsRecorded /\ AckedIsRecorded
  BY DEF Init, CommittedIsRecorded, AckedIsRecorded, Idle
<1>2. QED
  BY <1>1, AckedInductive, AccountInvariant, PTL DEF Spec
-----------------------------------------------------------------------------
(* Bills *)

(* A logout that read the present version read the present used total *)
Current(r) ==
    /\ r.gen <= gen
    /\ r.kind = "logout" /\ r.gen = gen => r.snap.used = account.used

SnapsCurrent == \A p \in Req : Current(req[p])

UInv == SnapsCurrent /\ UsedIsSpent

LEMMA UsedInductive == IInv /\ UInv /\ [Next]_vars => UInv'
<1> SUFFICES ASSUME IInv, UInv, [Next]_vars PROVE UInv'
  OBVIOUS
<1> USE DEF UInv, SnapsCurrent, UsedIsSpent, Current
<1>0. /\ req \in [Req -> Request] /\ gen \in Nat /\ account \in AccountRow
      /\ \A p \in Req : req[p].gen \in Int
      /\ Idle.gen = -1 /\ Idle.snap = NewAccount
  BY DEF IInv, TypeOK, Request, Idle
(* what keeps the versions and the snapshots of the requests *)
<1>1. ASSUME gen' = gen, account'.used = account.used, spent' = spent,
             \A q \in Req : \/ /\ req'[q].gen = req[q].gen /\ req'[q].kind = req[q].kind
                               /\ req'[q].snap = req[q].snap
                            \/ req'[q].gen = -1
                            \/ req'[q].gen = gen /\ req'[q].snap = account
      PROVE  UInv'
  BY <1>0, <1>1
<1>2. ASSUME NEW p \in Req,
             FindRecharge(p) \/ QueryOrder(p) \/ CreateRecharge(p)
      PROVE  UInv'
  <2>1. account'.used = account.used
    <3>1. Credited(p).used = account.used
      BY <1>0 DEF Credited, AccountRow
    <3>2. QED
      BY <1>2, <3>1 DEF FindRecharge, QueryOrder, CreateRecharge
  <2>2. gen' = gen /\ spent' = spent
    BY <1>2 DEF FindRecharge, QueryOrder, CreateRecharge, ghosts
  <2>3. \A q \in Req : \/ /\ req'[q].gen = req[q].gen /\ req'[q].kind = req[q].kind
                          /\ req'[q].kind # "logout"
                       \/ req'[q].gen = -1
                       \/ req'[q] = req[q]
    BY <1>2, <1>0 DEF FindRecharge, QueryOrder, CreateRecharge, IInv, NotifyHasTx, At,
                      Finish, Goto, Request
  <2>4. QED
    BY <1>0, <2>1, <2>2, <2>3
<1>3. ASSUME NEW p \in Req,
             \/ \E t \in Tx : Notify(p, t)
             \/ StartLogin(p) \/ Crash(p)
      PROVE  UInv'
  <2>1. \A q \in Req : req'[q] = req[q] \/ req'[q].gen = -1
    BY <1>3, <1>0 DEF Notify, StartLogin, Crash, Finish, Idle
  <2>2. gen' = gen /\ account' = account /\ spent' = spent
    BY <1>3 DEF Notify, StartLogin, Crash, ghosts
  <2>3. QED
    BY <1>0, <1>1, <2>1, <2>2
<1>4. ASSUME NEW p \in Req, StartLogout(p) PROVE UInv'
  <2>1. \A q \in Req : \/ req'[q] = req[q] \/ req'[q].gen = -1
                       \/ req'[q].gen = gen /\ req'[q].snap = account
    BY <1>4, <1>0 DEF StartLogout, Idle
  <2>2. gen' = gen /\ account' = account /\ spent' = spent
    BY <1>4 DEF StartLogout, ghosts
  <2>3. QED
    BY <1>0, <1>1, <2>1, <2>2
<1>5. ASSUME NEW p \in Req,
             \/ SyncRead(p) \/ SyncWrite(p) \/ ReadBalance(p) \/ OpenSession(p)
             \/ CloseSession(p) \/ EnterLock(p) \/ FailLock(p) \/ LeaveLock(p)
      PROVE  UInv'
  <2>1. \A q \in Req : /\ req'[q].gen = req[q].gen /\ req'[q].kind = req[q].kind
                       /\ req'[q].snap = req[q].snap
    BY <1>5, <1>0 DEF SyncRead, SyncWrite, ReadBalance, OpenSession, CloseSession,
                      EnterLock, FailLock, LeaveLock, Goto, Request
  <2>2. gen' = gen /\ account' = account /\ spent' = spent
    BY <1>5 DEF SyncRead, SyncWrite, ReadBalance, OpenSession, CloseSession,
                EnterLock, FailLock, LeaveLock, ghosts
  <2>3. QED
    BY <1>0, <1>1, <2>1, <2>2
<1>6. ASSUME NEW p \in Req, Recheck(p) PROVE UInv'
  <2>1. \A q \in Req : \/ /\ req'[q].gen = req[q].gen /\ req'[q].kind = req[q].kind
                          /\ req'[q].snap = req[q].snap
                       \/ req'[q].gen = gen /\ req'[q].snap = account
    BY <1>6, <1>0 DEF Recheck, Request
  <2>2. gen' = gen /\ account' = account /\ spent' = spent
    BY <1>6 DEF Recheck, ghosts
  <2>3. QED
    BY <1>0, <1>1, <2>1, <2>2
<1>7. ASSUME NEW p \in Req, Settle(p) PROVE UInv'
  <2>1. CASE req[p].gen = gen /\ \E c \in Cost : Bill(p, c)
    <3>1. PICK c \in Cost : Bill(p, c)
      BY <2>1
    <3>2. req[p].kind = "logout" /\ req[p].snap \in AccountRow /\ c \in Nat
      BY <1>7, <1>0, AccountAssumption DEF Settle, At, IInv, NotifyHasTx, Request
    <3>3. Charged(req[p].snap, c).used = req[p].snap.used + c
      BY <3>2, ChargedTyped DEF IInv
    <3>4. account'.used = spent'
      BY <2>1, <3>1, <3>2, <3>3 DEF Bill
    <3>5. \A q \in Req : req'[q].gen = req[q].gen
      BY <3>1, <1>0 DEF Bill, Goto, Request
    <3>6. gen' = gen + 1
      BY <3>1 DEF Bill
    <3>7. QED
      BY <1>0, <3>4, <3>5, <3>6
  <2>2. CASE Goto(p, "leave") /\ UNCHANGED <<account, spent, settled, gen>>
    <3>1. \A q \in Req : /\ req'[q].gen = req[q].gen /\ req'[q].kind = req[q].kind
                         /\ req'[q].snap = req[q].snap
      BY <2>2, <1>0 DEF Goto, Request
    <3>2. QED
      BY <1>1, <2>2, <3>1
  <2>3. QED
    BY <1>7, <2>1, <2>2 DEF Settle
<1>8. ASSUME NEW p \in Req, Teardown(p) PROVE UInv'
  <2>1. account' = account /\ spent' = spent /\ gen' \in {gen, gen + 1}
    BY <1>8 DEF Teardown, ghosts
  <2>2. \A q \in Req : req'[q] = req[q] \/ req'[q].gen = -1
    BY <1>8, <1>0 DEF Teardown, Finish
  <2>3. QED
    BY <1>0, <2>1, <2>2
<1>9. ASSUME NEW t \in Tx, Pay(t) PROVE UInv'
  BY <1>9, <1>1 DEF Pay, ghosts
<1>10. CASE UNCHANGED vars
  BY <1>10, <1>1 DEF vars, ghosts
<1>11. QED
  BY <1>2, <1>3, <1>4, <1>5, <1>6, <1>7, <1>8, <1>9, <1>10
     DEF Next, Step, Recharge, Online, Offline, Lock

(* The used total is the sum of the bills, also when the lock fails and    *)
(* when a logout carries a snapshot older than its lock: the version of    *)
(* the device is what keeps two logouts from settling on the same one.     *)
THEOREM UsedTotalIsSpent == Spec => []UsedIsSpent
<1>1. Init => UInv
  BY DEF Init, UInv, SnapsCurrent, Current, UsedIsSpent, Idle, NewAccount
<1>2. UInv => UsedIsSpent
  BY DEF UInv
<1>3. QED
  BY <1>1, <1>2, UsedInductive, AccountInvariant, PTL DEF Spec
-----------------------------------------------------------------------------
(* What was paid, in all *)

(* The sum of some payments is a fold over their set: this is the element  *)
(* it takes next, and what it makes of a set and its sums over the smaller *)
FeeSum(S) == MapThenSumSet(LAMBDA t : Fee[t], S)
Pick(s) == CHOOSE t \in s : TRUE
SumUpTo(f, s) == IF s = {} THEN 0 ELSE Fee[Pick(s)] + f[s \ {Pick(s)}]
Sums(f, S) == f = [s \in SUBSET S |-> SumUpTo(f, s)]

LEMMA SumIsFold == ASSUME NEW S PROVE FeeSum(S) = (CHOOSE f : Sums(f, S))[S]
BY DEF FeeSum, MapThenSumSet, MapThenFoldSet, Sums, SumUpTo, Pick

(* Induction over sizes is done with the least counterexample *)
LEMMA LeastNumber ==
  ASSUME NEW T, T \subseteq Nat, T # {}
  PROVE  \E n \in T : \A m \in T : n <= m
<1> DEFINE R == {mn \in Nat \X Nat : mn[1] < mn[2]}
<1>1. IsWellFoundedOn(R, Nat)
  BY NatLessThanWellFounded DEF OpToRel
<1> HIDE DEF R
<1>2. PICK n \in T : \A m \in T : <<m, n>> \notin R
  BY <1>1, WFMin
<1>3. \A m \in T : ~(m < n)
  BY <1>2 DEF R
<1> QED
  BY <1>3

LEMMA PickSmaller ==
  ASSUME NEW s, IsFiniteSet(s), s # {}
  PROVE  /\ Pick(s) \in s
         /\ IsFiniteSet(s \ {Pick(s)})
         /\ Cardinality(s) \in Nat /\ Cardinality(s) > 0
         /\ Cardinality(s \ {Pick(s)}) = Cardinality(s) - 1
<1>1. Pick(s) \in s
  BY DEF Pick
<1> QED
  BY <1>1, FS_RemoveElement, FS_CardinalityType, FS_EmptySet

(* There are such sums, *)
LEMMA SumExists ==
  ASSUME NEW S \in SUBSET Tx, IsFiniteSet(S)
  PROVE  \E f \in [SUBSET S -> Nat] : Sums(f, S)
<1> DEFINE SumsTo(f, k) == \A s \in SUBSET S : Cardinality(s) <= k => f[s] = SumUpTo(f, s)
           T == {k \in Nat : ~ \E f \in [SUBSET S -> Nat] : SumsTo(f, k)}
<1>1. \A s \in SUBSET S : IsFiniteSet(s) /\ Cardinality(s) \in Nat /\ Cardinality(s) <= Cardinality(S)
  BY FS_Subset, FS_CardinalityType
<1>2. T = {}
  <2> SUFFICES ASSUME T # {} PROVE FALSE
    OBVIOUS
  <2>1. PICK k \in T : \A m \in T : k <= m
    BY LeastNumber
  <2>2. CASE k = 0
    <3> DEFINE f == [s \in SUBSET S |-> 0]
    <3>1. SumsTo(f, 0)
      BY <1>1, FS_EmptySet DEF SumUpTo
    <3> QED
      BY <3>1, <2>2
  <2>3. CASE k > 0
    <3>1. PICK f \in [SUBSET S -> Nat] : SumsTo(f, k - 1)
      <4>1. k \in Nat /\ k - 1 \in Nat /\ k - 1 < k
        BY <2>1, <2>3
      <4>2. k - 1 \notin T
        <5> HIDE DEF T
        <5> QED
          BY <2>1, <4>1
      <4> QED
        BY <4>1, <4>2
    <3> DEFINE g == [s \in SUBSET S |-> IF Cardinality(s) <= k - 1 THEN f[s] ELSE SumUpTo(f, s)]
    <3>2. ASSUME NEW s \in SUBSET S, s # {}
          PROVE  /\ s \ {Pick(s)} \in SUBSET S /\ Pick(s) \in Tx
                 /\ Cardinality(s) <= k => g[s \ {Pick(s)}] = f[s \ {Pick(s)}]
      <4>1. IsFiniteSet(s)
        BY <1>1
      <4>2. Pick(s) \in s /\ Cardinality(s \ {Pick(s)}) = Cardinality(s) - 1
        BY <3>2, <4>1, PickSmaller
      <4>3. s \ {Pick(s)} \in SUBSET S
        OBVIOUS
      <4>4. Cardinality(s) <= k => Cardinality(s \ {Pick(s)}) <= k - 1
        BY <1>1, <4>2
      <4> QED
        BY <4>2, <4>3, <4>4
    <3>3. g \in [SUBSET S -> Nat]
      <4>1. \A s \in SUBSET S : SumUpTo(f, s) \in Nat
        <5> TAKE s \in SUBSET S
        <5>1. s # {} => /\ Fee[Pick(s)] \in Nat /\ f[s \ {Pick(s)}] \in Nat
          BY <3>2, AccountAssumption
        <5> QED
          BY <5>1 DEF SumUpTo
      <4> QED
        BY <4>1
    <3> HIDE DEF g
    <3>4. ASSUME NEW s \in SUBSET S, Cardinality(s) <= k PROVE g[s] = SumUpTo(f, s)
      BY <3>1, <3>4, <1>1 DEF g
    <3>5. SumsTo(g, k)
      BY <3>4, <3>2 DEF SumUpTo
    <3> QED
      BY <3>3, <3>5, <2>1
  <2> QED
    BY <2>1, <2>2, <2>3
<1>3. PICK f \in [SUBSET S -> Nat] : SumsTo(f, Cardinality(S))
  BY <1>1, <1>2
<1>4. Sums(f, S)
  <2>1. \A s \in SUBSET S : f[s] = SumUpTo(f, s)
    BY <1>1, <1>3
  <2>2. f = [s \in SUBSET S |-> f[s]]
    OBVIOUS
  <2> QED
    BY <2>1, <2>2 DEF Sums
<1> QED
  BY <1>4

(* and two of them agree where both are *)
LEMMA SumUnique ==
  ASSUME NEW S, NEW R, NEW f, NEW g, Sums(f, S), Sums(g, R),
         NEW s \in (SUBSET S) \cap (SUBSET R), IsFiniteSet(s)
  PROVE  f[s] = g[s]
<1> DEFINE T == {k \in Nat : \E u \in (SUBSET S) \cap (SUBSET R) :
                     IsFiniteSet(u) /\ Cardinality(u) = k /\ f[u] # g[u]}
<1>1. T = {}
  <2> SUFFICES ASSUME T # {} PROVE FALSE
    OBVIOUS
  <2>1. PICK k \in T : \A m \in T : k <= m
    BY LeastNumber
  <2>2. PICK u \in (SUBSET S) \cap (SUBSET R) : IsFiniteSet(u) /\ Cardinality(u) = k /\ f[u] # g[u]
    BY <2>1
  <2>3. f[u] = SumUpTo(f, u) /\ g[u] = SumUpTo(g, u)
    BY DEF Sums
  <2>4. u # {}
    BY <2>2, <2>3 DEF SumUpTo
  <2> DEFINE v == u \ {Pick(u)}
  <2>5. v \in (SUBSET S) \cap (SUBSET R) /\ IsFiniteSet(v) /\ Cardinality(v) = k - 1 /\ k - 1 \in Nat
    <3>1. /\ IsFiniteSet(v) /\ Cardinality(v) = Cardinality(u) - 1
          /\ Cardinality(u) \in Nat /\ Cardinality(u) > 0
      BY <2>2, <2>4, PickSmaller
    <3>2. v \in (SUBSET S) \cap (SUBSET R)
      OBVIOUS
    <3> QED
      BY <2>2, <3>1, <3>2
  <2>6. f[v] # g[v]
    BY <2>2, <2>3, <2>4 DEF SumUpTo
  <2> HIDE DEF v
  <2> QED
    BY <2>1, <2>5, <2>6
<1> QED
  BY <1>1, FS_CardinalityType

LEMMA SumRule ==
  ASSUME NEW S \in SUBSET Tx, IsFiniteSet(S)
  PROVE  /\ FeeSum(S) \in Nat
         /\ S = {} => FeeSum(S) = 0
         /\ S # {} => FeeSum(S) = Fee[Pick(S)] + FeeSum(S \ {Pick(S)})
<1>1. PICK f \in [SUBSET S -> Nat] : Sums(f, S)
  BY SumExists
<1>2. \A s \in SUBSET S : FeeSum(s) = f[s]
  <2> TAKE s \in SUBSET S
  <2>1. IsFiniteSet(s)
    BY FS_Subset
  <2>2. Sums((CHOOSE h : Sums(h, s)), s)
    BY <2>1, SumExists
  <2>3. s \in (SUBSET S) \cap (SUBSET s)
    OBVIOUS
  <2> DEFINE h == CHOOSE h : Sums(h, s)
  <2>4. Sums(h, s)
    BY <2>2
  <2> HIDE DEF h
  <2>5. f[s] = h[s]
    BY <1>1, <2>1, <2>3, <2>4, SumUnique
  <2> QED
    BY <2>5, SumIsFold DEF h
<1>3. f[S] = SumUpTo(f, S)
  BY <1>1 DEF Sums
<1> QED
  BY <1>1, <1>2, <1>3 DEF SumUpTo

(* In whatever order the fold takes them, one more payment adds its fee *)
LEMMA SumAdd ==
  ASSUME NEW S \in SUBSET Tx, IsFiniteSet(S), NEW t \in Tx \ S
  PROVE  FeeSum(S \cup {t}) = FeeSum(S) + Fee[t]
<1> DEFINE Off(u, x) == FeeSum(u \cup {x}) # FeeSum(u) + Fee[x]
           T == {k \in Nat : \E u \in SUBSET Tx, x \in Tx :
                     IsFiniteSet(u) /\ Cardinality(u) = k /\ x \notin u /\ Off(u, x)}
<1>1. T = {}
  <2> SUFFICES ASSUME T # {} PROVE FALSE
    OBVIOUS
  <2>1. PICK k \in T : \A m \in T : k <= m
    BY LeastNumber
  <2>2. PICK u \in SUBSET Tx, x \in Tx :
            IsFiniteSet(u) /\ Cardinality(u) = k /\ x \notin u /\ Off(u, x)
    BY <2>1
  <2> DEFINE c == Pick(u \cup {x})
  <2>3. c \in u \cup {x} /\ IsFiniteSet(u \cup {x}) /\ u \cup {x} \in SUBSET Tx
    BY <2>2, FS_AddElement, PickSmaller
  <2>4. FeeSum(u \cup {x}) = Fee[c] + FeeSum((u \cup {x}) \ {c})
    BY <2>3, SumRule
  <2>5. \A y \in u : /\ u \ {y} \in SUBSET Tx /\ IsFiniteSet(u \ {y})
                     /\ Cardinality(u \ {y}) < k /\ Cardinality(u \ {y}) \in Nat
    <3> TAKE y \in u
    <3>1. IsFiniteSet(u \ {y}) /\ Cardinality(u \ {y}) = Cardinality(u) - 1
      BY <2>2, FS_RemoveElement
    <3>2. Cardinality(u \ {y}) \in Nat
      BY <3>1, FS_CardinalityType
    <3> QED
      BY <2>2, <3>1, <3>2
  <2>6. \A y \in u, z \in Tx : z \notin u \ {y} => ~Off(u \ {y}, z)
    <3> SUFFICES ASSUME NEW y \in u, NEW z \in Tx, z \notin u \ {y}, Off(u \ {y}, z) PROVE FALSE
      OBVIOUS
    <3> HIDE DEF Off
    <3>1. Cardinality(u \ {y}) \in T
      BY <2>5
    <3> QED
      BY <2>1, <2>5, <3>1
  <2> HIDE DEF c
  <2>7. CASE c = x
    <3>1. (u \cup {x}) \ {c} = u
      BY <2>2, <2>7
    <3>2. FeeSum(u \cup {x}) = Fee[x] + FeeSum(u)
      BY <2>4, <2>7, <3>1, Zenon
    <3>3. FeeSum(u) \in Nat /\ Fee[x] \in Nat
      BY <2>2, SumRule, AccountAssumption
    <3> QED
      BY <2>2, <3>2, <3>3
  <2>8. CASE c \in u
    <3> DEFINE v == u \ {c}
    <3>1. (u \cup {x}) \ {c} = v \cup {x} /\ u = v \cup {c}
      BY <2>2, <2>8
    <3>2. FeeSum(v \cup {x}) = FeeSum(v) + Fee[x] /\ FeeSum(v \cup {c}) = FeeSum(v) + Fee[c]
      BY <2>2, <2>3, <2>6, <2>8
    <3>3. FeeSum(v) \in Nat /\ Fee[c] \in Nat /\ Fee[x] \in Nat
      BY <2>5, <2>8, SumRule, AccountAssumption
    <3> HIDE DEF v
    <3>4. /\ FeeSum(u \cup {x}) = Fee[c] + FeeSum(v \cup {x})
          /\ FeeSum(u) = FeeSum(v \cup {c})
      BY <2>4, <3>1, Zenon
    <3> QED
      BY <2>2, <3>2, <3>3, <3>4
  <2> QED
    BY <2>3, <2>7, <2>8
<1> QED
  BY <1>1, FS_CardinalityType

(* Nobody has more money in hand than is on record *)
MInv ==
    /\ IsFiniteSet(recharges)
    /\ NeverOverCredited
    /\ \A p \in Req : /\ req[p].snap.total <= RechargeSum
                     /\ req[p].snap.balance <= RechargeSum

LEMMA SumOfRecharges == RechargeSum = FeeSum(recharges) /\ RechargeSum' = FeeSum(recharges')
<1>1. RechargeSum = FeeSum(recharges)
  BY DEF RechargeSum, FeeSum
<1>2. RechargeSum' = FeeSum(recharges')
  BY DEF RechargeSum, FeeSum, MapThenSumSet, MapThenFoldSet
<1> QED
  BY <1>1, <1>2

LEMMA MoneyInductive == IInv /\ MInv /\ [Next]_vars => MInv'
<1> SUFFICES ASSUME IInv, MInv, [Next]_vars PROVE MInv'
  OBVIOUS
<1>0. /\ req \in [Req -> Request] /\ account \in AccountRow /\ recharges \in SUBSET Tx
      /\ account.total \in Nat /\ account.balance \in Nat /\ account.used \in Nat
      /\ \A p \in Req : /\ req[p].snap \in AccountRow
                       /\ req[p].snap.total \in Nat /\ req[p].snap.balance \in Nat
      /\ Idle.snap.total = 0 /\ Idle.snap.balance = 0
  BY DEF IInv, TypeOK, Request, AccountRow, Idle, NewAccount
<1>00. /\ RechargeSum = FeeSum(recharges) /\ RechargeSum \in Nat
       /\ IsFiniteSet(recharges)
       /\ account.total <= RechargeSum /\ account.balance <= RechargeSum
       /\ \A p \in Req : /\ req[p].snap.total <= RechargeSum
                        /\ req[p].snap.balance <= RechargeSum
  <2>1. RechargeSum = FeeSum(recharges)
    BY DEF RechargeSum, FeeSum
  <2>2. IsFiniteSet(recharges)
    BY DEF MInv
  <2>3. RechargeSum \in Nat
    BY <2>1, <2>2, <1>0, SumRule
  <2> QED
    BY <2>1, <2>2, <2>3 DEF MInv, NeverOverCredited
(* what pays nothing, and takes its snapshots from the account *)
<1>1. ASSUME recharges' = recharges,
             account'.total <= RechargeSum, account'.balance <= RechargeSum,
             \A q \in Req : req'[q].snap \in {req[q].snap, account, Idle.snap}
      PROVE  MInv'
  <2>1. RechargeSum' = RechargeSum
    BY <1>1, SumOfRecharges
  <2>2. \A q \in Req : req'[q].snap.total <= RechargeSum /\ req'[q].snap.balance <= RechargeSum
    <3> TAKE q \in Req
    <3>1. CASE req'[q].snap = req[q].snap
      BY <1>00, <3>1
    <3>2. CASE req'[q].snap = account
      BY <1>00, <3>2
    <3>3. CASE req'[q].snap = Idle.snap
      BY <1>0, <1>00, <3>3
    <3> QED
      BY <1>1, <3>1, <3>2, <3>3
  <2> QED
    BY <1>00, <1>1, <2>1, <2>2 DEF MInv, NeverOverCredited
<1>2. ASSUME NEW p \in Req, CreateRecharge(p) PROVE MInv'
  <2> DEFINE t == req[p].tx
             s == req[p].snap
  <2>1. t \in Tx /\ Fee[t] \in Nat
    BY <1>2, AccountAssumption DEF CreateRecharge, At, IInv, NotifyHasTx
  <2>2. \A q \in Req : req'[q].snap = req[q].snap \/ req'[q].snap = Idle.snap
    BY <1>2, <1>0 DEF CreateRecharge, Finish, Goto, Request
  <2>3. CASE t \in recharges
    <3>1. account' = account /\ recharges' = recharges
      BY <1>2, <2>3 DEF CreateRecharge
    <3> QED
      BY <1>00, <1>1, <2>2, <3>1
  <2>4. CASE t \notin recharges
    <3>1. account' = Credited(p) /\ recharges' = recharges \cup {t}
      BY <1>2, <2>4 DEF CreateRecharge
    <3>2. RechargeSum' = FeeSum(recharges')
      BY SumOfRecharges
    <3>21. FeeSum(recharges') = FeeSum(recharges \cup {t})
      BY <3>1
    <3>22. FeeSum(recharges \cup {t}) = FeeSum(recharges) + Fee[t]
      BY <1>0, <1>00, <2>1, <2>4, SumAdd
    <3>3. RechargeSum' = RechargeSum + Fee[t] /\ IsFiniteSet(recharges')
      BY <1>00, <3>1, <3>2, <3>21, <3>22, FS_AddElement
    <3>4. account'.total = s.total + Fee[t] /\ account'.balance = s.balance + Fee[t]
      BY <1>0, <3>1 DEF Credited, AccountRow
    <3> HIDE DEF t, s
    <3>41. /\ s.total \in Nat /\ s.total <= RechargeSum
           /\ s.balance \in Nat /\ s.balance <= RechargeSum
      BY <1>0, <1>00 DEF s
    <3>5. account'.total <= RechargeSum' /\ account'.balance <= RechargeSum'
      BY <1>00, <2>1, <3>3, <3>4, <3>41
    <3>6. \A q \in Req : req'[q].snap.total <= RechargeSum' /\ req'[q].snap.balance <= RechargeSum'
      <4> TAKE q \in Req
      <4>1. CASE req'[q].snap = req[q].snap
        BY <1>0, <1>00, <2>1, <3>3, <4>1
      <4>2. CASE req'[q].snap = Idle.snap
        BY <1>0, <1>00, <2>1, <3>3, <4>2
      <4> QED
        BY <2>2, <4>1, <4>2
    <3> QED
      BY <3>3, <3>5, <3>6 DEF MInv, NeverOverCredited
  <2> QED
    BY <2>3, <2>4
<1>3. ASSUME NEW p \in Req, Settle(p) PROVE MInv'
  <2>1. recharges' = recharges
    BY <1>3 DEF Settle
  <2>2. \A q \in Req : req'[q].snap = req[q].snap
    BY <1>3, <1>0 DEF Settle, Bill, Goto, Request
  <2>3. CASE req[p].gen = gen /\ \E c \in Cost : Bill(p, c)
    <3> DEFINE s == req[p].snap
    <3>1. PICK c \in Cost : account' = Charged(s, c)
      BY <2>3 DEF Bill
    <3>2. c \in Nat /\ s \in AccountRow
      BY <1>0, AccountAssumption
    <3> HIDE DEF s
    <3>3. /\ account'.total = account.total
          /\ account'.balance = IF s.balance < c THEN 0 ELSE s.balance - c
      BY <1>0, <3>1 DEF Charged, AccountRow
    <3>4. s.balance \in Nat /\ s.balance <= RechargeSum
      BY <1>0, <1>00 DEF s
    <3>5. account'.balance <= RechargeSum
      BY <1>00, <3>2, <3>3, <3>4
    <3> QED
      BY <1>00, <1>1, <2>1, <2>2, <3>3, <3>5
  <2>4. CASE account' = account
    BY <1>00, <1>1, <2>1, <2>2, <2>4
  <2> QED
    BY <1>3, <2>3, <2>4 DEF Settle
<1>4. ASSUME account' = account, recharges' = recharges,
             \A q \in Req : req'[q].snap \in {req[q].snap, account, Idle.snap}
      PROVE  MInv'
  BY <1>00, <1>1, <1>4
<1>5. ASSUME NEW p \in Req, FindRecharge(p) \/ QueryOrder(p) \/ Teardown(p) \/ Crash(p)
      PROVE  MInv'
  <2>1. \A q \in Req : req'[q].snap \in {req[q].snap, account, Idle.snap}
    BY <1>5, <1>0 DEF FindRecharge, QueryOrder, Teardown, Crash, Finish, Goto, Request
  <2> QED
    BY <1>4, <1>5, <2>1 DEF FindRecharge, QueryOrder, Teardown, Crash
<1>51. ASSUME NEW p \in Req, (\E t \in Tx : Notify(p, t)) \/ StartLogin(p)
       PROVE  MInv'
  <2>1. \A q \in Req : req'[q].snap \in {req[q].snap, Idle.snap}
    BY <1>51, <1>0 DEF Notify, StartLogin, Idle
  <2> QED
    BY <1>4, <1>51, <2>1 DEF Notify, StartLogin
<1>6. ASSUME NEW p \in Req,
             \/ SyncRead(p) \/ SyncWrite(p) \/ ReadBalance(p) \/ OpenSession(p)
             \/ CloseSession(p) \/ EnterLock(p) \/ FailLock(p) \/ LeaveLock(p)
      PROVE  MInv'
  <2>1. \A q \in Req : req'[q].snap = req[q].snap
    BY <1>6, <1>0 DEF SyncRead, SyncWrite, ReadBalance, OpenSession,
                      CloseSession, EnterLock, FailLock, LeaveLock, Goto, Request
  <2> QED
    BY <1>4, <1>6, <2>1 DEF SyncRead, SyncWrite, ReadBalance, OpenSession,
                            CloseSession, EnterLock, FailLock, LeaveLock
<1>61. ASSUME NEW p \in Req, StartLogout(p) PROVE MInv'
  <2>1. PICK by \in {"anonymous", "administrator"} :
          req' = [req EXCEPT ![p] = [Idle EXCEPT !.kind = "logout", !.pc = "lock",
                     !.text = text,
                     !.snap = IF by = "administrator" THEN account ELSE @,
                     !.gen = IF by = "administrator" THEN gen ELSE @]]
    BY <1>61 DEF StartLogout
  <2>2. req'[p].snap \in {account, Idle.snap} /\ \A q \in Req \ {p} : req'[q] = req[q]
    BY <1>0, <2>1 DEF Idle
  <2> QED
    BY <1>4, <1>61, <2>2 DEF StartLogout
<1>62. ASSUME NEW p \in Req, Recheck(p) PROVE MInv'
  <2>1. req'[p].snap \in {account, req[p].snap} /\ \A q \in Req \ {p} : req'[q] = req[q]
    BY <1>0, <1>62 DEF Recheck, Request
  <2> QED
    BY <1>4, <1>62, <2>1 DEF Recheck
<1>7. ASSUME NEW t \in Tx, Pay(t) PROVE MInv'
  BY <1>7, <1>4 DEF Pay
<1>8. CASE UNCHANGED vars
  BY <1>8, <1>4 DEF vars
<1> QED
  BY <1>2, <1>3, <1>5, <1>51, <1>6, <1>61, <1>62, <1>7, <1>8 DEF Next, Step, Recharge, Online, Offline, Lock

(* No account shows more money than was paid, for any payments, requests   *)
(* and prices, stale snapshots and repeated notifications included.        *)
THEOREM NoMoneyFromNowhere == Spec => []NeverOverCredited
<1>1. Init => MInv
  <2> SUFFICES ASSUME Init PROVE MInv
    OBVIOUS
  <2>1. RechargeSum = FeeSum({}) /\ recharges = {}
    BY DEF Init, RechargeSum, FeeSum
  <2>2. RechargeSum = 0
    BY <2>1, SumRule, FS_EmptySet
  <2> QED
    BY <2>1, <2>2, FS_EmptySet DEF Init, MInv, NeverOverCredited, Idle, NewAccount
<1>2. MInv => NeverOverCredited
  BY DEF MInv
<1> QED
  BY <1>1, <1>2, MoneyInductive, AccountInvariant, PTL DEF Spec
-----------------------------------------------------------------------------
(* Sessions that were billed, while the lock works *)

LockWorks == "foul" \notin Faults

Inside(p) ==
    req[p].pc \in {"syncRead", "syncWrite", "open", "recheck", "settle", "close"}
HolderInside == \A p \in Req : Inside(p) => lockKey = p

(* Who syncs has the text of redis in hand, since nobody else is inside *)
SyncCurrent ==
    \A p \in Req : req[p].pc = "syncWrite" => req[p].text = text /\ text # NoText

(* The session a login is about to open is the newest, and nobody knows it *)
Opening(p) == req[p].kind = "login" /\ req[p].pc \in {"read", "lock", "open"}
OneLogin == \A p, q \in Req : req[p].kind = "login" /\ req[q].kind = "login" => p = q
KnownIds ==
    /\ text.id <= sessions
    /\ \A p \in Req : req[p].text.id <= sessions
    /\ \A i \in settled : i <= sessions
NewId ==
    \A p \in Req : Opening(p) =>
        /\ req[p].text.id = sessions /\ sessions > 0
        /\ text.id # sessions /\ sessions \notin settled
        /\ \A q \in Req \ {p} : req[q].text.id # sessions

(* A billed session whose text is still there is being closed *)
BeingClosed ==
    text.id \in settled \ orphaned =>
        \E p \in Req : req[p].pc = "close" /\ req[p].text.id = text.id

EInv == LockWorks /\ HolderInside /\ SyncCurrent /\ OneLogin /\ KnownIds /\ NewId
        /\ (text # NoText => BeingClosed)

(* Steps that change neither the keys nor the bills, and open nothing *)
LEMMA MovesKeep ==
    ASSUME IInv, EInv, NEW p \in Req,
           UNCHANGED <<text, sessions, settled, orphaned, lockKey>>,
           \A q \in Req : q # p => req'[q] = req[q],
           Inside(p)' => Inside(p),
           req'[p].kind = "login" => req[p].kind = "login",
           Opening(p)' => Opening(p) /\ req'[p].text.id = req[p].text.id,
           req'[p].text.id \in {0, req[p].text.id, text.id},
           req'[p].pc = "syncWrite" => req'[p].text = text /\ text # NoText,
           req[p].pc # "close"
    PROVE  EInv'
<1> USE DEF EInv
<1>1. HolderInside'
  BY DEF HolderInside, Inside
<1>2. SyncCurrent'
  BY DEF SyncCurrent
<1>3. OneLogin'
  BY DEF OneLogin
<1>4. KnownIds'
  <2>1. KnownIds /\ sessions' = sessions /\ text' = text /\ settled' = settled
    OBVIOUS
  <2>2. sessions \in Nat
    BY DEF IInv, TypeOK
  <2>3. req'[p].text.id <= sessions
    BY <2>1, <2>2 DEF KnownIds
  <2>4. \A q \in Req : req'[q].text.id <= sessions
    BY <2>1, <2>3 DEF KnownIds
  <2>5. QED
    BY <2>1, <2>4 DEF KnownIds
<1>5. NewId'
  BY DEF NewId, Opening
<1>6. (text # NoText => BeingClosed)'
  BY DEF BeingClosed
<1>7. QED
  BY <1>1, <1>2, <1>3, <1>4, <1>5, <1>6 DEF LockWorks

LEMMA SettledInductive == IInv /\ EInv /\ [Next]_vars => EInv'
<1> SUFFICES ASSUME IInv, EInv, [Next]_vars PROVE EInv'
  OBVIOUS
<1> USE DEF EInv
<1>0. /\ req \in [Req -> Request] /\ text \in Text /\ NotifyHasTx
      /\ sessions \in Nat /\ settled \subseteq Nat
      /\ text.id \in Nat /\ \A p \in Req : req[p] \in Request /\ req[p].text.id \in Nat
  BY DEF IInv, TypeOK, Request, Text
<1>1. ASSUME NEW p \in Req,
             \/ \E t \in Tx : Notify(p, t)
             \/ FindRecharge(p) \/ QueryOrder(p) \/ CreateRecharge(p) \/ SyncRead(p)
             \/ ReadBalance(p) \/ StartLogout(p) \/ Recheck(p) \/ FailLock(p) \/ Teardown(p)
      PROVE  EInv'
  <2>1. UNCHANGED <<text, sessions, settled, orphaned, lockKey>>
    BY <1>1 DEF Notify, FindRecharge, QueryOrder, CreateRecharge, SyncRead, ReadBalance,
                StartLogout, Recheck, FailLock, Teardown, ghosts
  <2>2. CASE QueryOrder(p) \/ CreateRecharge(p) \/ FailLock(p) \/ Teardown(p)
    <3>1. req[p].pc \in {"query", "create", "lock", "end"}
      BY <2>2 DEF QueryOrder, CreateRecharge, FailLock, Teardown, At
    <3>2. \/ req' = [req EXCEPT ![p] = Idle]
          \/ /\ req[p].kind = "notify"
             /\ req' = [req EXCEPT ![p].pc = "create"] \/ req' = [req EXCEPT ![p].pc = "lock"]
          \/ req' = [req EXCEPT ![p].answer = "failure", ![p].pc = "leave"]
      BY <1>0, <2>2 DEF QueryOrder, CreateRecharge, FailLock, Teardown, At, Goto, Finish,
                        NotifyHasTx
    <3>3. \A q \in Req : q # p => req'[q] = req[q]
      BY <1>0, <3>2
    <3>4. \/ req'[p] = Idle
          \/ /\ req'[p].kind = req[p].kind /\ req'[p].text = req[p].text
             /\ \/ req'[p].pc = "leave"
                \/ req'[p].pc \in {"create", "lock"} /\ req[p].kind = "notify"
      BY <1>0, <3>2 DEF Request
    <3>5. Idle.pc = "idle" /\ Idle.kind = "none" /\ Idle.text.id = 0
      BY DEF Idle, NoText
    <3>6. QED
      BY <2>1, <3>1, <3>3, <3>4, <3>5, MovesKeep DEF Inside, Opening
  <2>3. CASE FindRecharge(p) \/ Recheck(p) \/ SyncRead(p)
    <3>1. /\ req[p].pc \in {"find", "recheck", "syncRead"}
          /\ req[p].kind # "login"
      BY <1>0, <2>3 DEF FindRecharge, Recheck, SyncRead, At, NotifyHasTx
    <3>2. \A q \in Req : q # p => req'[q] = req[q]
      BY <1>0, <2>3 DEF FindRecharge, Recheck, SyncRead, Finish
    <3>3. CASE SyncRead(p)
      <4>1. /\ req'[p].kind = req[p].kind /\ req'[p].text = text
            /\ req'[p].pc = (IF text = NoText THEN "leave" ELSE "syncWrite") /\ Inside(p)
        BY <1>0, <3>3 DEF SyncRead, Request, Inside, At
      <4>2. QED
        BY <2>1, <3>1, <3>2, <4>1, MovesKeep DEF Opening
    <3>4. CASE Recheck(p)
      <4>1. /\ req'[p].kind = req[p].kind /\ req'[p].text = req[p].text
            /\ req'[p].pc \in {"leave", "settle"} /\ Inside(p)
        BY <1>0, <3>4 DEF Recheck, Request, Inside, At
      <4>2. QED
        BY <2>1, <3>1, <3>2, <4>1, MovesKeep DEF Opening
    <3>5. CASE FindRecharge(p)
      <4>1. \/ req'[p] = Idle
            \/ /\ req'[p].kind = req[p].kind /\ req'[p].text = req[p].text
               /\ req'[p].pc = "query"
        BY <1>0, <3>5 DEF FindRecharge, Finish, Request
      <4>2. Idle.pc = "idle" /\ Idle.kind = "none" /\ Idle.text.id = 0
        BY DEF Idle, NoText
      <4>3. QED
        BY <2>1, <3>1, <3>2, <4>1, <4>2, MovesKeep DEF Opening, Inside
    <3>6. QED
      BY <2>3, <3>3, <3>4, <3>5
  <2>4. CASE ReadBalance(p)
    <3>1. /\ req[p].pc = "read" /\ req[p].kind = "login"
          /\ \A q \in Req : q # p => req'[q] = req[q]
          /\ req'[p].kind = "login" /\ req'[p].pc = "lock"
          /\ req'[p].text.id = req[p].text.id
      BY <1>0, <2>4 DEF ReadBalance, At, NotifyHasTx, Request, Text
    <3>2. QED
      BY <2>1, <3>1, MovesKeep DEF Opening, Inside
  <2>5. CASE StartLogout(p) \/ \E t \in Tx : Notify(p, t)
    <3>1. /\ req[p].pc = "idle"
          /\ \A q \in Req : q # p => req'[q] = req[q]
      BY <1>0, <2>5 DEF StartLogout, Notify, At
    <3>2. /\ req'[p].kind \in {"logout", "notify"} /\ req'[p].pc \in {"lock", "find"}
          /\ req'[p].text \in {text, NoText}
      <4>1. ASSUME NEW t \in Tx, Notify(p, t)
            PROVE  req'[p].kind = "notify" /\ req'[p].pc = "find" /\ req'[p].text = NoText
        BY <1>0, <4>1 DEF Notify, Idle
      <4>2. ASSUME StartLogout(p)
            PROVE  req'[p].kind = "logout" /\ req'[p].pc = "lock" /\ req'[p].text = text
        <5>1. PICK s, g : req' = [req EXCEPT ![p] =
                  [Idle EXCEPT !.kind = "logout", !.pc = "lock", !.text = text,
                               !.snap = s, !.gen = g]]
          BY <4>2, Zenon DEF StartLogout
        <5>2. QED
          BY <1>0, <5>1 DEF Idle
      <4>3. QED
        BY <2>5, <4>1, <4>2
    <3>3. NoText.id = 0
      BY DEF NoText
    <3>4. QED
      BY <2>1, <3>1, <3>2, <3>3, MovesKeep DEF Opening, Inside
  <2>6. QED
    BY <1>1, <2>2, <2>3, <2>4, <2>5
<1>2. ASSUME NEW p \in Req, EnterLock(p) \/ LeaveLock(p) PROVE EInv'
  <2>1. /\ UNCHANGED <<text, sessions, settled, orphaned>>
        /\ \A q \in Req : /\ q # p => req'[q] = req[q]
                          /\ req'[q].kind = req[q].kind /\ req'[q].text = req[q].text
    BY <1>0, <1>2 DEF EnterLock, LeaveLock, ghosts, Goto, Request
  <2>2. \/ lockKey = "absent" /\ lockKey' = p /\ req[p].pc = "lock"
        \/ /\ req[p].pc = "leave" /\ req'[p].pc = "end"
           /\ lockKey' = lockKey \/ lockKey \in {p, "left"}
    BY <1>0, <1>2 DEF EnterLock, LeaveLock, At, Goto, LockWorks, Request
  <2>3. HolderInside'
    <3>1. CASE lockKey = "absent" /\ lockKey' = p
      BY <2>1, <3>1, AccountAssumption DEF HolderInside, Inside
    <3>2. CASE req'[p].pc = "end" /\ (lockKey' = lockKey \/ lockKey \in {p, "left"})
      BY <2>1, <3>2, AccountAssumption DEF HolderInside, Inside
    <3>3. QED
      BY <2>2, <3>1, <3>2
  <2>4. req'[p].pc \in {"syncRead", "open", "recheck", "end"}
        /\ (req'[p].pc = "open" => req[p].pc = "lock")
        /\ req[p].pc # "close"
    BY <1>0, <1>2 DEF EnterLock, LeaveLock, At, Goto, Body, Request
  <2>5. SyncCurrent'
    BY <2>1, <2>4 DEF SyncCurrent
  <2>6. OneLogin' /\ KnownIds'
    BY <2>1 DEF OneLogin, KnownIds
  <2>7. NewId'
    BY <2>1, <2>4 DEF NewId, Opening
  <2>8. (text # NoText => BeingClosed)'
    BY <2>1, <2>4 DEF BeingClosed
  <2>9. QED
    BY <2>3, <2>5, <2>6, <2>7, <2>8 DEF LockWorks
<1>3. ASSUME NEW p \in Req, Crash(p) PROVE EInv'
  <2>1. /\ UNCHANGED <<text, sessions, settled>>
        /\ \A q \in Req : q # p => req'[q] = req[q]
        /\ req'[p] = Idle
        /\ lockKey' = IF lockKey = p THEN "left" ELSE lockKey
        /\ orphaned' = IF req[p].pc = "close" THEN orphaned \cup {req[p].text.id} ELSE orphaned
    BY <1>0, <1>3 DEF Crash, Finish, At
  <2>2. Idle.pc = "idle" /\ Idle.kind = "none" /\ Idle.text.id = 0
    BY DEF Idle, NoText
  <2>3. HolderInside' /\ SyncCurrent' /\ OneLogin'
    BY <2>1, <2>2 DEF HolderInside, Inside, SyncCurrent, OneLogin
  <2>4. KnownIds' /\ NewId'
    BY <1>0, <2>1, <2>2 DEF KnownIds, NewId, Opening
  <2>5. (text # NoText => BeingClosed)'
    BY <2>1, <2>2 DEF BeingClosed
  <2>6. QED
    BY <2>3, <2>4, <2>5 DEF LockWorks
<1>4. ASSUME NEW p \in Req, StartLogin(p) PROVE EInv'
  <2> DEFINE new == [NoText EXCEPT !.id = sessions']
             r == [Idle EXCEPT !.kind = "login", !.pc = "read", !.text = new]
  <2>1. /\ UNCHANGED <<text, settled, orphaned, lockKey>> /\ sessions' = sessions + 1
        /\ text = NoText
        /\ \A q \in Req : req[q].kind # "login"
        /\ req' = [req EXCEPT ![p] = r] /\ req[p].pc = "idle"
    BY <1>4 DEF StartLogin, ghosts, At
  <2>2. r.kind = "login" /\ r.pc = "read" /\ r.text.id = sessions + 1
    BY <2>1 DEF Idle, NoText
  <2> HIDE DEF r, new
  <2>3. \A q \in Req : req'[q] = IF q = p THEN r ELSE req[q]
    BY <1>0, <2>1
  <2>4. HolderInside' /\ SyncCurrent' /\ OneLogin'
    BY <2>1, <2>2, <2>3 DEF HolderInside, Inside, SyncCurrent, OneLogin
  <2>5. KnownIds'
    BY <1>0, <2>1, <2>2, <2>3 DEF KnownIds
  <2>6. NewId'
    BY <1>0, <2>1, <2>2, <2>3 DEF NewId, Opening, KnownIds
  <2>7. QED
    BY <2>1, <2>4, <2>5, <2>6 DEF LockWorks
<1>5. ASSUME NEW p \in Req, SyncWrite(p) \/ OpenSession(p) \/ CloseSession(p) PROVE EInv'
  <2>1. /\ UNCHANGED <<sessions, settled, orphaned, lockKey>>
        /\ Inside(p) /\ req'[p].pc = "leave"
        /\ \A q \in Req : /\ q # p => req'[q] = req[q]
                          /\ req'[q].kind = req[q].kind /\ req'[q].text = req[q].text
    BY <1>0, <1>5 DEF SyncWrite, OpenSession, CloseSession, ghosts, Inside, At, Goto, Request
  <2>2. \A q \in Req : Inside(q) => q = p
    BY <2>1 DEF HolderInside
  <2>3. /\ SyncWrite(p) => text'.id = text.id
        /\ OpenSession(p) => Opening(p) /\ text'.id = sessions
        /\ CloseSession(p) => text'= NoText /\ text'.id = 0
    BY <1>0 DEF SyncWrite, OpenSession, CloseSession, SyncCurrent, Opening, At, NotifyHasTx,
                NewId, NoText, Text
  <2>4. HolderInside' /\ OneLogin'
    BY <2>1 DEF HolderInside, Inside, OneLogin
  <2>5. SyncCurrent'
    BY <2>1, <2>2 DEF SyncCurrent, Inside
  <2>6. KnownIds'
    BY <1>0, <1>5, <2>1, <2>3 DEF KnownIds
  <2>7. NewId'
    <3>1. CASE OpenSession(p)
      BY <2>1, <2>3, <3>1 DEF NewId, Opening, OneLogin
    <3>2. CASE SyncWrite(p) \/ CloseSession(p)
      BY <2>1, <2>3, <3>2 DEF NewId, Opening
    <3>3. QED
      BY <1>5, <3>1, <3>2
  <2>8. (text # NoText => BeingClosed)'
    <3>1. req[p].pc = "close" \/ \A q \in Req : req[q].pc # "close"
      BY <2>2 DEF Inside
    <3>2. CASE SyncWrite(p)
      <4>1. /\ req[p].pc = "syncWrite" /\ text # NoText
        BY <3>2 DEF SyncWrite, SyncCurrent, At
      <4>2. text.id \notin settled \ orphaned
        BY <3>1, <4>1 DEF BeingClosed
      <4>3. QED
        BY <2>1, <2>3, <3>2, <4>2 DEF BeingClosed
    <3>3. CASE OpenSession(p)
      BY <2>1, <2>3, <3>3 DEF BeingClosed, NewId
    <3>4. CASE CloseSession(p)
      BY <2>3, <3>4
    <3>5. QED
      BY <1>5, <3>2, <3>3, <3>4
  <2>9. QED
    BY <2>4, <2>5, <2>6, <2>7, <2>8 DEF LockWorks
<1>6. ASSUME NEW p \in Req, Settle(p) PROVE EInv'
  <2>1. /\ UNCHANGED <<text, sessions, lockKey, orphaned>> /\ req[p].pc = "settle"
        /\ \A q \in Req : /\ q # p => req'[q] = req[q]
                          /\ req'[q].kind = req[q].kind /\ req'[q].text = req[q].text
        /\ \/ req'[p].pc = "close" /\ settled' = settled \cup {req[p].text.id}
           \/ req'[p].pc = "leave" /\ settled' = settled
    BY <1>0, <1>6 DEF Settle, Bill, At, Goto, Request
  <2>2. \A q \in Req : q # p => ~Inside(q)
    BY <2>1 DEF HolderInside, Inside
  <2>3. HolderInside' /\ SyncCurrent' /\ OneLogin'
    BY <2>1 DEF HolderInside, Inside, SyncCurrent, OneLogin
  <2>4. KnownIds'
    BY <1>0, <2>1 DEF KnownIds
  <2>5. NewId'
    <3>1. ASSUME NEW q \in Req, Opening(q)' PROVE Opening(q) /\ q # p
      BY <2>1, <3>1 DEF Opening
    <3>2. QED
      BY <2>1, <3>1 DEF NewId
  <2>6. (text # NoText => BeingClosed)'
    <3>1. text # NoText => text.id \notin settled \ orphaned
      BY <2>1, <2>2 DEF BeingClosed, Inside
    <3>2. QED
      BY <2>1, <3>1 DEF BeingClosed
  <2>7. QED
    BY <2>3, <2>4, <2>5, <2>6 DEF LockWorks
<1>7. ASSUME NEW t \in Tx, Pay(t) PROVE EInv'
  BY <1>7 DEF Pay, ghosts, LockWorks, HolderInside, Inside, SyncCurrent, OneLogin, KnownIds,
              NewId, Opening, BeingClosed
<1>8. CASE UNCHANGED vars
  BY <1>8 DEF vars, ghosts, LockWorks, HolderInside, Inside, SyncCurrent, OneLogin, KnownIds,
              NewId, Opening, BeingClosed
<1>9. QED
  BY <1>1, <1>2, <1>3, <1>4, <1>5, <1>6, <1>7, <1>8
     DEF Next, Step, Recharge, Online, Offline, Lock

(* While the lock works, a billed session is over when the lock is free,   *)
(* but for those whose logout died between the bill and the keys: neither  *)
(* the sync of a recharge nor a second logout brings one back.             *)
THEOREM BilledSessionsEnd == LockWorks /\ Spec => []SettledStaysEnded
<1>1. LockWorks /\ Init => EInv
  BY DEF Init, EInv, LockWorks, HolderInside, Inside, SyncCurrent, OneLogin, KnownIds,
         NewId, Opening, BeingClosed, Idle, NoText
<1>2. EInv => SettledStaysEnded
  <2> SUFFICES ASSUME EInv, lockKey = "absent", text # NoText, text.id \in settled \ orphaned
               PROVE  FALSE
    BY DEF SettledStaysEnded
  <2>1. PICK p \in Req : req[p].pc = "close"
    BY DEF EInv, BeingClosed
  <2>2. QED
    BY <2>1, AccountAssumption DEF EInv, HolderInside, Inside
<1>3. QED
  BY <1>1, <1>2, SettledInductive, AccountInvariant, PTL DEF Spec
=============================================================================
