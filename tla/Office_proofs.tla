----------------------------- MODULE Office_proofs -----------------------------
(***************************************************************************)
(* What is proved of the office: each component keeps an invariant of its  *)
(* own, over its own steps, and a step of the office is a step of one of   *)
(* them or none (StepsApart).  The billing has a module of its own.        *)
(***************************************************************************)
EXTENDS Office, TLAPS

(* A step of the office is one of each component, or leaves it as it was    *)
LEMMA StepsApart ==
  ASSUME [OfficeNext]_allVars
  PROVE  /\ [T!Next]_(T!vars) /\ [R!Next]_(R!vars) /\ [S!Next]_(S!vars)
         /\ [C!Next]_(C!vars) /\ [M!Next]_(M!vars)
<1> USE DEF T!vars, R!vars, R!redis, R!history, S!vars, S!rows, S!history, C!vars, C!rows, M!vars, M!rows,
            keys, players, staff, rates, keepers
<1>1. CASE Billed
  BY <1>1, Zenon DEF Billed
<1>2. CASE Renewed
  BY <1>2, Zenon DEF Renewed
<1>3. CASE Registered
  BY <1>3, Zenon DEF Registered
<1>4. CASE Ruled
  BY <1>4, Zenon DEF Ruled
<1>5. CASE Priced
  BY <1>5, Zenon DEF Priced
<1>6. CASE Kept
  BY <1>6, Zenon DEF Kept
<1>7. CASE UNCHANGED allVars
  BY <1>7, Zenon DEF allVars
<1> QED
  BY <1>1, <1>2, <1>3, <1>4, <1>5, <1>6, <1>7 DEF OfficeNext
-----------------------------------------------------------------------------
(* AccessToken *)

(* The ticks that may pass before the thread looks at k again *)
Ahead(k) ==
    (T!Patience - waited) +
    (IF k = "token" THEN IF pc \in {"ask", "lookTicket"} THEN T!Timeout + T!SLEEP_TIME
                         ELSE IF pc = "askTicket" THEN T!SLEEP_TIME ELSE 0
     ELSE IF pc = "askTicket" THEN T!SLEEP_TIME + T!Timeout
          ELSE IF pc \in {"look", "sleep"} THEN T!Timeout ELSE 0)

(* waited never exceeds what the thread waits for *)
InTime == waited <= T!Patience

(* What is left of a key covers the way to the next look, but for a round  *)
(* per look that met it due                                                *)
Covered(k) == k \in held => ttl[k] + T!Round * (tried[k] + 1) > T!Margin + Ahead(k)

TokenInv == T!LifetimeOK /\ T!TypeOK /\ InTime /\ \A k \in T!Key : Covered(k)

(* Before the first look no key has been set.                              *)
LEMMA TokenInit == T!LifetimeOK /\ T!Init => TokenInv
<1> SUFFICES ASSUME T!LifetimeOK, T!Init PROVE TokenInv
  OBVIOUS
<1> USE DEF T!LifetimeOK, T!Init, T!Key, T!Timeout, T!Enough, T!SLEEP_TIME, T!Margin
<1>1. T!TypeOK
  <2>1. ttl \in [T!Key -> 0..Lifetime]
    OBVIOUS
  <2>2. pc \in {"look", "ask", "lookTicket", "askTicket", "sleep"}
    OBVIOUS
  <2>3. waited \in 0..T!Timeout
    OBVIOUS
  <2>4. bearer \in BOOLEAN
    BY Zenon
  <2>5. held \subseteq T!Key
    OBVIOUS
  <2>6. tried \in [T!Key -> 0..T!Enough]
    OBVIOUS
  <2> QED
    BY <2>1, <2>2, <2>3, <2>4, <2>5, <2>6 DEF T!TypeOK
<1>2. InTime
  BY DEF InTime, T!Patience
<1>3. \A k \in T!Key : Covered(k)
  BY DEF Covered
<1> QED
  BY <1>1, <1>2, <1>3 DEF TokenInv

(* Every step of the thread, and every tick, keeps the keys covered.       *)
LEMMA TokenNext == TokenInv /\ [T!Next]_(T!vars) => TokenInv'
<1> SUFFICES ASSUME TokenInv, [T!Next]_(T!vars) PROVE TokenInv'
  OBVIOUS
<1> USE DEF T!LifetimeOK, TokenInv, T!TypeOK, InTime, T!Patience, Covered, Ahead, T!Key,
        T!Margin, T!Timeout, T!SLEEP_TIME, T!Round, T!Enough, T!Goto, T!Met, T!Keep, T!Due, T!Renew
<1>1. CASE T!LookAtToken
  BY <1>1 DEF T!LookAtToken
<1>2. CASE T!TokenAnswered
  BY <1>2 DEF T!TokenAnswered
<1>3. CASE T!TokenFails
  BY <1>3 DEF T!TokenFails
<1>4. CASE T!LookAtTicket
  BY <1>4 DEF T!LookAtTicket
<1>5. CASE T!TicketAnswered
  BY <1>5 DEF T!TicketAnswered
<1>6. CASE T!TicketFails
  BY <1>6 DEF T!TicketFails
<1>7. CASE T!RedisFails
  BY <1>7 DEF T!RedisFails
<1>8. CASE T!Wake
  BY <1>8 DEF T!Wake
<1>9. CASE T!Tick
  BY <1>9 DEF T!Tick
<1>10. CASE UNCHANGED T!vars
  BY <1>10 DEF T!vars
<1> QED
  BY <1>1, <1>2, <1>3, <1>4, <1>5, <1>6, <1>7, <1>8, <1>9, <1>10 DEF T!Next

(* A key of WeChat lapses only after two rounds met it due, for every life *)
(* WeChat gives its keys.                                                  *)
THEOREM Lapses == OfficeSpec => []LapsesAfterTwoTries
<1>1. OfficeInit => TokenInv
  BY OfficeAssumption, TokenInit DEF OfficeInit
<1>2. TokenInv /\ [OfficeNext]_allVars => TokenInv'
  BY StepsApart, TokenNext
<1>3. TokenInv => LapsesAfterTwoTries
  BY DEF LapsesAfterTwoTries, TokenInv, T!TypeOK, Covered, InTime, T!Patience, Ahead,
         T!LapsesAfterTwoTries, T!Key, T!Margin, T!Timeout, T!SLEEP_TIME, T!Round, T!Enough
<1> QED
  BY <1>1, <1>2, <1>3, PTL DEF OfficeSpec
-----------------------------------------------------------------------------
(* Registration *)

BoundsOK == MaxText \in Nat

PlayerRow == [openid : Wechat \cup {None}, profile : R!Profile, deleted : BOOLEAN]

Typed ==
    /\ texts \in 0..MaxText
    /\ captcha \in [Mobile -> Nat]
    /\ passed \in [Mobile -> Nat]
    /\ used \in [R!Code -> Nat]
    /\ playing \in [Req -> R!Request]
    /\ DOMAIN account \subseteq Mobile \cup {None}
    /\ account \in [DOMAIN account -> PlayerRow]

AboutToSet(r, m) == R!At(r, "limit") /\ playing[r].m = m

(* Unless two requests looked it up at once: who passed m's limit has set   *)
(* it, and who is about to is the first                                     *)
Limits(m) ==
    m \notin rushed =>
        /\ \A r, o \in Req : AboutToSet(r, m) /\ AboutToSet(o, m) => r = o
        /\ \A r \in Req : AboutToSet(r, m) => passed[m] = 0
        /\ passed[m] > 0 => m \in limit
        /\ passed[m] <= 1

(* No code is known before it is texted, and logins name a mobile *)
Given ==
    /\ \A r \in Req : R!At(r, "get") => playing[r].m \in Mobile
    /\ \A m \in Mobile : captcha[m] <= texts
    /\ \A r \in Req : playing[r].code <= texts
    /\ \A c \in R!Code : c > texts => used[c] = 0

Storing(r, c) == R!At(r, "store") /\ playing[r].code = c
Deleting(r, c) == R!At(r, "del") /\ playing[r].code = c

(* A code on its way to redis is nowhere else; one in redis is that of one  *)
(* mobile, for which alone it is being deleted; a code that let somebody in *)
(* is gone, unless two logins had it in hand                                *)
OnItsWay(c) ==
    \A r \in Req : Storing(r, c) =>
        /\ used[c] = 0
        /\ \A o \in Req : (Storing(o, c) => o = r) /\ ~Deleting(o, c)
        /\ \A m \in Mobile : captcha[m] # c
OneMobile(c) ==
    /\ \A m, n \in Mobile : captcha[m] = c /\ captcha[n] = c => m = n
    /\ \A r \in Req, n \in Mobile : Deleting(r, c) /\ captcha[n] = c => n = playing[r].m
Spent(c) ==
    c \notin doubled =>
        /\ \A r, o \in Req : Deleting(r, c) /\ Deleting(o, c) => r = o
        /\ used[c] <= 1
        /\ used[c] = 1 => /\ \A r \in Req : ~Deleting(r, c)
                          /\ \A m \in Mobile : captcha[m] # c

Codes(c) == OnItsWay(c) /\ OneMobile(c) /\ Spent(c)

RegInv ==
    /\ BoundsOK /\ Typed /\ Given
    /\ \A m \in Mobile : Limits(m)
    /\ \A c \in R!Code : Codes(c)

(* What a request starts with *)
LEMMA Made ==
  ASSUME BoundsOK, NEW l \in R!Label, NEW w \in Wechat \cup {None},
         NEW m \in Mobile \cup {None}, NEW c \in 0..MaxText
  PROVE  R!NewReq(l, w, m, c) \in R!Request
  BY Zenon DEF R!NewReq, R!Request, R!Profile

LEMMA IdleTyped ==
  ASSUME BoundsOK
  PROVE  R!Idle \in R!Request /\ R!Idle.code = 0 /\ R!Idle.pc = "idle"
<1>1. "idle" \in R!Label /\ 0 \in 0..MaxText
  BY DEF R!Label, BoundsOK
<1>2. R!Idle \in R!Request
  BY <1>1, Made DEF R!Idle
<1> QED
  BY <1>2 DEF R!Idle, R!NewReq

LEMMA RegInit == BoundsOK /\ R!Init => RegInv
<1> SUFFICES ASSUME BoundsOK, R!Init PROVE RegInv
  OBVIOUS
<1>1. Typed
  <2>1. /\ texts \in 0..MaxText /\ captcha \in [Mobile -> Nat]
        /\ passed \in [Mobile -> Nat] /\ used \in [R!Code -> Nat]
    BY DEF R!Init, BoundsOK
  <2>2. playing \in [Req -> R!Request]
    BY IdleTyped DEF R!Init
  <2>3. DOMAIN account \subseteq Mobile \cup {None} /\ account \in [DOMAIN account -> PlayerRow]
    <3> PICK old \in SUBSET Mobile, w \in Wechat, gone \in BOOLEAN :
            account = [m \in old |-> [openid |-> w, profile |-> "full", deleted |-> gone]]
      BY DEF R!Init
    <3> QED
      BY DEF PlayerRow, R!Profile
  <2> QED
    BY <2>1, <2>2, <2>3 DEF Typed
<1>2. \A r \in Req : playing[r].pc = "idle" /\ playing[r].code = 0
  BY IdleTyped DEF R!Init
<1>3. Given
  BY <1>2 DEF Given, R!At, R!Init, R!Code
<1>4. \A m \in Mobile : Limits(m)
  BY <1>2 DEF Limits, AboutToSet, R!At, R!Init
<1>5. \A c \in R!Code : Codes(c)
  <2> SUFFICES ASSUME NEW c \in R!Code PROVE Codes(c)
    OBVIOUS
  <2>1. c # 0 /\ used[c] = 0 /\ \A m \in Mobile : captcha[m] # c
    BY DEF R!Init, R!Code, BoundsOK
  <2>2. \A r \in Req : ~Storing(r, c) /\ ~Deleting(r, c)
    BY <1>2 DEF Storing, Deleting, R!At
  <2> QED
    BY <2>1, <2>2 DEF Codes, OnItsWay, OneMobile, Spent
<1> QED
  BY <1>1, <1>3, <1>4, <1>5 DEF RegInv
-----------------------------------------------------------------------------
Accounts == /\ DOMAIN account \subseteq Mobile \cup {None}
            /\ account \in [DOMAIN account -> PlayerRow]

(* Who moves on with no code on its way leaves what is known of the codes   *)
LEMMA CodesStay ==
  ASSUME RegInv, used' = used, doubled' = doubled, captcha' = captcha, NEW c \in R!Code,
         \A o \in Req : /\ Storing(o, c)' => Storing(o, c)
                        /\ Deleting(o, c)' => Deleting(o, c) /\ playing'[o] = playing[o]
  PROVE  Codes(c)'
<1>1. OnItsWay(c) /\ OneMobile(c) /\ Spent(c)
  BY DEF RegInv, Codes
<1>2. OnItsWay(c)'
  BY <1>1 DEF OnItsWay
<1>3. OneMobile(c)'
  BY <1>1 DEF OneMobile
<1>4. Spent(c)'
  BY <1>1 DEF Spent
<1> QED
  BY <1>2, <1>3, <1>4 DEF Codes

(* A step to where no limit is about to be set and no code on its way or    *)
(* being deleted, that leaves redis alone or loses a code                   *)
LEMMA Quiet ==
  ASSUME RegInv, NEW r \in Req, NEW q \in R!Request, playing' = [playing EXCEPT ![r] = q],
         q.pc \notin {"limit", "store", "del"}, q.code <= texts,
         q.pc = "get" => q.m \in Mobile,
         texts' = texts, limit' = limit, captcha' = captcha, Accounts', UNCHANGED R!history
  PROVE  RegInv'
<1>1. \A o \in Req : playing'[o] = IF o = r THEN q ELSE playing[o]
  BY DEF RegInv, Typed
<1>2. passed' = passed /\ rushed' = rushed /\ used' = used /\ doubled' = doubled
  BY DEF R!history
<1>3. Typed'
  BY <1>1, <1>2 DEF RegInv, Typed, Accounts
<1>4. Given'
  BY <1>1, <1>2 DEF RegInv, Given, R!At
<1>5. \A m \in Mobile : Limits(m)'
  BY <1>1, <1>2 DEF RegInv, Limits, AboutToSet, R!At
<1>6. \A c \in R!Code : \A o \in Req :
          /\ Storing(o, c)' => Storing(o, c)
          /\ Deleting(o, c)' => Deleting(o, c) /\ playing'[o] = playing[o]
  BY <1>1 DEF Storing, Deleting, R!At
<1>7. \A c \in R!Code : Codes(c)'
  BY <1>2, <1>6, CodesStay
<1> QED
  BY <1>3, <1>4, <1>5, <1>7 DEF RegInv, BoundsOK

LEMMA Finishes ==
  ASSUME RegInv, NEW r \in Req, R!Finish(r), texts' = texts, limit' = limit,
         captcha' = captcha, Accounts', UNCHANGED R!history
  PROVE  RegInv'
<1>1. R!Idle \in R!Request /\ R!Idle.code <= texts /\ R!Idle.pc = "idle"
  BY IdleTyped DEF RegInv, Typed
<1> QED
  BY <1>1, Quiet DEF R!Finish, R!Set

LEMMA AccountsStay ==
  ASSUME RegInv, account' = account
  PROVE  Accounts'
  BY DEF RegInv, Typed, Accounts

(* A step of nobody's request *)
LEMMA ReqStays ==
  ASSUME RegInv, UNCHANGED <<R!redis, texts, account, playing, R!history>>
  PROVE  RegInv'
<1>1. /\ limit' = limit /\ captcha' = captcha /\ texts' = texts /\ account' = account
      /\ playing' = playing /\ passed' = passed /\ rushed' = rushed /\ used' = used
      /\ doubled' = doubled
  BY DEF R!redis, R!history
<1> QED
  BY <1>1 DEF RegInv, BoundsOK, Typed, Given, Limits, AboutToSet, Codes, OnItsWay, OneMobile,
              Spent, Storing, Deleting, R!At

LEMMA StartKeeps ==
  ASSUME RegInv, NEW r \in Req, NEW w, NEW m,
         \/ w \in Wechat /\ m \in Mobile /\ R!AskCode(r, w, m)
         \/ w \in Wechat /\ R!Visit(r, w)
         \/ m \in Mobile /\ R!StartDelete(r, m)
         \/ w \in Wechat /\ m \in Mobile /\ \E c \in R!Code : R!Login(r, w, m, c)
  PROVE  RegInv'
<1>1. texts' = texts /\ limit' = limit /\ captcha' = captcha /\ account' = account
  BY DEF R!AskCode, R!Visit, R!StartDelete, R!Login, R!redis, R!Rows, R!Rest
<1>2. Accounts' /\ UNCHANGED R!history
  BY <1>1, AccountsStay DEF R!AskCode, R!Visit, R!StartDelete, R!Login, R!Calm
<1>3. 0 \in 0..MaxText /\ 0 <= texts /\ {"look", "save", "delete", "get"} \subseteq R!Label
  BY DEF RegInv, Typed, BoundsOK, R!Label
<1>4. ASSUME w \in Wechat, m \in Mobile, R!AskCode(r, w, m) PROVE RegInv'
  <2> DEFINE q == R!NewReq("look", w, m, 0)
  <2>1. q \in R!Request /\ q.pc = "look" /\ q.code <= texts
    <3>1. q \in R!Request
      BY <1>3, <1>4, Made DEF RegInv
    <3> QED
      BY <1>3, <3>1 DEF R!NewReq
  <2> HIDE DEF q
  <2>2. playing' = [playing EXCEPT ![r] = q]
    BY <1>4 DEF R!AskCode, R!Begin, R!Set, q
  <2> QED
    BY <1>1, <1>2, <2>1, <2>2, Quiet
<1>5. ASSUME w \in Wechat, R!Visit(r, w) PROVE RegInv'
  <2> DEFINE q == R!NewReq("save", w, cookie[w], 0)
  <2>1. cookie[w] \in Mobile \cup {None}
    BY <1>5 DEF R!Visit, RegInv, Typed
  <2>2. q \in R!Request /\ q.pc = "save" /\ q.code <= texts
    <3>1. q \in R!Request
      BY <1>3, <1>5, <2>1, Made DEF RegInv
    <3> QED
      BY <1>3, <2>1, <3>1 DEF R!NewReq
  <2> HIDE DEF q
  <2>3. playing' = [playing EXCEPT ![r] = q]
    BY <1>5 DEF R!Visit, R!Set, q
  <2> QED
    BY <1>1, <1>2, <2>2, <2>3, Quiet
<1>6. ASSUME m \in Mobile, R!StartDelete(r, m) PROVE RegInv'
  <2> DEFINE q == R!NewReq("delete", None, m, 0)
  <2>1. q \in R!Request /\ q.pc = "delete" /\ q.code <= texts
    <3>1. q \in R!Request
      BY <1>3, <1>6, Made DEF RegInv
    <3> QED
      BY <1>3, <3>1 DEF R!NewReq
  <2> HIDE DEF q
  <2>2. playing' = [playing EXCEPT ![r] = q]
    BY <1>6 DEF R!StartDelete, R!Begin, R!Set, q
  <2> QED
    BY <1>1, <1>2, <2>1, <2>2, Quiet
<1>7. ASSUME w \in Wechat, m \in Mobile, NEW c \in R!Code, R!Login(r, w, m, c) PROVE RegInv'
  <2> DEFINE q == R!NewReq("get", w, m, c)
  <2>0. c <= texts
    BY <1>7 DEF R!Login
  <2>1. c <= texts /\ c \in 0..MaxText
    BY <2>0 DEF R!Code, RegInv, BoundsOK
  <2>2. q \in R!Request /\ q.pc = "get" /\ q.code <= texts /\ q.m \in Mobile
    <3>1. q \in R!Request
      BY <1>3, <1>7, <2>1, Made DEF RegInv
    <3>2. q.pc = "get" /\ q.code = c /\ q.m = m
      BY DEF R!NewReq
    <3> QED
      BY <1>7, <2>1, <3>1, <3>2
  <2> HIDE DEF q
  <2>3. playing' = [playing EXCEPT ![r] = q]
    BY <1>7 DEF R!Login, R!Begin, R!Set, q
  <2> QED
    BY <1>1, <1>2, <2>2, <2>3, Quiet
<1> QED
  BY <1>4, <1>5, <1>6, <1>7
-----------------------------------------------------------------------------
LEMMA LookAtLimitKeeps ==
  ASSUME RegInv, NEW r \in Req, R!LookAtLimit(r)
  PROVE  RegInv'
<1> DEFINE m == playing[r].m
           q == [playing[r] EXCEPT !.pc = "limit"]
<1>0. /\ texts' = texts /\ limit' = limit /\ captcha' = captcha /\ account' = account
      /\ passed' = passed /\ used' = used /\ doubled' = doubled
  BY DEF R!LookAtLimit, R!redis, R!Rest, R!Rows
<1>1. CASE m \in limit
  <2>1. R!Finish(r) /\ UNCHANGED R!history
    BY <1>0, <1>1 DEF R!LookAtLimit, R!Limited, R!history
  <2> QED
    BY <1>0, <2>1, Finishes, AccountsStay
<1>2. CASE m \notin limit
  <2>1. /\ playing' = [playing EXCEPT ![r] = q]
        /\ rushed' = IF \E o \in Req : AboutToSet(o, m) THEN rushed \cup {m} ELSE rushed
    BY <1>2 DEF R!LookAtLimit, R!Limited, R!Goto, R!Set, AboutToSet
  <2>2. q \in R!Request /\ q.pc = "limit" /\ q.m = m /\ q.code = playing[r].code
    BY DEF RegInv, Typed, R!Request, R!Label
  <2> HIDE DEF q
  <2>3. \A o \in Req : playing'[o] = IF o = r THEN q ELSE playing[o]
    BY <2>1 DEF RegInv, Typed
  <2>4. Typed'
    BY <1>0, <2>2, <2>3, <2>1 DEF RegInv, Typed
  <2>5. Given'
    BY <1>0, <2>2, <2>3 DEF RegInv, Given, R!At
  <2>6. \A n \in Mobile : Limits(n)'
    <3> SUFFICES ASSUME NEW n \in Mobile, n \notin rushed' PROVE Limits(n)'
      BY DEF Limits
    <3>1. n \notin rushed /\ Limits(n)
      BY <2>1 DEF RegInv
    <3>2. \A o \in Req : AboutToSet(o, n)' => AboutToSet(o, n) \/ (o = r /\ n = m)
      BY <2>2, <2>3 DEF AboutToSet, R!At
    <3>3. n = m => \A o \in Req : ~AboutToSet(o, n)
      BY <2>1
    <3>4. n = m => passed[n] = 0
      BY <1>2, <3>1 DEF Limits, RegInv, Typed
    <3> QED
      BY <1>0, <3>1, <3>2, <3>3, <3>4 DEF Limits
  <2>7. \A c \in R!Code : \A o \in Req :
          /\ Storing(o, c)' => Storing(o, c)
          /\ Deleting(o, c)' => Deleting(o, c) /\ playing'[o] = playing[o]
    BY <2>2, <2>3 DEF Storing, Deleting, R!At
  <2>8. \A c \in R!Code : Codes(c)'
    BY <1>0, <2>7, CodesStay
  <2> QED
    BY <2>4, <2>5, <2>6, <2>8 DEF RegInv, BoundsOK
<1> QED
  BY <1>1, <1>2

LEMMA SetLimitKeeps ==
  ASSUME RegInv, NEW r \in Req, R!SetLimit(r)
  PROVE  RegInv'
<1> DEFINE m == playing[r].m
           q == [playing[r] EXCEPT !.pc = "text"]
<1>1. /\ texts' = texts /\ captcha' = captcha /\ account' = account
      /\ rushed' = rushed /\ used' = used /\ doubled' = doubled
      /\ limit' = limit \cup {m} /\ passed' = [passed EXCEPT ![m] = @ + 1]
      /\ playing' = [playing EXCEPT ![r] = q] /\ AboutToSet(r, m)
  BY DEF R!SetLimit, R!redis, R!Rest, R!Rows, R!Goto, R!Set, AboutToSet
<1>2. q \in R!Request /\ q.pc = "text" /\ q.code = playing[r].code
  BY DEF RegInv, Typed, R!Request, R!Label
<1> HIDE DEF q, m
<1>3. \A o \in Req : playing'[o] = IF o = r THEN q ELSE playing[o]
  BY <1>1 DEF RegInv, Typed
<1>4. /\ passed' \in [Mobile -> Nat]
      /\ \A n \in Mobile : passed'[n] = IF n = m THEN passed[n] + 1 ELSE passed[n]
  <2>1. passed \in [Mobile -> Nat]
    BY DEF RegInv, Typed
  <2>2. passed' = [n \in Mobile |-> IF n = m THEN passed[n] + 1 ELSE passed[n]]
    BY <1>1, <2>1
  <2> QED
    BY <2>1, <2>2
<1>5. Typed'
  BY <1>1, <1>2, <1>3, <1>4 DEF RegInv, Typed
<1>6. Given'
  BY <1>1, <1>2, <1>3 DEF RegInv, Given, R!At
<1>7. \A n \in Mobile : Limits(n)'
  <2> SUFFICES ASSUME NEW n \in Mobile, n \notin rushed' PROVE Limits(n)'
    BY DEF Limits
  <2>1. n \notin rushed /\ Limits(n)
    BY <1>1 DEF RegInv
  <2>2. \A o \in Req : AboutToSet(o, n)' => AboutToSet(o, n) /\ o # r
    BY <1>2, <1>3 DEF AboutToSet, R!At
  <2>3. CASE n = m
    <3>1. passed[n] = 0 /\ \A o \in Req : AboutToSet(o, n) => o = r
      BY <1>1, <2>1, <2>3 DEF Limits
    <3> QED
      BY <1>1, <1>4, <2>2, <2>3, <3>1 DEF Limits
  <2>4. CASE n # m
    BY <1>1, <1>4, <2>1, <2>2, <2>4 DEF Limits
  <2> QED
    BY <2>3, <2>4
<1>8. \A c \in R!Code : \A o \in Req :
        /\ Storing(o, c)' => Storing(o, c)
        /\ Deleting(o, c)' => Deleting(o, c) /\ playing'[o] = playing[o]
  BY <1>2, <1>3 DEF Storing, Deleting, R!At
<1>9. \A c \in R!Code : Codes(c)'
  BY <1>1, <1>8, CodesStay
<1> QED
  BY <1>5, <1>6, <1>7, <1>9 DEF RegInv, BoundsOK

LEMMA LimitExpiresKeeps ==
  ASSUME RegInv, NEW m \in Mobile, R!LimitExpires(m)
  PROVE  RegInv'
<1>1. /\ texts' = texts /\ captcha' = captcha /\ account' = account /\ playing' = playing
      /\ rushed' = rushed /\ used' = used /\ doubled' = doubled
      /\ limit' = limit \ {m} /\ passed' = [passed EXCEPT ![m] = 0]
  BY DEF R!LimitExpires, R!Rest, R!Rows
<1>2. /\ passed' \in [Mobile -> Nat]
      /\ \A n \in Mobile : passed'[n] = IF n = m THEN 0 ELSE passed[n]
  BY <1>1 DEF RegInv, Typed
<1>3. \A n \in Mobile : Limits(n)'
  BY <1>1, <1>2 DEF RegInv, Limits, AboutToSet, R!At
<1>4. Typed' /\ Given'
  BY <1>1, <1>2 DEF RegInv, Typed, Given, R!At
<1>5. \A c \in R!Code : Codes(c)'
  BY <1>1 DEF RegInv, Codes, OnItsWay, OneMobile, Spent, Storing, Deleting, R!At
<1> QED
  BY <1>3, <1>4, <1>5 DEF RegInv, BoundsOK
-----------------------------------------------------------------------------
LEMMA SendTextKeeps ==
  ASSUME RegInv, NEW r \in Req, NEW answered \in BOOLEAN, R!SendText(r, answered)
  PROVE  RegInv'
<1> DEFINE c == texts + 1
           q == [playing[r] EXCEPT !.pc = "store", !.code = c]
<1>1. /\ texts' = c /\ limit' = limit /\ captcha' = captcha /\ account' = account
      /\ passed' = passed /\ rushed' = rushed /\ used' = used /\ doubled' = doubled
      /\ R!At(r, "text") /\ texts < MaxText
  BY DEF R!SendText, R!redis, R!Rows, R!Calm, R!history
<1>2. \/ playing' = [playing EXCEPT ![r] = q]
      \/ playing' = [playing EXCEPT ![r] = R!Idle]
  BY DEF R!SendText, R!Set, R!Finish
<1>3. texts \in 0..MaxText /\ c \in 0..MaxText /\ c \in R!Code
  BY <1>1 DEF RegInv, Typed, R!Code, BoundsOK
<1>4. q \in R!Request /\ q.pc = "store" /\ q.code = c
  <2> HIDE DEF c
  <2> QED
    BY <1>3 DEF RegInv, Typed, R!Request, R!Label
<1>5. R!Idle \in R!Request /\ R!Idle.pc = "idle" /\ R!Idle.code = 0
  BY IdleTyped DEF RegInv
<1> HIDE DEF q
<1>6. PICK n \in R!Request :
          /\ playing' = [playing EXCEPT ![r] = n]
          /\ (n.pc = "store" /\ n.code = c) \/ (n.pc = "idle" /\ n.code = 0)
  BY <1>2, <1>4, <1>5
<1>7. \A o \in Req : playing'[o] = IF o = r THEN n ELSE playing[o]
  BY <1>6 DEF RegInv, Typed
<1>8. Typed'
  <2>1. playing' \in [Req -> R!Request]
    BY <1>6 DEF RegInv, Typed
  <2> QED
    BY <1>1, <1>3, <2>1 DEF RegInv, Typed
<1>9. Given'
  <2>1. \A o \in Req : R!At(o, "get")' => playing'[o].m \in Mobile
    BY <1>6, <1>7 DEF RegInv, Given, R!At
  <2>2. texts \in Nat /\ texts <= texts'
    BY <1>1, <1>3
  <2>3. \A m \in Mobile : captcha[m] <= texts /\ captcha[m] \in Nat
    BY DEF RegInv, Given, Typed
  <2>4. \A m \in Mobile : captcha'[m] <= texts'
    BY <1>1, <2>2, <2>3
  <2>5. \A o \in Req : playing'[o].code <= texts'
    <3>1. \A o \in Req : playing[o].code <= texts /\ playing[o].code \in 0..MaxText
      BY DEF RegInv, Given, Typed, R!Request
    <3> QED
      BY <1>1, <1>6, <1>7, <2>2, <3>1
  <2>6. \A d \in R!Code : d > texts' => used'[d] = 0
    BY <1>1, <1>3 DEF RegInv, Given, R!Code, BoundsOK
  <2> QED
    BY <2>1, <2>4, <2>5, <2>6 DEF Given
<1>10. \A m \in Mobile : Limits(m)'
  BY <1>1, <1>6, <1>7 DEF RegInv, Limits, AboutToSet, R!At
<1>11. ASSUME NEW d \in R!Code PROVE Codes(d)'
  <2>1. \A o \in Req : Deleting(o, d)' => Deleting(o, d) /\ playing'[o] = playing[o]
    BY <1>6, <1>7 DEF Deleting, R!At
  <2>2. CASE d = c
    <3>1. /\ used[d] = 0 /\ \A m \in Mobile : captcha[m] # d
          /\ \A o \in Req : playing[o].code # d
      BY <1>3, <2>2 DEF RegInv, Given, Typed, R!Request
    <3>2. \A o \in Req : (Storing(o, d)' => o = r) /\ ~Deleting(o, d)'
      BY <1>6, <1>7, <2>1, <3>1 DEF Storing, Deleting, R!At
    <3> QED
      BY <1>1, <3>1, <3>2 DEF Codes, OnItsWay, OneMobile, Spent
  <2>3. CASE d # c
    <3>1. \A o \in Req : Storing(o, d)' => Storing(o, d)
      BY <1>6, <1>7, <2>3 DEF Storing, R!At
    <3> QED
      BY <1>1, <2>1, <3>1 DEF RegInv, Codes, OnItsWay, OneMobile, Spent
  <2> QED
    BY <2>2, <2>3
<1> QED
  BY <1>8, <1>9, <1>10, <1>11 DEF RegInv, BoundsOK

LEMMA StoreCodeKeeps ==
  ASSUME RegInv, NEW r \in Req, R!StoreCode(r)
  PROVE  RegInv'
<1> DEFINE c == playing[r].code
           m == playing[r].m
<1>1. /\ texts' = texts /\ limit' = limit /\ account' = account
      /\ passed' = passed /\ rushed' = rushed /\ used' = used /\ doubled' = doubled
      /\ captcha' = [captcha EXCEPT ![m] = c] /\ playing' = [playing EXCEPT ![r] = R!Idle]
      /\ Storing(r, c)
  BY DEF R!StoreCode, R!Rest, R!Rows, R!Calm, R!history, R!Finish, R!Set, Storing
<1>2. R!Idle \in R!Request /\ R!Idle.pc = "idle" /\ R!Idle.code = 0
  BY IdleTyped DEF RegInv
<1>3. c \in Nat /\ c <= texts /\ 0 <= texts
  BY DEF RegInv, Typed, Given, R!Request, BoundsOK
<1> HIDE DEF c
<1>4. \A o \in Req : playing'[o] = IF o = r THEN R!Idle ELSE playing[o]
  BY <1>1 DEF RegInv, Typed
<1>5. /\ captcha' \in [Mobile -> Nat]
      /\ \A n \in Mobile : captcha'[n] = IF n = m THEN c ELSE captcha[n]
  BY <1>1, <1>3 DEF RegInv, Typed
<1>6. Typed'
  <2>1. playing' \in [Req -> R!Request]
    BY <1>1, <1>2 DEF RegInv, Typed
  <2> QED
    BY <1>1, <1>5, <2>1 DEF RegInv, Typed
<1>7. Given'
  BY <1>1, <1>2, <1>3, <1>4, <1>5 DEF RegInv, Given, R!At
<1>8. \A n \in Mobile : Limits(n)'
  BY <1>1, <1>2, <1>4 DEF RegInv, Limits, AboutToSet, R!At
<1>9. ASSUME NEW d \in R!Code PROVE Codes(d)'
  <2>1. \A o \in Req : /\ Storing(o, d)' => Storing(o, d) /\ o # r
                       /\ Deleting(o, d)' => Deleting(o, d) /\ playing'[o] = playing[o]
    BY <1>2, <1>4 DEF Storing, Deleting, R!At
  <2>2. Codes(d)
    BY DEF RegInv
  <2>3. CASE d = c
    <3>1. /\ used[d] = 0 /\ \A n \in Mobile : captcha[n] # d
          /\ \A o \in Req : (Storing(o, d) => o = r) /\ ~Deleting(o, d)
      BY <1>1, <2>2, <2>3 DEF Codes, OnItsWay
    <3> QED
      BY <1>1, <1>5, <2>1, <2>3, <3>1 DEF Codes, OnItsWay, OneMobile, Spent
  <2>4. CASE d # c
    <3>1. \A n \in Mobile : captcha'[n] = d => captcha[n] = d
      BY <1>5, <2>4
    <3> QED
      BY <1>1, <2>1, <2>2, <3>1 DEF Codes, OnItsWay, OneMobile, Spent
  <2> QED
    BY <2>3, <2>4
<1> QED
  BY <1>6, <1>7, <1>8, <1>9 DEF RegInv, BoundsOK

LEMMA GetCodeKeeps ==
  ASSUME RegInv, NEW r \in Req, R!GetCode(r)
  PROVE  RegInv'
<1> DEFINE c == playing[r].code
           m == playing[r].m
           q == [playing[r] EXCEPT !.pc = "del"]
<1>1. /\ texts' = texts /\ limit' = limit /\ captcha' = captcha /\ account' = account
      /\ passed' = passed /\ rushed' = rushed /\ used' = used
  BY DEF R!GetCode, R!redis, R!Rest, R!Rows
<1>2. CASE captcha[m] # c
  <2>1. R!Finish(r) /\ UNCHANGED R!history
    BY <1>1, <1>2 DEF R!GetCode, R!history
  <2> QED
    BY <1>1, <2>1, Finishes, AccountsStay
<1>3. CASE captcha[m] = c
  <2>1. /\ playing' = [playing EXCEPT ![r] = q] /\ R!At(r, "get")
        /\ doubled' = IF \E o \in Req : Deleting(o, c) THEN doubled \cup {c} ELSE doubled
    BY <1>3 DEF R!GetCode, R!Goto, R!Set, Deleting
  <2>2. q \in R!Request /\ q.pc = "del" /\ q.code = c /\ q.m = m
    BY DEF RegInv, Typed, R!Request, R!Label
  <2> HIDE DEF q
  <2>3. \A o \in Req : playing'[o] = IF o = r THEN q ELSE playing[o]
    BY <2>1 DEF RegInv, Typed
  <2>4. Typed'
    BY <1>1, <2>1, <2>2 DEF RegInv, Typed
  <2>5. Given'
    BY <1>1, <2>2, <2>3 DEF RegInv, Given, R!At
  <2>6. \A n \in Mobile : Limits(n)'
    BY <1>1, <2>2, <2>3 DEF RegInv, Limits, AboutToSet, R!At
  <2>7. ASSUME NEW d \in R!Code PROVE Codes(d)'
    <3>1. \A o \in Req : /\ Storing(o, d)' => Storing(o, d)
                         /\ Deleting(o, d)' => \/ Deleting(o, d) /\ playing'[o] = playing[o]
                                               \/ o = r /\ d = c
      BY <2>2, <2>3 DEF Storing, Deleting, R!At
    <3>2. Codes(d)
      BY DEF RegInv
    <3>3. CASE d # c
      BY <1>1, <2>1, <3>1, <3>2, <3>3 DEF Codes, OnItsWay, OneMobile, Spent
    <3>4. CASE d = c
      <4>1. m \in Mobile /\ captcha[m] = d
        <5>1. m \in Mobile
          BY <2>1 DEF RegInv, Given
        <5> QED
          BY <1>3, <3>4, <5>1
      <4>2. OnItsWay(d)'
        BY <1>1, <3>1, <3>2, <4>1 DEF Codes, OnItsWay
      <4>3. OneMobile(d)'
        BY <1>1, <2>2, <2>3, <3>1, <3>2, <4>1 DEF Codes, OneMobile
      <4>4. Spent(d)'
        <5> SUFFICES ASSUME d \notin doubled' PROVE Spent(d)'
          BY DEF Spent
        <5>1. d \notin doubled /\ \A o \in Req : ~Deleting(o, d)
          BY <2>1, <3>4
        <5>2. used[d] # 1 /\ used[d] <= 1
          BY <3>2, <4>1, <5>1 DEF Codes, Spent
        <5> QED
          BY <1>1, <3>1, <5>1, <5>2 DEF Spent
      <4> QED
        BY <4>2, <4>3, <4>4 DEF Codes
    <3> QED
      BY <3>3, <3>4
  <2> QED
    BY <2>4, <2>5, <2>6, <2>7 DEF RegInv, BoundsOK
<1> QED
  BY <1>2, <1>3

LEMMA DelCodeKeeps ==
  ASSUME RegInv, NEW r \in Req, R!DelCode(r)
  PROVE  RegInv'
<1> DEFINE c == playing[r].code
           m == playing[r].m
           q == [playing[r] EXCEPT !.pc = "users"]
<1>1. /\ texts' = texts /\ limit' = limit /\ account' = account
      /\ passed' = passed /\ rushed' = rushed /\ doubled' = doubled
      /\ captcha' = [captcha EXCEPT ![m] = 0] /\ used' = [used EXCEPT ![c] = @ + 1]
      /\ playing' = [playing EXCEPT ![r] = q] /\ Deleting(r, c)
  BY DEF R!DelCode, R!Forget, R!Rest, R!Rows, R!Goto, R!Set, Deleting
<1>2. q \in R!Request /\ q.pc = "users" /\ q.code = c
  BY DEF RegInv, Typed, R!Request, R!Label
<1> HIDE DEF q
<1>3. \A o \in Req : playing'[o] = IF o = r THEN q ELSE playing[o]
  BY <1>1 DEF RegInv, Typed
<1>4. /\ captcha' \in [Mobile -> Nat]
      /\ \A n \in Mobile : captcha'[n] = IF n = m THEN 0 ELSE captcha[n]
  BY <1>1 DEF RegInv, Typed
<1>5. /\ used' \in [R!Code -> Nat]
      /\ \A d \in R!Code : used'[d] = IF d = c THEN used[d] + 1 ELSE used[d]
  <2>1. used \in [R!Code -> Nat]
    BY DEF RegInv, Typed
  <2>2. used' = [d \in R!Code |-> IF d = c THEN used[d] + 1 ELSE used[d]]
    BY <1>1, <2>1
  <2> HIDE DEF c
  <2> QED
    BY <2>1, <2>2
<1>6. Typed'
  BY <1>1, <1>2, <1>4, <1>5 DEF RegInv, Typed
<1>7. Given'
  <2>1. c <= texts /\ 0 <= texts
    BY DEF RegInv, Given, R!At, Typed, BoundsOK
  <2>2. \A o \in Req : R!At(o, "get")' => playing'[o].m \in Mobile
    BY <1>2, <1>3 DEF RegInv, Given, R!At
  <2>3. \A n \in Mobile : captcha'[n] <= texts'
    BY <1>1, <1>4, <2>1 DEF RegInv, Given
  <2>4. \A o \in Req : playing'[o].code <= texts'
    BY <1>1, <1>2, <1>3, <2>1 DEF RegInv, Given
  <2>5. \A d \in R!Code : d > texts' => used'[d] = 0
    <3>1. ASSUME NEW d \in R!Code, d > texts PROVE used'[d] = 0
      <4>1. d # c
        BY <2>1, <3>1 DEF R!Code, RegInv, BoundsOK, Typed, R!Request
      <4> QED
        BY <1>5, <3>1, <4>1 DEF RegInv, Given
    <3> QED
      BY <1>1, <3>1
  <2> QED
    BY <2>2, <2>3, <2>4, <2>5 DEF Given
<1>8. \A n \in Mobile : Limits(n)'
  BY <1>1, <1>2, <1>3 DEF RegInv, Limits, AboutToSet, R!At
<1>9. ASSUME NEW d \in R!Code PROVE Codes(d)'
  <2>1. \A o \in Req : /\ Storing(o, d)' => Storing(o, d)
                       /\ Deleting(o, d)' => Deleting(o, d) /\ o # r /\ playing'[o] = playing[o]
    BY <1>2, <1>3 DEF Storing, Deleting, R!At
  <2>2. Codes(d)
    BY DEF RegInv
  <2>3. \A n \in Mobile : captcha'[n] = d => captcha[n] = d /\ n # m
    <3>1. d # 0
      BY DEF R!Code, RegInv, BoundsOK
    <3> QED
      BY <1>4, <3>1
  <2>4. CASE d # c
    <3>1. used'[d] = used[d]
      BY <1>5, <2>4
    <3> QED
      BY <1>1, <2>1, <2>2, <2>3, <3>1 DEF Codes, OnItsWay, OneMobile, Spent
  <2>5. CASE d = c
    <3>1. OnItsWay(d)' /\ OneMobile(d)'
      BY <1>1, <2>1, <2>2, <2>3, <2>5 DEF Codes, OnItsWay, OneMobile
    <3>2. Spent(d)'
      <4> SUFFICES ASSUME d \notin doubled' PROVE Spent(d)'
        BY DEF Spent
      <4>1. /\ \A o \in Req : Deleting(o, d) => o = r
            /\ used[d] <= 1 /\ used[d] # 1
        BY <1>1, <2>2, <2>5 DEF Codes, Spent
      <4>2. used[d] \in Nat
        BY DEF RegInv, Typed
      <4>3. used'[d] = 1
        BY <1>5, <2>5, <4>1, <4>2
      <4>4. \A n \in Mobile : captcha'[n] # d
        BY <1>1, <2>2, <2>3, <2>5 DEF Codes, OneMobile
      <4> QED
        BY <2>1, <4>1, <4>3, <4>4 DEF Spent
    <3> QED
      BY <3>1, <3>2 DEF Codes
  <2> QED
    BY <2>4, <2>5
<1> QED
  BY <1>6, <1>7, <1>8, <1>9 DEF RegInv, BoundsOK

LEMMA CodeExpiresKeeps ==
  ASSUME RegInv, NEW m \in Mobile, R!CodeExpires(m)
  PROVE  RegInv'
<1>1. /\ texts' = texts /\ limit' = limit /\ account' = account /\ playing' = playing
      /\ passed' = passed /\ rushed' = rushed /\ used' = used /\ doubled' = doubled
      /\ captcha' = [captcha EXCEPT ![m] = 0]
  BY DEF R!CodeExpires, R!Rest, R!Rows, R!Calm, R!history
<1>2. /\ captcha' \in [Mobile -> Nat]
      /\ \A n \in Mobile : captcha'[n] = IF n = m THEN 0 ELSE captcha[n]
  BY <1>1 DEF RegInv, Typed
<1>3. Typed' /\ Given'
  BY <1>1, <1>2 DEF RegInv, Typed, Given, R!At, BoundsOK
<1>4. \A n \in Mobile : Limits(n)'
  BY <1>1 DEF RegInv, Limits, AboutToSet, R!At
<1>5. ASSUME NEW c \in R!Code PROVE Codes(c)'
  <2>1. c # 0
    BY DEF R!Code, RegInv, BoundsOK
  <2>2. \A n \in Mobile : captcha'[n] = c => captcha[n] = c
    BY <1>2, <2>1
  <2> QED
    BY <1>1, <2>2 DEF RegInv, Codes, OnItsWay, OneMobile, Spent, Storing, Deleting, R!At
<1> QED
  BY <1>3, <1>4, <1>5 DEF RegInv, BoundsOK
-----------------------------------------------------------------------------
(* Steps that change neither texts, limits nor codes, and what they do to   *)
(* accounts                                                                 *)
LEMMA RowWritten ==
  ASSUME RegInv, NEW m,
         \/ account' = [account EXCEPT ![m].deleted = TRUE]
         \/ account' = [account EXCEPT ![m].deleted = FALSE]
         \/ account' = [account EXCEPT ![m].profile = "full"]
  PROVE  Accounts'
<1>1. \A x \in PlayerRow : /\ [x EXCEPT !.deleted = TRUE] \in PlayerRow
                     /\ [x EXCEPT !.deleted = FALSE] \in PlayerRow
                     /\ [x EXCEPT !.profile = "full"] \in PlayerRow
  BY DEF PlayerRow, R!Profile
<1>2. DOMAIN account \subseteq Mobile \cup {None} /\ account \in [DOMAIN account -> PlayerRow]
  BY DEF RegInv, Typed
<1>3. CASE account' = [account EXCEPT ![m].deleted = TRUE]
  BY <1>1, <1>2, <1>3 DEF Accounts
<1>4. CASE account' = [account EXCEPT ![m].deleted = FALSE]
  BY <1>1, <1>2, <1>4 DEF Accounts
<1>5. CASE account' = [account EXCEPT ![m].profile = "full"]
  BY <1>1, <1>2, <1>5 DEF Accounts
<1> QED
  BY <1>3, <1>4, <1>5

LEMMA FindUserKeeps ==
  ASSUME RegInv, NEW r \in Req, NEW p \in R!Profile, R!FindUser(r, p)
  PROVE  RegInv'
<1> DEFINE m == playing[r].m
           found == [playing[r] EXCEPT !.pc = "undelete", !.gone = account[m].deleted]
           new == [playing[r] EXCEPT !.pc = "insert", !.profile = p]
<1>1. /\ texts' = texts /\ limit' = limit /\ captcha' = captcha /\ account' = account
      /\ UNCHANGED R!history
  BY DEF R!FindUser, R!redis, R!Rest, R!Rows, R!Calm
<1>2. playing[r] \in R!Request /\ playing[r].code <= texts
  BY DEF RegInv, Typed, Given
<1>3. \/ R!Finish(r)
      \/ m \in DOMAIN account /\ playing' = [playing EXCEPT ![r] = found]
      \/ playing' = [playing EXCEPT ![r] = new]
  BY DEF R!FindUser, R!Set
<1>4. CASE R!Finish(r)
  BY <1>1, <1>4, Finishes, AccountsStay
<1>5. CASE m \in DOMAIN account /\ playing' = [playing EXCEPT ![r] = found]
  <2>1. account[m].deleted \in BOOLEAN
    BY <1>5 DEF RegInv, Typed, PlayerRow
  <2>2. found \in R!Request /\ found.pc = "undelete" /\ found.code = playing[r].code
    BY <1>2, <2>1 DEF R!Request, R!Label
  <2> HIDE DEF found
  <2> QED
    BY <1>1, <1>2, <1>5, <2>2, Quiet, AccountsStay
<1>6. CASE playing' = [playing EXCEPT ![r] = new]
  <2>1. new \in R!Request /\ new.pc = "insert" /\ new.code = playing[r].code
    BY <1>2 DEF R!Request, R!Label
  <2> HIDE DEF new
  <2> QED
    BY <1>1, <1>2, <1>6, <2>1, Quiet, AccountsStay
<1> QED
  BY <1>3, <1>4, <1>5, <1>6

LEMMA InsertUserKeeps ==
  ASSUME RegInv, NEW r \in Req, R!InsertUser(r)
  PROVE  RegInv'
<1> DEFINE m == playing[r].m
           row == [openid |-> playing[r].w, profile |-> playing[r].profile, deleted |-> FALSE]
<1>1. /\ texts' = texts /\ limit' = limit /\ captcha' = captcha
      /\ R!Finish(r) /\ UNCHANGED R!history
  BY DEF R!InsertUser, R!redis, R!Rest, R!Calm
<1>2. playing[r] \in R!Request
  BY DEF RegInv, Typed
<1>3. row \in PlayerRow /\ m \in Mobile \cup {None}
  BY <1>2 DEF R!Request, PlayerRow
<1>4. \/ account' = account
      \/ account' = [n \in DOMAIN account \cup {m} |-> IF n = m THEN row ELSE account[n]]
  BY DEF R!InsertUser, R!Rows
<1> HIDE DEF row, m
<1>5. Accounts'
  BY <1>3, <1>4 DEF Accounts, RegInv, Typed
<1> QED
  BY <1>1, <1>5, Finishes

LEMMA StepKeeps ==
  ASSUME RegInv, NEW r \in Req, R!Step(r)
  PROVE  RegInv'
<1>1. CASE R!TextFails(r)
  BY <1>1, Finishes, AccountsStay DEF R!TextFails, R!redis, R!Rest, R!Rows, R!Calm
<1>2. CASE R!Undelete(r)
  BY <1>2, Finishes, AccountsStay, RowWritten DEF R!Undelete, R!redis, R!Rest, R!Calm
<1>3. CASE R!SaveProfile(r)
  BY <1>3, Finishes, RowWritten DEF R!SaveProfile, R!redis, R!Rest, R!Calm
<1>4. CASE R!Delete(r)
  BY <1>4, Finishes, RowWritten DEF R!Delete, R!redis, R!Rest, R!Calm
<1> QED
  BY <1>1, <1>2, <1>3, <1>4, LookAtLimitKeeps, SetLimitKeeps, SendTextKeeps, StoreCodeKeeps,
     GetCodeKeeps, DelCodeKeeps, FindUserKeeps, InsertUserKeeps DEF R!Step, R!Texting, R!LoggingIn

LEMMA RegNext == RegInv /\ [R!Next]_(R!vars) => RegInv'
<1> SUFFICES ASSUME RegInv, [R!Next]_(R!vars) PROVE RegInv'
  OBVIOUS
<1>1. ASSUME NEW w \in Wechat, R!Authorize(w) PROVE RegInv'
  BY <1>1, ReqStays DEF R!Authorize, R!Calm
<1>2. ASSUME NEW w \in Wechat, NEW m \in Mobile, R!Menu(w, m) PROVE RegInv'
  BY <1>2, ReqStays DEF R!Menu, R!Calm
<1>3. ASSUME NEW r \in Req, NEW w \in Wechat, NEW m \in Mobile,
             R!AskCode(r, w, m) \/ \E c \in R!Code : R!Login(r, w, m, c)
      PROVE  RegInv'
  BY <1>3, StartKeeps
<1>4. ASSUME NEW r \in Req, R!Step(r) PROVE RegInv'
  BY <1>4, StepKeeps
<1>5. ASSUME NEW r \in Req, NEW w \in Wechat, R!Visit(r, w) PROVE RegInv'
  BY <1>5, StartKeeps
<1>6. ASSUME NEW r \in Req, NEW m \in Mobile, R!StartDelete(r, m) PROVE RegInv'
  BY <1>6, StartKeeps
<1>7. ASSUME NEW m \in Mobile, R!LimitExpires(m) \/ R!CodeExpires(m) PROVE RegInv'
  BY <1>7, LimitExpiresKeeps, CodeExpiresKeeps
<1>8. CASE R!TokenComesAndGoes
  BY <1>8, ReqStays DEF R!TokenComesAndGoes, R!Rows, R!Calm
<1>9. CASE UNCHANGED R!vars
  BY <1>9, ReqStays DEF R!vars
<1> QED
  BY <1>1, <1>2, <1>3, <1>4, <1>5, <1>6, <1>7, <1>8, <1>9 DEF R!Next

(* A second request for a mobile gets past the limit only beside one that   *)
(* looked it up at once: for all users, mobiles and requests.               *)
THEOREM OneTextAMinute == OfficeSpec => []OneTextPerLimit
<1>1. OfficeInit => RegInv
  BY OfficeAssumption, RegInit DEF OfficeInit, BoundsOK
<1>2. RegInv /\ [OfficeNext]_allVars => RegInv'
  BY StepsApart, RegNext
<1>3. RegInv => OneTextPerLimit
  BY DEF OneTextPerLimit, R!OneTextPerLimit, RegInv, Limits
<1> QED
  BY <1>1, <1>2, <1>3, PTL DEF OfficeSpec

(* A second login gets in by a code only beside one that had it in hand at  *)
(* once: for all users, mobiles, codes and requests.                        *)
THEOREM CodeUsedOnce == OfficeSpec => []CodeLetsInOnce
<1>1. OfficeInit => RegInv
  BY OfficeAssumption, RegInit DEF OfficeInit, BoundsOK
<1>2. RegInv /\ [OfficeNext]_allVars => RegInv'
  BY StepsApart, RegNext
<1>3. RegInv => CodeLetsInOnce
  BY DEF CodeLetsInOnce, R!CodeLetsInOnce, RegInv, Codes, Spent
<1> QED
  BY <1>1, <1>2, <1>3, PTL DEF OfficeSpec
-----------------------------------------------------------------------------
(* Staff *)

RowsOK ==
    /\ DOMAIN admins \subseteq Admin
    /\ admins \in [DOMAIN admins -> S!AdminRow]
    /\ DOMAIN roles \subseteq RoleId
    /\ ruling \in [Req -> S!Request]
    /\ \A r \in Req : ruling[r].kind = "new" => ruling[r].who \in Admin

(* Nobody is about to disable or delete himself by an id that is a number *)
NotSelf == \A r \in Req : ruling[r].kind \in {"state", "delete"} =>
                              ruling[r].by # ruling[r].who \/ ruling[r].text

(* Those a deletion of a role saw with the role have it, or none, or are    *)
(* gone                                                                     *)
LedOnly == \A r \in Req : ruling[r].kind = "unrole" =>
               \A b \in ruling[r].led \cap DOMAIN admins : S!RoleOf(b) \in {ruling[r].role, None}

(* The superadmin in use who is left also is one whose role there is *)
StaffInv == S!StaffOK /\ RowsOK /\ NotSelf /\ LedOnly /\ S!SuperRemains

LEMMA StaffInit == S!StaffOK /\ S!Init => StaffInv
<1> SUFFICES ASSUME S!StaffOK, S!Init PROVE StaffInv
  OBVIOUS
<1>1. S!Idle \in S!Request
  BY DEF S!StaffOK, S!Idle, S!Request
<1>2. RowsOK
  <2>1. \A a \in DOMAIN admins : admins[a] \in S!AdminRow
    BY DEF S!Init, S!AdminRow, S!StaffOK
  <2>2. admins = [a \in DOMAIN admins |-> admins[a]] /\ DOMAIN admins \subseteq Admin
    BY DEF S!Init, S!StaffOK
  <2>3. DOMAIN roles \subseteq RoleId
    BY DEF S!Init, S!StaffOK
  <2>4. ruling \in [Req -> S!Request] /\ \A r \in Req : ruling[r].kind # "new"
    BY <1>1 DEF S!Init, S!Idle
  <2> QED
    BY <2>1, <2>2, <2>3, <2>4 DEF RowsOK
<1>3. NotSelf /\ LedOnly
  BY DEF S!Init, NotSelf, LedOnly, S!Idle
<1>4. S!Leads(Founder) /\ admins[Founder].using /\ Founder \in DOMAIN admins
  BY DEF S!Init, S!Leads, S!RoleOf
<1> QED
  BY <1>2, <1>3, <1>4 DEF StaffInv, S!SuperRemains
-----------------------------------------------------------------------------
LEMMA StaffBegins ==
  ASSUME StaffInv, NEW r \in Req, NEW q \in S!Request, S!Begin(r, q),
         q.kind \in {"state", "delete"} => q.by # q.who \/ q.text,
         q.kind = "new" => q.who \in Admin,
         q.kind = "unrole" => \A b \in q.led \cap DOMAIN admins : S!RoleOf(b) = q.role
  PROVE  StaffInv'
<1>1. /\ admins' = admins /\ roles' = roles /\ ruling' = [ruling EXCEPT ![r] = q]
      /\ overtaken' = overtaken /\ unseated' = unseated /\ evaded' = evaded
  BY DEF S!Begin, S!rows, S!history
<1>2. RowsOK'
  BY <1>1 DEF StaffInv, RowsOK
<1>3. NotSelf'
  BY <1>1 DEF StaffInv, NotSelf, RowsOK
<1>4. LedOnly'
  BY <1>1 DEF StaffInv, LedOnly, RowsOK, S!RoleOf
<1>5. S!SuperRemains'
  BY <1>1 DEF StaffInv, S!SuperRemains, S!Leads, S!RoleOf
<1> QED
  BY <1>2, <1>3, <1>4, <1>5 DEF StaffInv

LEMMA StaffAsks ==
  ASSUME StaffInv, NEW r \in Req, S!Ask(r)
  PROVE  StaffInv'
<1> PICK a \in Admin :
        \/ \E b \in Admin :
              \/ \E text \in BOOLEAN : \/ S!AskDelete(r, a, b, text)
                                     \/ \E using \in BOOLEAN : S!AskState(r, a, b, using, text)
              \/ \E id \in RoleId : S!AskNew(r, a, b, id)
        \/ \E name \in RoleName : S!AskRole(r, a, name) \/ \E id \in RoleId : S!AskRename(r, a, id, name)
        \/ \E id \in RoleId : S!AskUnrole(r, a, id)
  BY DEF S!Ask
<1>0. SuperAdmin \in RoleName
  BY DEF StaffInv, S!StaffOK
<1>1. ASSUME NEW b \in Admin, NEW text \in BOOLEAN, S!AskDelete(r, a, b, text) PROVE StaffInv'
  <2> DEFINE q == [S!Idle EXCEPT !.kind = "delete", !.by = a, !.who = b, !.text = text]
  <2>1. q \in S!Request /\ q.kind = "delete" /\ q.by = a /\ q.who = b /\ q.text = text
    BY <1>0 DEF S!Idle, S!Request, S!Kind
  <2>2. S!Begin(r, q) /\ (a # b \/ text)
    BY <1>1 DEF S!AskDelete, S!NotOneself
  <2> HIDE DEF q
  <2> QED
    BY <2>1, <2>2, StaffBegins
<1>2. ASSUME NEW b \in Admin, NEW using \in BOOLEAN, NEW text \in BOOLEAN,
             S!AskState(r, a, b, using, text)
      PROVE  StaffInv'
  <2> DEFINE q == [S!Idle EXCEPT !.kind = "state", !.by = a, !.who = b, !.using = using,
                               !.was = admins[b].using, !.text = text]
  <2>1. S!Begin(r, q) /\ (a # b \/ text) /\ b \in DOMAIN admins
    BY <1>2 DEF S!AskState, S!NotOneself
  <2>2. admins[b].using \in BOOLEAN
    BY <2>1 DEF StaffInv, RowsOK, S!AdminRow
  <2>3. q \in S!Request /\ q.kind = "state" /\ q.by = a /\ q.who = b /\ q.text = text
    BY <1>0, <2>2 DEF S!Idle, S!Request, S!Kind
  <2> HIDE DEF q
  <2> QED
    BY <2>1, <2>3, StaffBegins
<1>3. ASSUME NEW b \in Admin, NEW id \in RoleId, S!AskNew(r, a, b, id) PROVE StaffInv'
  <2> DEFINE q == [S!Idle EXCEPT !.kind = "new", !.by = a, !.who = b, !.role = id]
  <2>1. q \in S!Request /\ q.kind = "new" /\ q.who = b
    BY <1>0 DEF S!Idle, S!Request, S!Kind
  <2>2. S!Begin(r, q)
    BY <1>3 DEF S!AskNew
  <2> HIDE DEF q
  <2> QED
    BY <2>1, <2>2, StaffBegins
<1>4. ASSUME NEW name \in RoleName, S!AskRole(r, a, name) PROVE StaffInv'
  <2> DEFINE q == [S!Idle EXCEPT !.kind = "role", !.by = a, !.name = name]
  <2>1. q \in S!Request /\ q.kind = "role"
    BY DEF S!Idle, S!Request, S!Kind
  <2>2. S!Begin(r, q)
    BY <1>4 DEF S!AskRole
  <2> HIDE DEF q
  <2> QED
    BY <2>1, <2>2, StaffBegins
<1>5. ASSUME NEW name \in RoleName, NEW id \in RoleId, S!AskRename(r, a, id, name) PROVE StaffInv'
  <2> DEFINE q == [S!Idle EXCEPT !.kind = "rename", !.by = a, !.role = id, !.name = name]
  <2>1. q \in S!Request /\ q.kind = "rename"
    BY DEF S!Idle, S!Request, S!Kind
  <2>2. S!Begin(r, q)
    BY <1>5 DEF S!AskRename
  <2> HIDE DEF q
  <2> QED
    BY <2>1, <2>2, StaffBegins
<1>6. ASSUME NEW id \in RoleId, S!AskUnrole(r, a, id) PROVE StaffInv'
  <2> DEFINE led == {b \in DOMAIN admins : S!RoleOf(b) = id}
             q == [S!Idle EXCEPT !.kind = "unrole", !.by = a, !.role = id, !.led = led]
  <2>1. S!Begin(r, q)
    BY <1>6 DEF S!AskUnrole
  <2>2. led \subseteq Admin
    BY DEF StaffInv, RowsOK
  <2>3. q \in S!Request /\ q.kind = "unrole" /\ q.led = led /\ q.role = id
    BY <1>0, <2>2 DEF S!Idle, S!Request, S!Kind
  <2>4. \A b \in led : S!RoleOf(b) = id
    OBVIOUS
  <2> HIDE DEF q, led
  <2> QED
    BY <2>1, <2>3, <2>4, StaffBegins
<1> QED
  BY <1>1, <1>2, <1>3, <1>4, <1>5, <1>6
-----------------------------------------------------------------------------
(* What a transaction that changes no role and takes no administrator's     *)
(* role from him has to show of the rest                                    *)
LEMMA StaffCommits ==
  ASSUME StaffInv, NEW r \in Req, ruling' = [ruling EXCEPT ![r] = S!Idle],
         DOMAIN admins' \subseteq Admin, admins' \in [DOMAIN admins' -> S!AdminRow],
         DOMAIN roles' \subseteq RoleId,
         \A b \in DOMAIN admins' :
            \/ b \in DOMAIN admins /\ admins'[b].role \in {S!RoleOf(b), None}
            \/ \A o \in Req \ {r} : ruling[o].kind = "unrole" => b \notin ruling[o].led
  PROVE  RowsOK' /\ NotSelf' /\ LedOnly'
<1>1. S!Idle \in S!Request
  BY DEF StaffInv, S!StaffOK, S!Idle, S!Request
<1>2. RowsOK'
  BY <1>1 DEF StaffInv, RowsOK, S!Idle
<1>3. NotSelf'
  BY DEF StaffInv, RowsOK, NotSelf, S!Idle
<1>4. LedOnly'
  <2> SUFFICES ASSUME NEW o \in Req, ruling'[o].kind = "unrole",
                      NEW b \in ruling'[o].led \cap DOMAIN admins'
               PROVE  admins'[b].role \in {ruling'[o].role, None}
    BY DEF LedOnly, S!RoleOf
  <2>1. o # r /\ ruling'[o] = ruling[o]
    BY DEF StaffInv, RowsOK, S!Idle
  <2> QED
    BY <2>1 DEF StaffInv, LedOnly, S!RoleOf
<1> QED
  BY <1>2, <1>3, <1>4

(* A superadmin in use who keeps row, role and the role's name remains      *)
LEMMA Stays ==
  ASSUME NEW a \in DOMAIN admins, S!Leads(a), admins[a].using,
         a \in DOMAIN admins', admins'[a] = admins[a],
         S!RoleOf(a) \in DOMAIN roles', roles'[S!RoleOf(a)] = roles[S!RoleOf(a)]
  PROVE  S!SuperRemains'
  BY DEF S!SuperRemains, S!Leads, S!RoleOf

LEMMA SetStateKeeps ==
  ASSUME StaffInv, NEW r \in Req, S!SetState(r)
  PROVE  StaffInv'
<1> DEFINE who == ruling[r].who
<1>0. ruling[r] \in S!Request /\ ruling[r].kind = "state"
  BY DEF StaffInv, RowsOK, S!SetState, S!Write
<1>1. ruling' = [ruling EXCEPT ![r] = S!Idle] /\ roles' = roles
  BY DEF S!SetState, S!Write, S!rows, S!history
<1>2. \/ admins' = admins
      \/ who \in DOMAIN admins /\ admins' = [admins EXCEPT ![who].using = ruling[r].using]
  BY DEF S!SetState, S!Write, S!rows, S!history
<1>3. /\ DOMAIN admins' = DOMAIN admins
      /\ admins' \in [DOMAIN admins' -> S!AdminRow]
      /\ \A b \in DOMAIN admins : admins'[b].role = S!RoleOf(b)
      /\ \A b \in DOMAIN admins \ {who} : admins'[b] = admins[b]
  <2>1. ruling[r].using \in BOOLEAN
    BY <1>0 DEF S!Request
  <2> QED
    BY <1>2, <2>1 DEF StaffInv, RowsOK, S!AdminRow, S!RoleOf
<1>4. RowsOK' /\ NotSelf' /\ LedOnly'
  BY <1>1, <1>3, StaffCommits DEF StaffInv, RowsOK
<1>5. S!SuperRemains'
  <2> SUFFICES ASSUME ~overtaken', ~unseated', ~evaded' PROVE S!SuperRemains'
    BY DEF S!SuperRemains
  <2>1. ~overtaken /\ ~unseated /\ ~evaded
    BY DEF S!SetState, S!Acts
  <2>2. PICK a \in DOMAIN admins : S!Leads(a) /\ admins[a].using
    BY <2>1 DEF StaffInv, S!SuperRemains
  <2>3. CASE admins' = admins
    BY <1>1, <2>2, <2>3 DEF S!SuperRemains, S!Leads, S!RoleOf
  <2>4. CASE admins' # admins
    <3> DEFINE by == ruling[r].by
    <3>1. S!Leads(by) /\ admins[by].using
      BY <2>4, <2>1 DEF S!SetState, S!Acts
    <3>2. by # who /\ by \in DOMAIN admins
      BY <1>0, <2>4, <3>1 DEF StaffInv, NotSelf, S!Leads, S!SetState, S!Acts
    <3>3. by \in DOMAIN admins' /\ admins'[by] = admins[by]
      BY <1>3, <3>2
    <3>4. S!RoleOf(by) \in DOMAIN roles
      BY <3>1 DEF S!Leads
    <3> HIDE DEF by
    <3> QED
      BY <1>1, <3>1, <3>2, <3>3, <3>4, Stays
  <2> QED
    BY <2>3, <2>4
<1> QED
  BY <1>4, <1>5 DEF StaffInv

LEMMA DeleteAdminKeeps ==
  ASSUME StaffInv, NEW r \in Req, S!DeleteAdmin(r)
  PROVE  StaffInv'
<1> DEFINE who == ruling[r].who
           by == ruling[r].by
<1>0. ruling[r] \in S!Request /\ ruling[r].kind = "delete"
  BY DEF StaffInv, RowsOK, S!DeleteAdmin, S!Write
<1>1. ruling' = [ruling EXCEPT ![r] = S!Idle] /\ roles' = roles
  BY DEF S!DeleteAdmin, S!Write, S!rows, S!history
<1>2. admins' = [b \in DOMAIN admins \ {who} |-> admins[b]]
  BY DEF S!DeleteAdmin, S!Write, S!Without
<1>3. RowsOK' /\ NotSelf' /\ LedOnly'
  BY <1>1, <1>2, StaffCommits DEF StaffInv, RowsOK, S!RoleOf
<1>4. S!SuperRemains'
  <2> SUFFICES ASSUME ~overtaken', ~unseated', ~evaded' PROVE S!SuperRemains'
    BY DEF S!SuperRemains
  <2>1. ~overtaken /\ ~unseated /\ ~evaded
    BY DEF S!DeleteAdmin, S!Acts
  <2>2. CASE admins' = admins
    BY <1>1, <2>1, <2>2 DEF StaffInv, S!SuperRemains, S!Leads, S!RoleOf
  <2>3. CASE admins' # admins
    <3>1. S!Leads(by) /\ admins[by].using
      BY <2>3, <2>1 DEF S!DeleteAdmin, S!Acts
    <3>2. by # who /\ by \in DOMAIN admins /\ S!RoleOf(by) \in DOMAIN roles
      BY <1>0, <2>3, <3>1 DEF StaffInv, NotSelf, S!Leads, S!DeleteAdmin, S!Acts
    <3>3. by \in DOMAIN admins' /\ admins'[by] = admins[by]
      BY <1>2, <3>2
    <3> HIDE DEF by
    <3> QED
      BY <1>1, <3>1, <3>2, <3>3, Stays
  <2> QED
    BY <2>2, <2>3
<1> QED
  BY <1>3, <1>4 DEF StaffInv

LEMMA InsertAdminKeeps ==
  ASSUME StaffInv, NEW r \in Req, S!InsertAdmin(r)
  PROVE  StaffInv'
<1> DEFINE who == ruling[r].who
           row == [role |-> ruling[r].role, using |-> TRUE]
<1>0. who \in Admin
  BY DEF StaffInv, RowsOK, S!InsertAdmin, S!Write
<1>1. /\ ruling' = [ruling EXCEPT ![r] = S!Idle] /\ roles' = roles
      /\ overtaken' = overtaken /\ unseated' = unseated /\ evaded' = evaded
  BY DEF S!InsertAdmin, S!Write, S!rows, S!history
<1>2. \/ admins' = admins
      \/ /\ who \notin DOMAIN admins /\ ~S!InHand(r, who)
         /\ ruling[r].role \in DOMAIN roles
         /\ admins' = S!Insert(admins, who, row)
  BY DEF S!InsertAdmin, S!Write, S!rows, S!history
<1>3. ruling[r].role \in DOMAIN roles => row \in S!AdminRow
  BY DEF StaffInv, RowsOK, S!AdminRow
<1>4. /\ DOMAIN admins' \subseteq Admin
      /\ admins' \in [DOMAIN admins' -> S!AdminRow]
      /\ DOMAIN admins \subseteq DOMAIN admins'
      /\ \A b \in DOMAIN admins : admins'[b] = admins[b]
  <2> HIDE DEF row
  <2> QED
    BY <1>0, <1>2, <1>3 DEF StaffInv, RowsOK, S!Insert
<1>5. \A b \in DOMAIN admins' :
          \/ b \in DOMAIN admins /\ admins'[b].role = S!RoleOf(b)
          \/ \A o \in Req \ {r} : ruling[o].kind = "unrole" => b \notin ruling[o].led
  BY <1>2, <1>4 DEF S!Insert, S!InHand, S!RoleOf
<1>6. RowsOK' /\ NotSelf' /\ LedOnly'
  BY <1>1, <1>4, <1>5, StaffCommits DEF StaffInv, RowsOK
<1>7. S!SuperRemains'
  BY <1>1, <1>4 DEF StaffInv, S!SuperRemains, S!Leads, S!RoleOf
<1> QED
  BY <1>6, <1>7 DEF StaffInv
-----------------------------------------------------------------------------
LEMMA InsertRoleKeeps ==
  ASSUME StaffInv, NEW r \in Req, S!InsertRole(r)
  PROVE  StaffInv'
<1> DEFINE id == lastRole + 1
<1>1. /\ ruling' = [ruling EXCEPT ![r] = S!Idle] /\ admins' = admins
      /\ overtaken' = overtaken /\ unseated' = unseated /\ evaded' = evaded /\ id \in RoleId
  BY DEF S!InsertRole, S!Write, S!rows, S!history
<1>2. roles' = roles \/ roles' = S!Insert(roles, id, ruling[r].name)
  BY DEF S!InsertRole, S!Write, S!rows, S!history
<1> HIDE DEF id
<1>3. /\ DOMAIN roles' \subseteq RoleId
      /\ DOMAIN roles \subseteq DOMAIN roles'
      /\ \A i \in DOMAIN roles : roles'[i] = roles[i]
  BY <1>1, <1>2 DEF StaffInv, RowsOK, S!Insert
<1>4. RowsOK' /\ NotSelf' /\ LedOnly'
  BY <1>1, <1>3, StaffCommits DEF StaffInv, RowsOK, S!RoleOf
<1>5. S!SuperRemains'
  BY <1>1, <1>3 DEF StaffInv, S!SuperRemains, S!Leads, S!RoleOf
<1> QED
  BY <1>4, <1>5 DEF StaffInv

LEMMA RenameRoleKeeps ==
  ASSUME StaffInv, NEW r \in Req, S!RenameRole(r)
  PROVE  StaffInv'
<1> DEFINE id == ruling[r].role
<1>1. ruling' = [ruling EXCEPT ![r] = S!Idle] /\ admins' = admins
      /\ overtaken' = overtaken /\ evaded' = evaded
  BY DEF S!RenameRole, S!Write, S!Touches, S!rows, S!history
<1>2. roles' = roles \/ roles' = [roles EXCEPT ![id] = ruling[r].name]
  BY DEF S!RenameRole, S!Write, S!rows, S!history
<1>3. unseated' = (unseated \/ (roles' # roles /\ roles[id] = SuperAdmin))
  BY DEF S!RenameRole, S!Touches
<1> HIDE DEF id
<1>4. RowsOK' /\ NotSelf' /\ LedOnly'
  BY <1>1, <1>2, StaffCommits DEF StaffInv, RowsOK, S!RoleOf
<1>5. S!SuperRemains'
  BY <1>1, <1>2, <1>3 DEF StaffInv, S!SuperRemains, S!Leads, S!RoleOf
<1> QED
  BY <1>4, <1>5 DEF StaffInv

LEMMA DeleteRoleKeeps ==
  ASSUME StaffInv, NEW r \in Req, S!DeleteRole(r)
  PROVE  StaffInv'
<1> DEFINE id == ruling[r].role
           led == ruling[r].led
           Off(b) == [admins[b] EXCEPT !.role = None]
<1>0. ruling[r].kind = "unrole"
  BY DEF S!DeleteRole, S!Write
<1>1. ruling' = [ruling EXCEPT ![r] = S!Idle] /\ overtaken' = overtaken /\ evaded' = evaded
  BY DEF S!DeleteRole, S!Write, S!Touches
<1>2. \/ admins' = admins /\ roles' = roles
      \/ /\ admins' = [b \in DOMAIN admins |-> IF b \in led THEN Off(b) ELSE admins[b]]
         /\ roles' = [i \in DOMAIN roles \ {id} |-> roles[i]]
  BY DEF S!DeleteRole, S!Write, S!Without, S!rows, S!history
<1>3. unseated' = (unseated \/ (roles' # roles /\ roles[id] = SuperAdmin))
  BY DEF S!DeleteRole, S!Touches
<1>4. \A b \in DOMAIN admins : Off(b) \in S!AdminRow /\ Off(b).role = None
  BY DEF StaffInv, RowsOK, S!AdminRow
<1>5. \A b \in led \cap DOMAIN admins : S!RoleOf(b) \in {id, None}
  BY <1>0 DEF StaffInv, LedOnly
<1> HIDE DEF id, led, Off
<1>6. RowsOK' /\ NotSelf' /\ LedOnly'
  <2>1. /\ DOMAIN admins' = DOMAIN admins /\ DOMAIN roles' \subseteq DOMAIN roles
        /\ \A b \in DOMAIN admins : admins'[b] \in {admins[b], Off(b)}
        /\ admins' = [b \in DOMAIN admins |-> admins'[b]]
    <3>1. CASE admins' = admins /\ roles' = roles
      BY <3>1 DEF StaffInv, RowsOK
    <3>2. CASE roles' # roles \/ admins' # admins
      BY <1>2, <3>2
    <3> QED
      BY <3>1, <3>2
  <2>2. \A b \in DOMAIN admins : admins'[b] \in S!AdminRow /\ admins'[b].role \in {S!RoleOf(b), None}
    BY <1>4, <2>1 DEF StaffInv, RowsOK, S!RoleOf
  <2>3. /\ DOMAIN admins' \subseteq Admin /\ admins' \in [DOMAIN admins' -> S!AdminRow]
        /\ DOMAIN roles' \subseteq RoleId
    BY <2>1, <2>2 DEF StaffInv, RowsOK
  <2> QED
    BY <1>1, <2>1, <2>2, <2>3, StaffCommits
<1>7. S!SuperRemains'
  <2> SUFFICES ASSUME ~overtaken', ~unseated', ~evaded' PROVE S!SuperRemains'
    BY DEF S!SuperRemains
  <2>1. PICK a \in DOMAIN admins : S!Leads(a) /\ admins[a].using
    BY <1>1, <1>3 DEF StaffInv, S!SuperRemains
  <2>2. CASE admins' = admins /\ roles' = roles
    BY <2>1, <2>2 DEF S!SuperRemains, S!Leads, S!RoleOf
  <2>3. CASE /\ admins' = [b \in DOMAIN admins |-> IF b \in led THEN Off(b) ELSE admins[b]]
             /\ roles' = [i \in DOMAIN roles \ {id} |-> roles[i]]
    <3>1. S!RoleOf(a) # id
      <4> SUFFICES ASSUME S!RoleOf(a) = id PROVE FALSE
        OBVIOUS
      <4>1. id \in DOMAIN roles /\ roles[id] = SuperAdmin
        BY <2>1 DEF S!Leads
      <4>2. roles' # roles
        BY <2>3, <4>1
      <4> QED
        BY <1>3, <4>1, <4>2
    <3>2. S!RoleOf(a) \in RoleId /\ S!RoleOf(a) \in DOMAIN roles
      BY <2>1 DEF S!Leads, StaffInv, RowsOK
    <3>3. a \notin led
      BY <1>5, <3>1, <3>2 DEF StaffInv, S!StaffOK
    <3>4. a \in DOMAIN admins' /\ admins'[a] = admins[a]
      BY <2>3, <3>3
    <3>5. S!RoleOf(a) \in DOMAIN roles' /\ roles'[S!RoleOf(a)] = roles[S!RoleOf(a)]
      BY <2>3, <3>1, <3>2
    <3> QED
      BY <2>1, <3>4, <3>5, Stays
  <2> QED
    BY <1>2, <2>2, <2>3
<1> QED
  BY <1>6, <1>7 DEF StaffInv

LEMMA SyncDbKeeps ==
  ASSUME StaffInv, S!SyncDb
  PROVE  StaffInv'
<1>1. PICK id \in RoleId :
          /\ roles' = S!Insert(roles, id, SuperAdmin)
          /\ admins' = S!Insert(admins, Founder, [role |-> id, using |-> TRUE])
          /\ ruling' = ruling /\ overtaken' = overtaken /\ unseated' = unseated /\ evaded' = evaded
          /\ \A r \in Req : ruling[r] = S!Idle
  BY DEF S!SyncDb, S!history
<1> DEFINE row == [role |-> id, using |-> TRUE]
<1>2. row \in S!AdminRow /\ Founder \in Admin
  BY DEF S!AdminRow, StaffInv, S!StaffOK
<1>3. admins' = S!Insert(admins, Founder, row)
  BY <1>1
<1> HIDE DEF row
<1>4. /\ DOMAIN admins' \subseteq Admin /\ admins' \in [DOMAIN admins' -> S!AdminRow]
      /\ DOMAIN admins \subseteq DOMAIN admins'
      /\ \A b \in DOMAIN admins : admins'[b] = admins[b]
  BY <1>2, <1>3 DEF S!Insert, StaffInv, RowsOK
<1>5. /\ DOMAIN roles' \subseteq RoleId /\ DOMAIN roles \subseteq DOMAIN roles'
      /\ \A i \in DOMAIN roles : roles'[i] = roles[i]
  BY <1>1 DEF S!Insert, StaffInv, RowsOK
<1>6. RowsOK'
  BY <1>1, <1>4, <1>5 DEF StaffInv, RowsOK
<1>7. NotSelf' /\ LedOnly'
  BY <1>1 DEF NotSelf, LedOnly, S!Idle
<1>8. S!SuperRemains'
  BY <1>1, <1>4, <1>5 DEF StaffInv, S!SuperRemains, S!Leads, S!RoleOf
<1> QED
  BY <1>6, <1>7, <1>8 DEF StaffInv
-----------------------------------------------------------------------------
LEMMA StaffNext == StaffInv /\ [S!Next]_(S!vars) => StaffInv'
<1> SUFFICES ASSUME StaffInv, [S!Next]_(S!vars) PROVE StaffInv'
  OBVIOUS
<1>1. ASSUME NEW a \in Admin, S!SignIn(a) PROVE StaffInv'
  BY <1>1 DEF S!SignIn, S!rows, S!history, StaffInv, RowsOK, NotSelf, LedOnly, S!SuperRemains, S!Leads, S!RoleOf
<1>2. ASSUME NEW r \in Req, S!Ask(r) PROVE StaffInv'
  BY <1>2, StaffAsks
<1>3. ASSUME NEW r \in Req, S!Commit(r) PROVE StaffInv'
  BY <1>3, SetStateKeeps, DeleteAdminKeeps, InsertAdminKeeps, InsertRoleKeeps,
     RenameRoleKeeps, DeleteRoleKeeps DEF S!Commit
<1>4. CASE S!SyncDb
  BY <1>4, SyncDbKeeps
<1>5. CASE UNCHANGED S!vars
  BY <1>5 DEF S!vars, S!rows, S!history, StaffInv, RowsOK, NotSelf, LedOnly, S!SuperRemains, S!Leads, S!RoleOf
<1> QED
  BY <1>1, <1>2, <1>3, <1>4, <1>5 DEF S!Next

(* There is always a superadmin in use, however many administrators disable *)
(* and delete each other, as long as each was one when it was written, the  *)
(* role was left alone and nobody disabled or deleted himself by an id that *)
(* is a string: for all administrators, roles and requests.                 *)
THEOREM SuperadminRemains == OfficeSpec => []SuperRemains
<1>1. OfficeInit => StaffInv
  BY OfficeAssumption, StaffInit DEF OfficeInit
<1>2. StaffInv /\ [OfficeNext]_allVars => StaffInv'
  BY StepsApart, StaffNext
<1>3. StaffInv => SuperRemains
  BY DEF SuperRemains, StaffInv
<1> QED
  BY <1>1, <1>2, <1>3, PTL DEF OfficeSpec
-----------------------------------------------------------------------------
(* Maintainer *)

(* An address a maintainer may be given: one there is or was, or all of them *)
Known == sites \cup erased \cup {All}

(* Nobody has, or is about to be given, an address that never was *)
MaintainerInv ==
    /\ sites \subseteq Address
    /\ keeping \in [Req -> M!Request]
    /\ maintainers \in [DOMAIN maintainers -> M!Row]
    /\ \A u \in DOMAIN maintainers : maintainers[u].address \in Known
    /\ \A r \in Req : keeping[r].address \in Known

LEMMA MaintainerInit == M!Init => MaintainerInv
  BY DEF M!Init, MaintainerInv, Known, M!Idle, M!Request, M!Row

(* What a request takes in hand is all there is or one of the addresses.    *)
LEMMA MaintainerBegins ==
  ASSUME MaintainerInv, NEW r \in Req, NEW q \in M!Request, q.address \in Known, M!Begin(r, q)
  PROVE  MaintainerInv'
  BY DEF MaintainerInv, M!Begin, Known, M!rows

LEMMA PlacedKnown ==
  ASSUME MaintainerInv, NEW a
  PROVE  M!Placed(a) \in Known /\ M!Placed(a) \in Address \cup {All}
  BY DEF MaintainerInv, M!Placed, Known

LEMMA MaintainerNext == MaintainerInv /\ [M!Next]_(M!vars) => MaintainerInv'
<1> SUFFICES ASSUME MaintainerInv, [M!Next]_(M!vars) PROVE MaintainerInv'
  OBVIOUS
<1>1. ASSUME NEW r \in Req, M!Ask(r) PROVE MaintainerInv'
  <2> PICK u \in Username :
          \/ M!AskDelete(r, u)
          \/ \E using \in BOOLEAN : M!AskState(r, u, using)
          \/ \E a \in Address : M!AskNew(r, u, a) \/ M!AskMove(r, u, a)
    BY <1>1 DEF M!Ask
  <2>1. CASE M!AskDelete(r, u)
    <3> DEFINE q == [M!Idle EXCEPT !.kind = "delete", !.who = u]
    <3>1. q \in M!Request /\ q.address \in Known
      BY DEF M!Idle, M!Request, Known
    <3> QED
      BY <2>1, <3>1, MaintainerBegins DEF M!AskDelete
  <2>2. ASSUME NEW using \in BOOLEAN, M!AskState(r, u, using) PROVE MaintainerInv'
    <3> DEFINE q == [M!Idle EXCEPT !.kind = "state", !.who = u, !.using = using,
                                 !.was = maintainers[u].using]
    <3>1. maintainers[u] \in M!Row
      BY <2>2 DEF MaintainerInv, M!AskState
    <3>2. q \in M!Request /\ q.address \in Known
      BY <3>1 DEF M!Idle, M!Request, M!Row, Known
    <3> QED
      BY <2>2, <3>2, MaintainerBegins DEF M!AskState
  <2>3. ASSUME NEW a \in Address, M!AskNew(r, u, a) PROVE MaintainerInv'
    <3> DEFINE q == [M!Idle EXCEPT !.kind = "new", !.who = u, !.address = M!Placed(a)]
    <3>1. q \in M!Request /\ q.address \in Known
      BY PlacedKnown DEF M!Idle, M!Request
    <3> QED
      BY <2>3, <3>1, MaintainerBegins DEF M!AskNew
  <2>4. ASSUME NEW a \in Address, M!AskMove(r, u, a) PROVE MaintainerInv'
    <3> DEFINE q == [M!Idle EXCEPT !.kind = "move", !.who = u, !.address = M!Placed(a)]
    <3>1. q \in M!Request /\ q.address \in Known
      BY PlacedKnown DEF M!Idle, M!Request
    <3> QED
      BY <2>4, <3>1, MaintainerBegins DEF M!AskMove
  <2> QED
    BY <2>1, <2>2, <2>3, <2>4
<1>2. ASSUME NEW r \in Req, M!Create(r) \/ M!Move(r) \/ M!SetState(r) \/ M!Delete(r) PROVE MaintainerInv'
  <2>1. /\ sites' = sites /\ erased' = erased
        /\ keeping' = [keeping EXCEPT ![r] = M!Idle]
    BY <1>2 DEF M!Create, M!Move, M!SetState, M!Delete, M!Commit
  <2>2. /\ keeping' \in [Req -> M!Request]
        /\ \A o \in Req : keeping'[o].address \in Known'
    BY <2>1 DEF MaintainerInv, Known, M!Idle, M!Request
  <2>3. keeping[r] \in M!Request /\ keeping[r].address \in Known
    BY DEF MaintainerInv
  <2>4. /\ maintainers' \in [DOMAIN maintainers' -> M!Row]
        /\ \A u \in DOMAIN maintainers' : maintainers'[u].address \in Known
    <3>1. CASE maintainers' = maintainers
      BY <3>1 DEF MaintainerInv
    <3>2. CASE M!Create(r) /\ maintainers' # maintainers
      <4> DEFINE row == [address |-> keeping[r].address, using |-> TRUE]
                 who == keeping[r].who
      <4>1. row \in M!Row /\ row.address \in Known
        BY <2>3 DEF M!Row, M!Request
      <4>2. maintainers' = M!Insert(maintainers, who, row)
        BY <3>2, Zenon DEF M!Create, M!Commit
      <4> HIDE DEF row, who
      <4> QED
        BY <4>1, <4>2 DEF M!Insert, MaintainerInv
    <3>3. CASE M!Move(r)
      BY <2>3, <3>3 DEF M!Move, M!Commit, MaintainerInv, M!Row, M!Request
    <3>4. CASE M!SetState(r)
      BY <2>3, <3>4 DEF M!SetState, M!Commit, MaintainerInv, M!Row, M!Request
    <3>5. CASE M!Delete(r)
      BY <3>5 DEF M!Delete, M!Commit, MaintainerInv
    <3> QED
      BY <1>2, <3>1, <3>2, <3>3, <3>4, <3>5
  <2> QED
    BY <2>1, <2>2, <2>4 DEF MaintainerInv, Known
<1>3. ASSUME NEW a \in Address, M!Erase(a) \/ M!Found(a) PROVE MaintainerInv'
  BY <1>3 DEF M!Erase, M!Found, MaintainerInv, Known
<1>4. CASE UNCHANGED M!vars
  BY <1>4 DEF M!vars, M!rows, MaintainerInv, Known
<1> QED
  BY <1>1, <1>2, <1>3, <1>4 DEF M!Next

(* A maintainer in use is let in somewhere, unless the address he was given *)
(* is gone: for every number of accounts, addresses and requests.           *)
THEOREM MaintainerLetIn == OfficeSpec => []LetInSomewhere
<1>1. OfficeInit => MaintainerInv
  BY OfficeAssumption, MaintainerInit DEF OfficeInit
<1>2. MaintainerInv /\ [OfficeNext]_allVars => MaintainerInv'
  BY StepsApart, MaintainerNext
<1>3. MaintainerInv => LetInSomewhere
  BY DEF LetInSomewhere, M!LetInSomewhere, M!MayServe, MaintainerInv, Known
<1> QED
  BY <1>1, <1>2, <1>3, PTL DEF OfficeSpec
-----------------------------------------------------------------------------
(* ChargeMode *)

(* What a refused request has set by then is at most the name *)
Timid(q) == q.kind = "update" /\ q.refused => "charge_mode" \notin q.set

RateInv == pricing = [r \in Req |-> pricing[r]] /\ \A r \in Req : Timid(pricing[r])

LEMMA RateInit == C!Init => RateInv
  BY DEF C!Init, RateInv, Timid, C!Idle

LEMMA RateBegins ==
  ASSUME RateInv, NEW r \in Req, NEW q, Timid(q), C!Begin(r, q)
  PROVE  RateInv' /\ C!rows' = C!rows
  BY DEF RateInv, C!Begin, Timid, C!rows

LEMMA RateAsks ==
  ASSUME RateInv, NEW r \in Req, C!Ask(r)
  PROVE  RateInv' /\ C!rows' = C!rows
<1> PICK c \in ChargeId :
        \/ C!AskDelete(r, c)
        \/ \E d \in Device : C!AskDeploy(r, d, c)
        \/ \E name \in RateName, price \in Rate :
              \/ C!AskNew(r, c, name, price)
              \/ \E priced \in BOOLEAN : C!AskUpdate(r, c, name, price, priced)
  BY DEF C!Ask
<1>1. CASE C!AskDelete(r, c)
  <2> DEFINE q == [C!Idle EXCEPT !.kind = "delete", !.id = c,
                               !.devices = {d \in DOMAIN chargeOf : chargeOf[d] = c}]
  <2>1. Timid(q)
    BY DEF Timid, C!Idle
  <2> QED
    BY <1>1, <2>1, RateBegins DEF C!AskDelete
<1>2. ASSUME NEW d \in Device, C!AskDeploy(r, d, c) PROVE RateInv' /\ C!rows' = C!rows
  <2> DEFINE q == [C!Idle EXCEPT !.kind = "deploy", !.id = c, !.device = d]
  <2>1. Timid(q)
    BY DEF Timid, C!Idle
  <2> QED
    BY <1>2, <2>1, RateBegins DEF C!AskDeploy
<1>3. ASSUME NEW name \in RateName, NEW price \in Rate, C!AskNew(r, c, name, price)
      PROVE  RateInv' /\ C!rows' = C!rows
  <2> DEFINE q == [C!Idle EXCEPT !.kind = "new", !.id = c, !.name = name,
                               !.charge_mode = price]
  <2>1. Timid(q)
    BY DEF Timid, C!Idle
  <2> QED
    BY <1>3, <2>1, RateBegins DEF C!AskNew
<1>4. ASSUME NEW name \in RateName, NEW price \in Rate, NEW priced \in BOOLEAN,
             C!AskUpdate(r, c, name, price, priced)
      PROVE  RateInv' /\ C!rows' = C!rows
  <2> DEFINE taken == C!Named(name) \ {c} # {}
             row == [name |-> name, charge_mode |-> price]
             changed == {f \in DOMAIN row : row[f] # charges[c][f]}
             set == changed \cap C!Assigned(taken, priced)
             q == [C!Idle EXCEPT !.kind = "update", !.id = c, !.name = name,
                               !.charge_mode = price, !.set = set,
                               !.refused = taken \/ ~priced]
  <2>1. C!Begin(r, q)
    BY <1>4 DEF C!AskUpdate
  <2>2. taken \/ ~priced => "charge_mode" \notin set
    BY DEF C!Assigned
  <2>3. q.set = set /\ q.refused = (taken \/ ~priced)
    BY DEF C!Idle
  <2>4. Timid(q)
    BY <2>2, <2>3 DEF Timid
  <2> HIDE DEF q
  <2> QED
    BY <2>1, <2>4, RateBegins
<1> QED
  BY <1>1, <1>2, <1>3, <1>4

LEMMA RateCommits ==
  ASSUME RateInv, NEW r \in Req, C!Create(r) \/ C!Update(r) \/ C!Delete(r) \/ C!Deploy(r)
  PROVE  RateInv'
<1>1. pricing' = [pricing EXCEPT ![r] = C!Idle]
  BY DEF C!Create, C!Update, C!Delete, C!Deploy, C!Commit
<1> QED
  BY <1>1 DEF RateInv, Timid, C!Idle

LEMMA RateNext == RateInv /\ [C!Next]_(C!vars) => RateInv'
<1> SUFFICES ASSUME RateInv, [C!Next]_(C!vars) PROVE RateInv'
  OBVIOUS
<1>1. ASSUME NEW r \in Req, C!Ask(r) PROVE RateInv'
  BY <1>1, RateAsks
<1>2. ASSUME NEW r \in Req, C!Create(r) \/ C!Update(r) \/ C!Delete(r) \/ C!Deploy(r) PROVE RateInv'
  BY <1>2, RateCommits
<1>3. CASE UNCHANGED C!vars
  BY <1>3 DEF C!vars, RateInv, Timid
<1> QED
  BY <1>1, <1>2, <1>3 DEF C!Next

(* Who may change a price: a step that changes one is the commit of an      *)
(* update that was not refused                                              *)
PricedByUpdate == \A c \in DOMAIN charges \cap DOMAIN charges' :
              C!PriceOf(c)' # C!PriceOf(c) =>
                  \E r \in Req : pricing[r].kind = "update" /\ ~pricing[r].refused /\ pricing'[r] # pricing[r]

LEMMA UpdatePriced ==
  ASSUME RateInv, NEW r \in Req, C!Update(r)
  PROVE  PricedByUpdate
<1> SUFFICES ASSUME NEW c \in DOMAIN charges \cap DOMAIN charges', C!PriceOf(c)' # C!PriceOf(c)
             PROVE  pricing[r].kind = "update" /\ ~pricing[r].refused /\ pricing'[r] # pricing[r]
  BY DEF PricedByUpdate
<1>1. pricing[r].kind = "update" /\ pricing'[r] = C!Idle
  BY DEF C!Update, C!Commit, RateInv
<1>2. C!Idle # pricing[r]
  BY <1>1 DEF C!Idle
<1>3. charges' # charges
  BY DEF C!PriceOf
<1> DEFINE row == [name |-> IF "name" \in pricing[r].set THEN pricing[r].name
                            ELSE charges[pricing[r].id].name,
                   charge_mode |-> IF "charge_mode" \in pricing[r].set THEN pricing[r].charge_mode
                                   ELSE charges[pricing[r].id].charge_mode]
<1>4. charges' = [charges EXCEPT ![pricing[r].id] = row]
  BY <1>3 DEF C!Update, C!Commit, C!rows
<1>5. c = pricing[r].id /\ row.charge_mode # charges[c].charge_mode
  BY <1>4 DEF C!PriceOf
<1>6. "charge_mode" \in pricing[r].set
  BY <1>5
<1> QED
  BY <1>1, <1>2, <1>6 DEF RateInv, Timid

LEMMA StepPriced == RateInv /\ [C!Next]_(C!vars) => PricedByUpdate
<1> SUFFICES ASSUME RateInv, [C!Next]_(C!vars) PROVE PricedByUpdate
  OBVIOUS
<1>1. ASSUME NEW r \in Req, C!Ask(r) PROVE PricedByUpdate
  BY <1>1, RateAsks DEF C!rows, PricedByUpdate, C!PriceOf
<1>2. ASSUME NEW r \in Req, C!Create(r) PROVE PricedByUpdate
  <2>1. \A c \in DOMAIN charges : charges'[c] = charges[c]
    <3> DEFINE row == [name |-> pricing[r].name, charge_mode |-> pricing[r].charge_mode]
    <3>1. charges' = charges \/ charges' = C!Insert(charges, pricing[r].id, row)
      BY <1>2 DEF C!Create, C!Commit, C!rows
    <3> HIDE DEF row
    <3> QED
      BY <3>1 DEF C!Insert
  <2> QED
    BY <2>1 DEF PricedByUpdate, C!PriceOf
<1>3. ASSUME NEW r \in Req, C!Update(r) PROVE PricedByUpdate
  BY <1>3, UpdatePriced
<1>4. ASSUME NEW r \in Req, C!Delete(r) PROVE PricedByUpdate
  BY <1>4 DEF C!Delete, C!Commit, C!rows, PricedByUpdate, C!PriceOf
<1>5. ASSUME NEW r \in Req, C!Deploy(r) PROVE PricedByUpdate
  BY <1>5 DEF C!Deploy, C!Commit, C!rows, PricedByUpdate, C!PriceOf
<1>6. CASE UNCHANGED C!vars
  BY <1>6 DEF C!vars, C!rows, PricedByUpdate, C!PriceOf
<1> QED
  BY <1>1, <1>2, <1>3, <1>4, <1>5, <1>6 DEF C!Next

(* A request that is refused never changes a price, whatever it set before  *)
(* it gave up and the teardown commits: for all rates and requests.         *)
THEOREM RefusalKeepsPrices == OfficeSpec => RefusedKeepsPrice
<1>1. OfficeInit => RateInv
  BY RateInit DEF OfficeInit
<1>2. RateInv /\ [OfficeNext]_allVars => RateInv'
  BY StepsApart, RateNext
<1>3. RateInv /\ [OfficeNext]_allVars => [PricedByUpdate]_(C!vars)
  BY StepsApart, StepPriced
<1>4. OfficeSpec => [][PricedByUpdate]_(C!vars)
  BY <1>1, <1>2, <1>3, PTL DEF OfficeSpec
<1> QED
  BY <1>4 DEF RefusedKeepsPrice, C!RefusedKeepsPrice, PricedByUpdate
=============================================================================
