----------------------------- MODULE Registration -----------------------------
(***************************************************************************)
(* How a user of WeChat becomes a player: codes texted to a mobile, the    *)
(* login that takes one, the account, the profile fetched for it, and its  *)
(* deletion.  A step of a request is one command of redis, one call of a   *)
(* service, the SELECTs of a snapshot, or a transaction.                   *)
(***************************************************************************)
EXTENDS Integers, FiniteSets

CONSTANTS Wechat,       \* users of WeChat, by openid
          Mobile,
          Req,          \* requests being served
          None, Authorized,
          MaxText,      \* bound: codes texted
          MaxStart      \* bound: requests for codes, logins and deletions

(* A session cookie names nobody, an openid, or the account of an openid: a *)
(* mobile, since there is one account for each (unique, never removed)     *)
VARIABLES limit,        \* mobiles with the key of the minute in redis
          captcha,      \* captcha[m]: the code in redis, 0 without one
          texts,        \* how many codes were texted: code c is the c-th
          account,      \* rows of user: a function on the registered mobiles
          cookie,       \* cookie[w]
          token,        \* is there an access token in redis
          req,          \* req[r]: the request r serves
          started,
          passed,       \* history: requests that passed the limit in its minute
          rushed,       \* history: mobiles two requests looked up the limit of
          used,         \* history: used[c]: logins let in by code c
          doubled       \* history: codes two logins had in hand

redis == <<limit, captcha>>
history == <<passed, rushed, used, doubled>>
vars == <<redis, texts, account, cookie, token, req, started, history>>

Code == 1..MaxText
Profile == {"none", "part", "full"}    \* nick name and picture
AccountRow == [openid : Wechat, profile : Profile, deleted : BOOLEAN]
Label == {"idle", "look", "limit", "text", "store", "get", "del", "users",
          "undelete", "insert", "save", "delete"}
Request == [pc : Label, w : Wechat \cup {None}, m : Mobile \cup {None}, code : 0..MaxText,
            gone : BOOLEAN, profile : Profile]

NewReq(l, w, m, c) ==
    [pc |-> l, w |-> w, m |-> m, code |-> c, gone |-> FALSE, profile |-> "none"]
Idle == NewReq("idle", None, None, 0)

TypeOK ==
    /\ limit \subseteq Mobile
    /\ captcha \in [Mobile -> 0..MaxText]
    /\ texts \in 0..MaxText
    /\ DOMAIN account \subseteq Mobile
    /\ account \in [DOMAIN account -> AccountRow]
    /\ cookie \in [Wechat -> {None, Authorized} \cup Mobile]
    /\ token \in BOOLEAN
    /\ req \in [Req -> Request]
    /\ started \in 0..MaxStart
    /\ passed \in [Mobile -> Nat]
    /\ rushed \subseteq Mobile
    /\ used \in [Code -> Nat]
    /\ doubled \subseteq Code

(* Nobody or one player registered so far *)
Init ==
    /\ limit = {}
    /\ captcha = [m \in Mobile |-> 0]
    /\ texts = 0
    /\ \E old \in SUBSET Mobile, w \in Wechat, gone \in BOOLEAN :
          /\ Cardinality(old) <= 1
          /\ account = [m \in old |-> [openid |-> w, profile |-> "full", deleted |-> gone]]
    /\ cookie = [w \in Wechat |-> None]
    /\ token = FALSE
    /\ req = [r \in Req |-> Idle]
    /\ started = 0
    /\ passed = [m \in Mobile |-> 0]
    /\ rushed = {}
    /\ used = [c \in Code |-> 0]
    /\ doubled = {}

At(r, l) == req[r].pc = l
Set(r, q) == req' = [req EXCEPT ![r] = q]
Goto(r, l) == Set(r, [req[r] EXCEPT !.pc = l])
Finish(r) == Set(r, Idle)

Begin(r, q) ==
    /\ At(r, "idle")
    /\ started < MaxStart
    /\ started' = started + 1
    /\ Set(r, q)

Rows == UNCHANGED <<account, cookie>>
Calm == UNCHANGED history
-----------------------------------------------------------------------------
(* wechat_required: the openid comes from WeChat, with the code of the      *)
(* redirection, and stays in the cookie.  A failure changes nothing.       *)
Authorize(w) ==
    /\ cookie[w] = None
    /\ cookie' = [cookie EXCEPT ![w] = Authorized]
    /\ UNCHANGED <<redis, texts, account, token, req, started>> /\ Calm

Rest == UNCHANGED <<texts, token, started>>

(* request_code *)
AskCode(r, w, m) ==
    /\ cookie[w] # None
    /\ Begin(r, NewReq("look", w, m, 0))
    /\ UNCHANGED <<redis, texts, token>> /\ Rows /\ Calm

(* Mutation of Limited: the code in redis limits the next one *)
Limited_captcha(m) == captcha[m] > 0

Limited(m) == m \in limit

(* mobile_reach_rate_limit: get, then setex *)
LookAtLimit(r) ==
    LET m == req[r].m IN
    /\ At(r, "look")
    /\ IF Limited(m) THEN Finish(r) ELSE Goto(r, "limit")
    /\ rushed' = IF ~Limited(m) /\ \E o \in Req : At(o, "limit") /\ req[o].m = m
                 THEN rushed \cup {m} ELSE rushed
    /\ UNCHANGED <<redis, passed, used, doubled>> /\ Rest /\ Rows

SetLimit(r) ==
    LET m == req[r].m IN
    /\ At(r, "limit")
    /\ limit' = limit \cup {m}
    /\ passed' = [passed EXCEPT ![m] = @ + 1]
    /\ Goto(r, "text")
    /\ UNCHANGED <<captcha, rushed, used, doubled>> /\ Rest /\ Rows

(* Geetest refuses the puzzle, or the SMS service the text *)
TextFails(r) ==
    /\ At(r, "text")
    /\ Finish(r)
    /\ UNCHANGED redis /\ Rest /\ Rows /\ Calm

(* request_sms.  An answer that is lost leaves a text without its code in  *)
(* redis                                                                   *)
SendText(r, answered) ==
    /\ At(r, "text")
    /\ texts < MaxText
    /\ texts' = texts + 1
    /\ IF answered THEN Set(r, [req[r] EXCEPT !.pc = "store", !.code = texts + 1])
       ELSE Finish(r)
    /\ UNCHANGED <<redis, token, started>> /\ Rows /\ Calm

StoreCode(r) ==
    /\ At(r, "store")
    /\ captcha' = [captcha EXCEPT ![req[r].m] = req[r].code]
    /\ Finish(r)
    /\ UNCHANGED limit /\ Rest /\ Rows /\ Calm
-----------------------------------------------------------------------------
(* wechat_login *)
Login(r, w, m, c) ==
    /\ cookie[w] # None
    /\ c <= texts
    /\ Begin(r, NewReq("get", w, m, c))
    /\ UNCHANGED <<redis, texts, token>> /\ Rows /\ Calm

(* validate_captcha: get, then delete *)
GetCode(r) ==
    LET c == req[r].code
        right == captcha[req[r].m] = c IN
    /\ At(r, "get")
    /\ IF right THEN Goto(r, "del") ELSE Finish(r)
    /\ doubled' = IF right /\ \E o \in Req : At(o, "del") /\ req[o].code = c
                  THEN doubled \cup {c} ELSE doubled
    /\ UNCHANGED <<redis, passed, rushed, used>> /\ Rest /\ Rows

(* Mutation of Forget: a code lives out its five minutes *)
Forget_not(m) == UNCHANGED captcha

Forget(m) == captcha' = [captcha EXCEPT ![m] = 0]

DelCode(r) ==
    /\ At(r, "del")
    /\ Forget(req[r].m)
    /\ used' = [used EXCEPT ![req[r].code] = @ + 1]
    /\ Goto(r, "users")
    /\ UNCHANGED <<limit, passed, rushed, doubled>> /\ Rest /\ Rows

(* get_wechat_user_info: nothing without a token, an answer, or a user who *)
(* follows the account; who does may have no picture                       *)
Fetched(p) == p = "none" \/ token

(* get_user_by_mobile and get_by_openid, in one snapshot; then the profile *)
FindUser(r, p) ==
    LET m == req[r].m
        w == req[r].w IN
    /\ At(r, "users")
    /\ IF m \in DOMAIN account
       THEN IF account[m].openid = w
            THEN Set(r, [req[r] EXCEPT !.pc = "undelete", !.gone = account[m].deleted])
            ELSE Finish(r)
       ELSE IF \E n \in DOMAIN account : account[n].openid = w THEN Finish(r)
            ELSE Fetched(p) /\ Set(r, [req[r] EXCEPT !.pc = "insert", !.profile = p])
    /\ UNCHANGED redis /\ Rest /\ Rows /\ Calm

(* user.save() writes deleted only where the snapshot had it otherwise *)
Undelete(r) ==
    LET m == req[r].m IN
    /\ At(r, "undelete")
    /\ account' = IF req[r].gone THEN [account EXCEPT ![m].deleted = FALSE] ELSE account
    /\ cookie' = [cookie EXCEPT ![req[r].w] = m]
    /\ Finish(r)
    /\ UNCHANGED redis /\ Rest /\ Calm

(* UserService.create: mobile and openid are unique *)
InsertUser(r) ==
    LET m == req[r].m
        w == req[r].w IN
    /\ At(r, "insert")
    /\ IF m \in DOMAIN account \/ \E n \in DOMAIN account : account[n].openid = w
       THEN Rows
       ELSE /\ account' = [n \in DOMAIN account \cup {m} |->
                           IF n = m THEN [openid |-> w, profile |-> req[r].profile,
                                          deleted |-> FALSE]
                           ELSE account[n]]
            /\ cookie' = [cookie EXCEPT ![w] = m]
    /\ Finish(r)
    /\ UNCHANGED redis /\ Rest /\ Calm
-----------------------------------------------------------------------------
(* menu: an account that is not deleted is found by its openid *)
Menu(w, m) ==
    /\ cookie[w] = Authorized
    /\ m \in DOMAIN account
    /\ account[m].openid = w /\ ~account[m].deleted
    /\ cookie' = [cookie EXCEPT ![w] = m]
    /\ UNCHANGED <<redis, texts, account, token, req, started>> /\ Calm

(* without a name or a picture *)
Incomplete(m) == account[m].profile # "full"

(* get_user_info.  A visit that finds the account deleted or complete, or  *)
(* does not get both from WeChat, changes nothing and is left out          *)
Visit(r, w) ==
    LET m == cookie[w] IN
    /\ m \in DOMAIN account
    /\ At(r, "idle")
    /\ ~account[m].deleted /\ Incomplete(m)
    /\ Fetched("full")
    /\ Set(r, NewReq("save", w, m, 0))
    /\ UNCHANGED redis /\ Rest /\ Rows /\ Calm

(* save_nick_and_head *)
SaveProfile(r) ==
    /\ At(r, "save")
    /\ account' = [account EXCEPT ![req[r].m].profile = "full"]
    /\ Finish(r)
    /\ UNCHANGED <<redis, cookie>> /\ Rest /\ Calm

(* delete_user: an administrator; the row stays, deleted *)
StartDelete(r, m) ==
    /\ m \in DOMAIN account /\ ~account[m].deleted
    /\ Begin(r, NewReq("delete", None, m, 0))
    /\ UNCHANGED <<redis, texts, token>> /\ Rows /\ Calm

Delete(r) ==
    /\ At(r, "delete")
    /\ account' = [account EXCEPT ![req[r].m].deleted = TRUE]
    /\ Finish(r)
    /\ UNCHANGED <<redis, cookie>> /\ Rest /\ Calm
-----------------------------------------------------------------------------
(* The keys of redis expire; the token is renewed by AccessToken's thread *)
LimitExpires(m) ==
    /\ m \in limit
    /\ limit' = limit \ {m}
    /\ passed' = [passed EXCEPT ![m] = 0]
    /\ UNCHANGED <<captcha, req, rushed, used, doubled>> /\ Rest /\ Rows

CodeExpires(m) ==
    /\ captcha[m] > 0
    /\ captcha' = [captcha EXCEPT ![m] = 0]
    /\ UNCHANGED <<limit, req>> /\ Rest /\ Rows /\ Calm

TokenComesAndGoes ==
    /\ token' = ~token
    /\ UNCHANGED <<redis, texts, req, started>> /\ Rows /\ Calm

Texting(r) == \/ LookAtLimit(r) \/ SetLimit(r) \/ TextFails(r) \/ StoreCode(r)
              \/ \E answered \in BOOLEAN : SendText(r, answered)
LoggingIn(r) == \/ GetCode(r) \/ DelCode(r) \/ Undelete(r) \/ InsertUser(r)
                \/ \E p \in Profile : FindUser(r, p)
Step(r) == Texting(r) \/ LoggingIn(r) \/ SaveProfile(r) \/ Delete(r)

Next ==
    \/ \E w \in Wechat : Authorize(w) \/ \E m \in Mobile : Menu(w, m)
    \/ \E r \in Req, w \in Wechat, m \in Mobile :
          \/ AskCode(r, w, m)
          \/ \E c \in Code : Login(r, w, m, c)
    \/ \E r \in Req : \/ Step(r)
                      \/ \E w \in Wechat : Visit(r, w)
                      \/ \E m \in Mobile : StartDelete(r, m)
    \/ \E m \in Mobile : LimitExpires(m) \/ CodeExpires(m)
    \/ TokenComesAndGoes

Spec == Init /\ [][Next]_vars
-----------------------------------------------------------------------------
(* A code lets one login in, unless two logins had it in hand at once: the *)
(* get and the delete of validate_captcha are two commands.                *)
CodeLetsInOnce == \A c \in Code : used[c] <= 1 \/ c \in doubled

(* While the key of a minute lives no second request for the mobile gets   *)
(* past it, whatever became of the first, unless both looked it up before  *)
(* either set it (mobile_reach_rate_limit).                                *)
OneTextPerLimit == \A m \in Mobile : passed[m] <= 1 \/ m \in rushed
=============================================================================
