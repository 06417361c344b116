----------------------------- MODULE AccessToken -----------------------------
(***************************************************************************)
(* The thread of the background process that keeps the access token of     *)
(* WeChat and the ticket of its pages in redis.  Time goes in ticks of 30  *)
(* seconds: what the thread sleeps, and what a request waits for the       *)
(* connection and then for the answer.                                     *)
(***************************************************************************)
EXTENDS Integers

CONSTANT Lifetime     \* expires_in of an answer, in ticks

Key == {"token", "ticket"}

Margin == 10          \* WX_CACHE_LAST_TIME, 300 seconds
SLEEP_TIME == 1
Timeout == 2
Round == 2 * Timeout + SLEEP_TIME    \* the longest way from a look to the next
Enough == 3           \* bound: rounds are counted up to it

LifetimeOK == Lifetime \in Nat /\ Lifetime > Margin

VARIABLES ttl,        \* ttl[k]: ticks before redis drops the key, 0 without it
          pc,         \* what the thread does
          waited,     \* for how many ticks
          bearer,     \* the ticket was asked for with a token
          held,       \* history: keys that have been set
          tried       \* history: tried[k]: rounds that met k due, since it was set

vars == <<ttl, pc, waited, bearer, held, tried>>

TypeOK ==
    /\ ttl \in [Key -> 0..Lifetime]
    /\ pc \in {"look", "ask", "lookTicket", "askTicket", "sleep"}
    /\ waited \in 0..Timeout
    /\ bearer \in BOOLEAN
    /\ held \subseteq Key
    /\ tried \in [Key -> 0..Enough]

Init ==
    /\ ttl = [k \in Key |-> 0]
    /\ pc = "look"
    /\ waited = 0
    /\ bearer = FALSE
    /\ held = {}
    /\ tried = [k \in Key |-> 0]

Goto(l) == pc' = l /\ waited' = 0

(* Mutation of Due: a key is renewed once it has gone *)
Due_gone(k) == ttl[k] = 0

Due(k) == ttl[k] <= Margin

Met(S) == tried' = [k \in Key |-> IF k \in S /\ Due(k) /\ tried[k] < Enough
                                    THEN tried[k] + 1 ELSE tried[k]]

(* setex *)
Renew(k) ==
    /\ ttl' = [ttl EXCEPT ![k] = Lifetime]
    /\ held' = held \cup {k}
    /\ tried' = [tried EXCEPT ![k] = 0]

Keep == UNCHANGED <<ttl, held>>
-----------------------------------------------------------------------------
LookAtToken ==
    /\ pc = "look"
    /\ Goto(IF Due("token") THEN "ask" ELSE "lookTicket")
    /\ Met({"token"})
    /\ Keep /\ UNCHANGED bearer

(* update_access_token: without a good answer in time the thread goes on *)
TokenAnswered ==
    /\ pc = "ask"
    /\ Renew("token")
    /\ Goto("lookTicket")
    /\ UNCHANGED bearer

TokenFails ==
    /\ pc = "ask"
    /\ Goto("lookTicket")
    /\ Keep /\ UNCHANGED <<bearer, tried>>

LookAtTicket ==
    /\ pc = "lookTicket"
    /\ Goto(IF Due("ticket") THEN "askTicket" ELSE "sleep")
    /\ Met({"ticket"})
    /\ bearer' = (ttl["token"] > 0)
    /\ Keep

(* update_ticket: WeChat refuses "None" for a token *)
TicketAnswered ==
    /\ pc = "askTicket"
    /\ bearer
    /\ Renew("ticket")
    /\ Goto("sleep")
    /\ UNCHANGED bearer

TicketFails ==
    /\ pc = "askTicket"
    /\ Goto("sleep")
    /\ Keep /\ UNCHANGED <<bearer, tried>>

(* redis is out of reach at a look: the exception ends the round *)
RedisFails ==
    /\ pc \in {"look", "lookTicket"}
    /\ Goto("sleep")
    /\ Met(IF pc = "look" THEN Key ELSE {"ticket"})
    /\ Keep /\ UNCHANGED bearer

Wake ==
    /\ pc = "sleep"
    /\ waited = SLEEP_TIME
    /\ Goto("look")
    /\ Keep /\ UNCHANGED <<bearer, tried>>

Patience == IF pc = "sleep" THEN SLEEP_TIME
            ELSE IF pc \in {"ask", "askTicket"} THEN Timeout ELSE 0

Tick ==
    /\ waited < Patience
    /\ waited' = waited + 1
    /\ ttl' = [k \in Key |-> IF ttl[k] = 0 THEN 0 ELSE ttl[k] - 1]
    /\ UNCHANGED <<pc, bearer, held, tried>>

Next ==
    \/ LookAtToken \/ TokenAnswered \/ TokenFails
    \/ LookAtTicket \/ TicketAnswered \/ TicketFails
    \/ RedisFails \/ Wake \/ Tick

Spec == Init /\ [][Next]_vars
-----------------------------------------------------------------------------
(* A key that has been set is gone from redis only after two rounds met it *)
(* due and did not renew it, the slowest rounds included: 300 seconds of   *)
(* margin are two rounds of a sleep and two requests that time out         *)
(* (access_token_thread, WX_CACHE_LAST_TIME).                              *)
LapsesAfterTwoTries ==
    \A k \in Key : k \in held /\ ttl[k] = 0 => tried[k] >= Margin \div Round
=============================================================================
