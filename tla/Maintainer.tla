------------------------------ MODULE Maintainer ------------------------------
(***************************************************************************)
(* The accounts of maintenance staff, each for one address or for all, and *)
(* what a login of theirs asks of them.  A request is the snapshot its     *)
(* checks are made in, then a transaction.                                 *)
(***************************************************************************)
EXTENDS Integers, FiniteSets

CONSTANTS Username, Address,
          All,                \* ALL_ADDRESS_ID
          None,
          Req,
          MaxStart            \* bound: requests accepted

VARIABLES maintainers,        \* rows of maintain: a function on the usernames taken
          sites,              \* the ids of address rows
          erased,             \* ids that are not given again
          req, started

rows == <<maintainers, sites, erased>>
vars == <<rows, req, started>>

Row == [address : Address \cup {All}, using : BOOLEAN]
Idle == [kind |-> "none", who |-> None, address |-> All,
         using |-> TRUE, was |-> TRUE]
Request == [kind : {"none", "new", "move", "state", "delete"}, who : Username \cup {None},
            address : Address \cup {All}, using : BOOLEAN, was : BOOLEAN]

TypeOK ==
    /\ DOMAIN maintainers \subseteq Username
    /\ maintainers \in [DOMAIN maintainers -> Row]
    /\ sites \subseteq Address
    /\ erased \subseteq Address \ sites
    /\ req \in [Req -> Request]
    /\ started \in 0..MaxStart

Init ==
    /\ maintainers = [u \in {} |-> Idle]
    /\ sites \in SUBSET Address
    /\ erased = {}
    /\ req = [r \in Req |-> Idle]
    /\ started = 0

(* A row inserted, unless there is one *)
Insert(f, x, row) == [y \in DOMAIN f \cup {x} |-> IF y \in DOMAIN f THEN f[y] ELSE row]

Begin(r, q) ==
    /\ req[r].kind = "none"
    /\ started < MaxStart
    /\ started' = started + 1
    /\ req' = [req EXCEPT ![r] = q]
    /\ UNCHANGED rows

Commit(r, kind, may, Change) ==
    /\ req[r].kind = kind
    /\ IF may THEN Change ELSE UNCHANGED maintainers
    /\ req' = [req EXCEPT ![r] = Idle]
    /\ UNCHANGED <<sites, erased, started>>

(* Mutation of Placed: the id is taken as it comes *)
Placed_any(a) == a

(* An id without an address stands for all of them *)
Placed(a) == IF a \in sites THEN a ELSE All
-----------------------------------------------------------------------------
(* create_maintain *)
AskNew(r, u, a) ==
    /\ u \notin DOMAIN maintainers
    /\ Begin(r, [Idle EXCEPT !.kind = "new", !.who = u, !.address = Placed(a)])

(* A username taken again is another row: rows are named by usernames here, *)
(* so it waits until no request has the old one in hand                    *)
InHand(r, u) == \E o \in Req \ {r} : req[o].kind # "new" /\ req[o].who = u

Create(r) ==
    LET q == req[r] IN
    /\ q.who \in DOMAIN maintainers \/ ~InHand(r, q.who)
    /\ Commit(r, "new", q.who \notin DOMAIN maintainers,
              maintainers' = Insert(maintainers, q.who,
                                     [address |-> q.address, using |-> TRUE]))

(* update_maintain: an UPDATE, committed at teardown.  Names and passwords *)
(* are left out                                                            *)
AskMove(r, u, a) ==
    Begin(r, [Idle EXCEPT !.kind = "move", !.who = u, !.address = Placed(a)])

Move(r) ==
    LET q == req[r] IN
    Commit(r, "move", q.who \in DOMAIN maintainers,
           maintainers' = [maintainers EXCEPT ![q.who].address = q.address])

(* state_maintain: save() writes a state the snapshot had otherwise *)
AskState(r, u, using) ==
    /\ u \in DOMAIN maintainers
    /\ Begin(r, [Idle EXCEPT !.kind = "state", !.who = u, !.using = using,
                             !.was = maintainers[u].using])

SetState(r) ==
    LET q == req[r] IN
    Commit(r, "state", q.who \in DOMAIN maintainers /\ q.using # q.was,
           maintainers' = [maintainers EXCEPT ![q.who].using = q.using])

(* delete_maintain, of one: the next of the list is another snapshot *)
AskDelete(r, u) ==
    /\ u \in DOMAIN maintainers
    /\ Begin(r, [Idle EXCEPT !.kind = "delete", !.who = u])

Delete(r) ==
    Commit(r, "delete", TRUE,
           maintainers' = [u \in DOMAIN maintainers \ {req[r].who} |-> maintainers[u]])

(* maintain_login at a device of address a, what it asks of the account: to *)
(* be in use, and for all addresses or for one that exists and is the       *)
(* device's.  (DeviceStatus has what it asks of the device.)                *)
MayServe(u, a) ==
    /\ u \in DOMAIN maintainers
    /\ maintainers[u].using
    /\ maintainers[u].address \in {All, a}

(* delete_address of an address without devices knows nothing of the       *)
(* maintainers (Fleet); new addresses get new ids                          *)
Erase(a) ==
    /\ a \in sites
    /\ sites' = sites \ {a}
    /\ erased' = erased \cup {a}
    /\ UNCHANGED <<maintainers, req, started>>

Found(a) ==
    /\ a \notin sites \cup erased
    /\ sites' = sites \cup {a}
    /\ UNCHANGED <<maintainers, erased, req, started>>

Ask(r) ==
    \E u \in Username :
        \/ AskDelete(r, u)
        \/ \E using \in BOOLEAN : AskState(r, u, using)
        \/ \E a \in Address : AskNew(r, u, a) \/ AskMove(r, u, a)

Next ==
    \/ \E r \in Req : \/ Ask(r) \/ Create(r) \/ Move(r) \/ SetState(r)
                      \/ Delete(r)
    \/ \E a \in Address : Erase(a) \/ Found(a)

Spec == Init /\ [][Next]_vars
-----------------------------------------------------------------------------
(* A maintainer in use is let in somewhere, unless the address he was given *)
(* was deleted since it was looked up, or before: whatever id the request   *)
(* named, and however it races the deletion (create, update_maintain; a     *)
(* maintainer is not told of the end of his address).                      *)
LetInSomewhere ==
    \A u \in DOMAIN maintainers :
        \/ maintainers[u].address \in erased
        \/ maintainers[u].using /\ sites # {} => \E a \in sites : MayServe(u, a)
=============================================================================
