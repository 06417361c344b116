------------------------------ MODULE ChargeMode ------------------------------
(***************************************************************************)
(* The rates devices are charged at.  A handler checks in one snapshot and *)
(* sets attributes as it goes; what it has set is written when it commits, *)
(* and also when it refuses: the session is committed at teardown          *)
(* (SQLALCHEMY_COMMIT_ON_TEARDOWN).                                        *)
(***************************************************************************)
EXTENDS Integers, FiniteSets

CONSTANTS ChargeId, Name, Price,
          Device, None,
          Req,
          MaxStart           \* bound: requests accepted

VARIABLES charges,           \* rows of charge: a function on ids
          chargeOf,          \* chargeOf[d]: charge_id of a deployed device
          req, started

rows == <<charges, chargeOf>>
vars == <<rows, req, started>>

Charge == [name : Name, charge_mode : Price]

(* set: the attributes set on the row; devices: those of the snapshot *)
Idle == [kind |-> "none", id |-> None, device |-> None, name |-> None, charge_mode |-> None,
         set |-> {}, devices |-> {}, refused |-> FALSE]
Request == [kind : {"none", "new", "update", "delete", "deploy"},
            id : ChargeId \cup {None}, device : Device \cup {None},
            name : Name \cup {None}, charge_mode : Price \cup {None}, set : SUBSET {"name", "charge_mode"},
            devices : SUBSET Device, refused : BOOLEAN]

TypeOK ==
    /\ DOMAIN charges \subseteq ChargeId
    /\ charges \in [DOMAIN charges -> Charge]
    /\ DOMAIN chargeOf \subseteq Device
    /\ chargeOf \in [DOMAIN chargeOf -> ChargeId \cup {None}]
    /\ req \in [Req -> Request]
    /\ started \in 0..MaxStart

Init ==
    /\ charges = [c \in {} |-> Idle]
    /\ chargeOf = [d \in {} |-> None]
    /\ req = [r \in Req |-> Idle]
    /\ started = 0

(* A row inserted, unless there is one *)
Insert(f, x, row) == [y \in DOMAIN f \cup {x} |-> IF y \in DOMAIN f THEN f[y] ELSE row]

Named(name) == {c \in DOMAIN charges : charges[c].name = name}

Begin(r, q) ==
    /\ req[r].kind = "none"
    /\ started < MaxStart
    /\ started' = started + 1
    /\ req' = [req EXCEPT ![r] = q]
    /\ UNCHANGED rows

(* A transaction that MySQL refuses changes nothing *)
Commit(r, kind, may, Change) ==
    /\ req[r].kind = kind
    /\ IF may THEN Change ELSE UNCHANGED rows
    /\ req' = [req EXCEPT ![r] = Idle]
    /\ UNCHANGED started
-----------------------------------------------------------------------------
(* new_charge, find_by_name.  The id is one that nobody has in hand *)
AskNew(r, c, name, price) ==
    /\ Named(name) = {}
    /\ c \notin DOMAIN charges
    /\ \A o \in Req : req[o].kind # "none" => req[o].id # c
    /\ Begin(r, [Idle EXCEPT !.kind = "new", !.id = c, !.name = name, !.charge_mode = price])

Create(r) ==
    LET q == req[r] IN
    Commit(r, "new", Named(q.name) = {},
           /\ charges' = Insert(charges, q.id, [name |-> q.name, charge_mode |-> q.charge_mode])
           /\ UNCHANGED chargeOf)

(* Mutation of Assigned: the rate is set before the name is looked up *)
Assigned_rateFirst(taken, priced) ==
    IF ~priced THEN {} ELSE IF taken THEN {"charge_mode"} ELSE {"name", "charge_mode"}

(* The attributes set by the time update_charges commits or refuses: it    *)
(* refuses a name that another rate has before it sets anything, and a     *)
(* rate that is no positive number after it has set the name               *)
Assigned(taken, priced) ==
    IF taken THEN {} ELSE IF priced THEN {"name", "charge_mode"} ELSE {"name"}

(* update_charges: SQLAlchemy writes the attributes that differ from those *)
(* of the snapshot.  A request without a name is refused first and left out*)
AskUpdate(r, c, name, price, priced) ==
    LET taken == Named(name) \ {c} # {}
        row == [name |-> name, charge_mode |-> price]
        changed == {f \in DOMAIN row : row[f] # charges[c][f]} IN
    /\ c \in DOMAIN charges
    /\ Begin(r, [Idle EXCEPT !.kind = "update", !.id = c, !.name = name, !.charge_mode = price,
                             !.set = changed \cap Assigned(taken, priced),
                             !.refused = taken \/ ~priced])

Update(r) ==
    LET q == req[r] IN
    Commit(r, "update",
           q.id \in DOMAIN charges /\ ("name" \in q.set => Named(q.name) \subseteq {q.id}),
           /\ charges' = [charges EXCEPT ![q.id] =
                              [name |-> IF "name" \in q.set THEN q.name ELSE @.name,
                               charge_mode |-> IF "charge_mode" \in q.set THEN q.charge_mode
                                               ELSE @.charge_mode]]
           /\ UNCHANGED chargeOf)

(* delete_charges, of one rate: the next of the list is another snapshot.  *)
(* The devices of the snapshot lose the rate; another that has it fails    *)
(* the transaction                                                         *)
AskDelete(r, c) ==
    /\ c \in DOMAIN charges
    /\ Begin(r, [Idle EXCEPT !.kind = "delete", !.id = c,
                             !.devices = {d \in DOMAIN chargeOf : chargeOf[d] = c}])

Delete(r) ==
    LET q == req[r] IN
    Commit(r, "delete", {d \in DOMAIN chargeOf : chargeOf[d] = q.id} \subseteq q.devices,
           /\ charges' = [c \in DOMAIN charges \ {q.id} |-> charges[c]]
           /\ chargeOf' = [d \in DOMAIN chargeOf |->
                               IF d \in q.devices THEN None ELSE chargeOf[d]])

(* deploy_device of a new device; the foreign key needs the rate *)
AskDeploy(r, d, c) ==
    /\ c \in DOMAIN charges
    /\ d \notin DOMAIN chargeOf
    /\ Begin(r, [Idle EXCEPT !.kind = "deploy", !.id = c, !.device = d])

Deploy(r) ==
    LET q == req[r] IN
    Commit(r, "deploy", q.id \in DOMAIN charges /\ q.device \notin DOMAIN chargeOf,
           /\ chargeOf' = Insert(chargeOf, q.device, q.id)
           /\ UNCHANGED charges)

Ask(r) ==
    \E c \in ChargeId :
        \/ AskDelete(r, c)
        \/ \E d \in Device : AskDeploy(r, d, c)
        \/ \E name \in Name, price \in Price :
              \/ AskNew(r, c, name, price)
              \/ \E priced \in BOOLEAN : AskUpdate(r, c, name, price, priced)

Next == \E r \in Req : Ask(r) \/ Create(r) \/ Update(r) \/ Delete(r) \/ Deploy(r)

Spec == Init /\ [][Next]_vars
-----------------------------------------------------------------------------
PriceOf(c) == charges[c].charge_mode

(* A request that is refused never changes what players pay, though it may *)
(* rename the rate: the teardown commits what update_charges had set when  *)
(* it gave up.                                                             *)
RefusedKeepsPrice ==
    [][\A c \in DOMAIN charges \cap DOMAIN charges' :
           PriceOf(c)' # PriceOf(c) =>
               \E r \in Req : req[r].kind = "update" /\ ~req[r].refused /\ req'[r] # req[r]]_vars
=============================================================================
