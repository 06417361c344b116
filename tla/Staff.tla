-------------------------------- MODULE Staff --------------------------------
(***************************************************************************)
(* Administrators and their roles.  Every handler behind login_required    *)
(* loads the administrator who signed in, and with that SELECT opens the   *)
(* snapshot its checks are made in: a request is that snapshot, then a     *)
(* transaction.                                                            *)
(***************************************************************************)
EXTENDS Integers, FiniteSets

CONSTANTS Admin,            \* usernames
          Founder,          \* SUPER_USER of manage.py
          NoAdmin,
          RoleId,           \* ids a role may get, 1 for the first
          Name, SuperAdmin, \* names of roles
          NoRole,
          Req,
          MaxStart          \* bound: requests accepted

StaffOK == /\ Founder \in Admin /\ SuperAdmin \in Name
           /\ 1 \in RoleId /\ NoRole \notin RoleId

VARIABLES admins,           \* rows of admin: a function on the usernames taken
          roles,            \* rows of role: a function on ids, to names
          lastRole,         \* the last id given
          signed,           \* who has a session
          req, started,
          overtaken,        \* history: who wrote was no superadmin in use by then
          unseated,         \* history: the role of superadmin was renamed or deleted
          evaded            \* history: somebody acted on its own account all the same

rows == <<admins, roles, lastRole>>
history == <<overtaken, unseated, evaded>>
vars == <<rows, signed, req, started, history>>

Kind == {"state", "delete", "new", "role", "rename", "unrole"}
AdminRow == [role : RoleId \cup {NoRole}, using : BOOLEAN]

(* by: the author; who, role, name, using: what is asked; text: the id of  *)
(* who came as a string; led: who had the role in the snapshot; was: the   *)
(* state seen                                                              *)
Idle == [kind |-> "none", by |-> NoAdmin, who |-> NoAdmin, role |-> NoRole,
         name |-> SuperAdmin, using |-> TRUE, was |-> TRUE, led |-> {},
         text |-> FALSE]
Request == [kind : Kind \cup {"none"}, by : Admin \cup {NoAdmin},
            who : Admin \cup {NoAdmin}, role : RoleId \cup {NoRole}, name : Name,
            using : BOOLEAN, was : BOOLEAN, led : SUBSET Admin, text : BOOLEAN]

TypeOK ==
    /\ DOMAIN admins \subseteq Admin
    /\ admins \in [DOMAIN admins -> AdminRow]
    /\ DOMAIN roles \subseteq RoleId
    /\ roles \in [DOMAIN roles -> Name]
    /\ lastRole \in Nat
    /\ signed \subseteq Admin
    /\ req \in [Req -> Request]
    /\ started \in 0..MaxStart
    /\ overtaken \in BOOLEAN
    /\ unseated \in BOOLEAN
    /\ evaded \in BOOLEAN

(* After syncdb: the role of superadmin and the founder *)
Init ==
    /\ admins = [a \in {Founder} |-> [role |-> 1, using |-> TRUE]]
    /\ roles = [id \in {1} |-> SuperAdmin]
    /\ lastRole = 1
    /\ signed = {}
    /\ req = [r \in Req |-> Idle]
    /\ started = 0
    /\ overtaken = FALSE
    /\ unseated = FALSE
    /\ evaded = FALSE

RoleOf(a) == admins[a].role
Leads(a) == /\ a \in DOMAIN admins
            /\ RoleOf(a) \in DOMAIN roles
            /\ roles[RoleOf(a)] = SuperAdmin

(* A row inserted, unless there is one *)
Insert(f, x, row) == [y \in DOMAIN f \cup {x} |-> IF y \in DOMAIN f THEN f[y] ELSE row]
Without(f, x) == [y \in DOMAIN f \ {x} |-> f[y]]
-----------------------------------------------------------------------------
(* login: refused to administrators not in use *)
SignIn(a) ==
    /\ a \in DOMAIN admins \ signed
    /\ admins[a].using
    /\ signed' = signed \cup {a}
    /\ UNCHANGED <<rows, req, started, history>>

(* load_user asks for the row of who signed in, not for its state.  A      *)
(* request refused by its checks changes nothing and is left out           *)
Begin(r, q) ==
    /\ req[r].kind = "none"
    /\ q.by \in signed \cap DOMAIN admins
    /\ started < MaxStart
    /\ started' = started + 1
    /\ req' = [req EXCEPT ![r] = q]
    /\ UNCHANGED <<rows, signed, history>>

(* Mutation of NotOneself: an administrator may act on its own account *)
NotOneself_free(a, b, text) == b \in DOMAIN admins

(* The id of the author is a number and the one of the JSON is what it is:  *)
(* no string equals a number, while MySQL finds the row of either           *)
NotOneself(a, b, text) == b \in DOMAIN admins /\ (a # b \/ text)

(* update.  Names of administrators are left out *)
AskState(r, a, b, using, text) ==
    /\ Leads(a)
    /\ NotOneself(a, b, text)
    /\ Begin(r, [Idle EXCEPT !.kind = "state", !.by = a, !.who = b, !.using = using,
                             !.was = admins[b].using, !.text = text])

AskDelete(r, a, b, text) ==
    /\ Leads(a)
    /\ NotOneself(a, b, text)
    /\ Begin(r, [Idle EXCEPT !.kind = "delete", !.by = a, !.who = b, !.text = text])

(* new_admin: whether the role exists is left to the database *)
AskNew(r, a, b, id) ==
    /\ Leads(a)
    /\ b \notin DOMAIN admins
    /\ Begin(r, [Idle EXCEPT !.kind = "new", !.by = a, !.who = b, !.role = id])

(* add_role, edit_role and delete_role ask no role of their author *)
AskRole(r, a, name) ==
    /\ \A id \in DOMAIN roles : roles[id] # name
    /\ Begin(r, [Idle EXCEPT !.kind = "role", !.by = a, !.name = name])

AskRename(r, a, id, name) ==
    /\ id \in DOMAIN roles
    /\ \A other \in DOMAIN roles : roles[other] # name
    /\ Begin(r, [Idle EXCEPT !.kind = "rename", !.by = a, !.role = id, !.name = name])

AskUnrole(r, a, id) ==
    /\ id \in DOMAIN roles
    /\ Begin(r, [Idle EXCEPT !.kind = "unrole", !.by = a, !.role = id,
                             !.led = {b \in DOMAIN admins : RoleOf(b) = id}])
-----------------------------------------------------------------------------
(* The transactions.  MySQL keeps usernames and names of roles unique, and  *)
(* a role that an administrator has; SQLAlchemy fails on an UPDATE that     *)
(* finds no row.  What is refused changes nothing.                         *)
Write(r, kind, may, Change) ==
    /\ req[r].kind = kind
    /\ IF may THEN Change ELSE UNCHANGED rows
    /\ req' = [req EXCEPT ![r] = Idle]
    /\ signed' = signed \cap DOMAIN admins'
    /\ UNCHANGED started

(* History of an administrator who is disabled, enabled or deleted *)
Acts(r) ==
    LET a == req[r].by IN
    /\ overtaken' = (overtaken \/ (admins' # admins /\ ~(Leads(a) /\ admins[a].using)))
    /\ evaded' = (evaded \/ (admins' # admins /\ req[r].text /\ req[r].who = a))
    /\ UNCHANGED unseated

(* save() writes a state only where the snapshot had another *)
SetState(r) ==
    LET q == req[r] IN
    /\ Write(r, "state", q.who \in DOMAIN admins,
             /\ admins' = IF q.using = q.was THEN admins
                          ELSE [admins EXCEPT ![q.who].using = q.using]
             /\ UNCHANGED <<roles, lastRole>>)
    /\ Acts(r)

(* A DELETE that finds no row is only warned of.  Sessions name rows by id: *)
(* that of a deleted administrator is over                                 *)
DeleteAdmin(r) ==
    /\ Write(r, "delete", TRUE,
             /\ admins' = Without(admins, req[r].who)
             /\ UNCHANGED <<roles, lastRole>>)
    /\ Acts(r)

(* A username taken again is another row: rows are named by usernames here, *)
(* so it waits until no request has the old one in hand                    *)
InHand(r, b) == \E o \in Req \ {r} : /\ req[o].kind # "new"
                                     /\ b \in req[o].led \cup {req[o].by, req[o].who}

InsertAdmin(r) ==
    LET q == req[r] IN
    /\ q.who \in DOMAIN admins \/ ~InHand(r, q.who)
    /\ Write(r, "new", q.who \notin DOMAIN admins /\ q.role \in DOMAIN roles,
             /\ admins' = Insert(admins, q.who, [role |-> q.role, using |-> TRUE])
             /\ UNCHANGED <<roles, lastRole>>)
    /\ UNCHANGED history

Taken(name) == \E id \in DOMAIN roles : roles[id] = name

InsertRole(r) ==
    /\ lastRole + 1 \in RoleId
    /\ Write(r, "role", ~Taken(req[r].name),
             /\ roles' = Insert(roles, lastRole + 1, req[r].name)
             /\ lastRole' = lastRole + 1
             /\ UNCHANGED admins)
    /\ UNCHANGED history

(* History of a role that is changed *)
Touches(r) ==
    LET id == req[r].role IN
    /\ unseated' = (unseated \/ (roles' # roles /\ roles[id] = SuperAdmin))
    /\ UNCHANGED <<overtaken, evaded>>

RenameRole(r) ==
    LET q == req[r] IN
    /\ Write(r, "rename", q.role \in DOMAIN roles /\ ~Taken(q.name),
             roles' = [roles EXCEPT ![q.role] = q.name] /\ UNCHANGED <<admins, lastRole>>)
    /\ Touches(r)

(* The administrators of the snapshot lose the role first; one that is     *)
(* gone, or another that has it, fails the transaction                     *)
DeleteRole(r) ==
    LET q == req[r]
        others == {b \in DOMAIN admins : RoleOf(b) = q.role} \ q.led IN
    /\ Write(r, "unrole", q.led \subseteq DOMAIN admins /\ others = {},
             /\ admins' = [b \in DOMAIN admins |-> IF b \in q.led
                               THEN [admins[b] EXCEPT !.role = NoRole] ELSE admins[b]]
             /\ roles' = Without(roles, q.role)
             /\ UNCHANGED lastRole)
    /\ Touches(r)

(* manage.py syncdb, with the server stopped: it makes the role and the    *)
(* founder where they are missing                                          *)
SyncDb ==
    LET id == IF Taken(SuperAdmin) THEN CHOOSE i \in DOMAIN roles : roles[i] = SuperAdmin
              ELSE lastRole + 1 IN
    /\ \A r \in Req : req[r] = Idle
    /\ id \in RoleId
    /\ ~Taken(SuperAdmin) \/ Founder \notin DOMAIN admins
    /\ roles' = Insert(roles, id, SuperAdmin)
    /\ lastRole' = IF id > lastRole THEN id ELSE lastRole
    /\ admins' = Insert(admins, Founder, [role |-> id, using |-> TRUE])
    /\ UNCHANGED <<signed, req, started, history>>

(* An id as a string makes a difference only where it is one's own *)
Ask(r) ==
    \E a \in Admin :
        \/ \E b \in Admin :
              \/ \E text \in {FALSE, a = b} :
                    \/ AskDelete(r, a, b, text)
                    \/ \E using \in BOOLEAN : AskState(r, a, b, using, text)
              \/ \E id \in RoleId : AskNew(r, a, b, id)
        \/ \E name \in Name : AskRole(r, a, name) \/ \E id \in RoleId : AskRename(r, a, id, name)
        \/ \E id \in RoleId : AskUnrole(r, a, id)

Commit(r) == \/ SetState(r) \/ DeleteAdmin(r) \/ InsertAdmin(r)
             \/ InsertRole(r) \/ RenameRole(r) \/ DeleteRole(r)

Next ==
    \/ \E a \in Admin : SignIn(a)
    \/ \E r \in Req : Ask(r) \/ Commit(r)
    \/ SyncDb

Spec == Init /\ [][Next]_vars
-----------------------------------------------------------------------------
(* There is always a superadmin in use to administer the others, whatever   *)
(* they do to each other, as long as each of them still was one when its   *)
(* transaction was committed and nobody touched the role itself (update and*)
(* delete_admin refuse only one's own account), and nobody got round that  *)
(* with an id that is a string.                                            *)
SuperRemains ==
    overtaken \/ unseated \/ evaded \/ \E a \in DOMAIN admins : Leads(a) /\ admins[a].using
=============================================================================
