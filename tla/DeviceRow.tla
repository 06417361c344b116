------------------------------ MODULE DeviceRow ------------------------------
(***************************************************************************)
(* The row of table device, as every handler reaches it.  MySQL runs at    *)
(* REPEATABLE READ: a handler keeps seeing the row it read first, an       *)
(* UPDATE works on the newest committed row and holds it until its         *)
(* transaction ends, and nobody else sees the new row before the commit.   *)
(***************************************************************************)
EXTENDS Naturals

CONSTANTS Device,        \* device ids
          Req,           \* requests being served (worker threads)
          NoReq          \* not a request

ASSUME ReqAssumption == NoReq \notin Req

VARIABLES row,           \* row[d]: the committed row
          dirty          \* dirty[d]: who holds the row, and its uncommitted value

rowVars == <<row, dirty>>

DeviceState == {"free", "busy", "lock", "maintain"}
UpdateState == {"wait", "ing", "finish", "check"}

Row == [state : DeviceState, ver : Nat, upd : UpdateState]
NoRow == [state |-> "none", ver |-> 0, upd |-> "none"]    \* deleted
Clean == [by |-> NoReq, row |-> NoRow]

RowTypeOK ==
    /\ row \in [Device -> Row \cup {NoRow}]
    /\ dirty \in [Device -> [by : Req \cup {NoReq}, row : Row \cup {NoRow}]]

(* a deployed device: the column defaults *)
NewRow == [state |-> "free", ver |-> 0, upd |-> "finish"]

RowInit ==
    /\ row = [d \in Device |-> NewRow]
    /\ dirty = [d \in Device |-> Clean]

(* InnoDB lets p at the row when nobody else's transaction has written it *)
CanWrite(p, d) == dirty[d].by \in {p, NoReq}

(* What an UPDATE of the holder works on *)
Latest(d) == IF dirty[d].by = NoReq THEN row[d] ELSE dirty[d].row

Put(p, d, r) == dirty' = [dirty EXCEPT ![d] = [by |-> p, row |-> r]]

(* UPDATE device SET state, state_version + 1 WHERE id AND state_version: *)
(* rowcount is 0 when the row is gone or the version moved on             *)
VersionMatches(d, ver) == Latest(d) # NoRow /\ Latest(d).ver = ver

(* Mutation of UpdateStatus: the version is not compared *)
UpdateStatus_unversioned(p, d, ver, s) ==
    /\ Latest(d) # NoRow
    /\ Put(p, d, [Latest(d) EXCEPT !.state = s, !.ver = @ + 1])

UpdateStatus(p, d, ver, s) ==
    /\ VersionMatches(d, ver)
    /\ Put(p, d, [Latest(d) EXCEPT !.state = s, !.ver = @ + 1])

(* Mutation of UpdateUpdateState: a deleted row is written all the same *)
UpdateUpdateState_always(p, d, u) == Put(p, d, [Latest(d) EXCEPT !.upd = u])

(* UPDATE device SET update_state WHERE id *)
UpdateUpdateState(p, d, u) ==
    /\ Latest(d) # NoRow
    /\ Put(p, d, [Latest(d) EXCEPT !.upd = u])

(* session.commit(), or the commit Flask-SQLAlchemy issues at teardown *)
Commit(p) ==
    /\ row' = [d \in Device |-> IF dirty[d].by = p THEN dirty[d].row ELSE row[d]]
    /\ dirty' = [d \in Device |-> IF dirty[d].by = p THEN Clean ELSE dirty[d]]

(* session.rollback(), or the death of the worker *)
Rollback(p) ==
    /\ dirty' = [d \in Device |-> IF dirty[d].by = p THEN Clean ELSE dirty[d]]
    /\ UNCHANGED row
=============================================================================
