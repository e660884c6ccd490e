------------------------------ MODULE RowStore ------------------------------
(***************************************************************************)
(* What the row endpoints of a datatable promise their callers: every      *)
(* create, update and delete that is pending is served in one step, and    *)
(* the status it answers says what that step has found                     *)
(* (docs/spec-notes/architect.md).  No existence check, no SELECT and no   *)
(* other statement is in sight.                                            *)
(*                                                                         *)
(* An update and a delete of one row that are pending together may be      *)
(* served in either order.  When the delete is served, the update is late: *)
(* it may answer as if it had been first.                                  *)
(***************************************************************************)
CONSTANTS Requests, Tables, Keys, Bodies, NoRow

None == [op |-> "none"]

Create == [op: {"create"}, table: Tables, key: Keys, body: Bodies]
Update == [op: {"update"}, table: Tables, key: Keys, body: Bodies, late: {FALSE}]
Delete == [op: {"delete"}, table: Tables, key: Keys]

VARIABLES
  tables,  \* datatables that exist
  rows,    \* rows[d][k] is a body or NoRow
  call     \* call[r]: None, a pending operation, or its answer

vars == <<tables, rows, call>>

NoRows == [k \in Keys |-> NoRow]

Init ==
  /\ tables = {}
  /\ rows = [d \in Tables |-> NoRows]
  /\ call = [r \in Requests |-> None]

Row(r) == rows[call[r].table][call[r].key]

\* The answer of request r.
Answer(r, status) == [call EXCEPT ![r] = [op |-> "answered", status |-> status]]

\* The calls when the cells in gone are emptied.
Late(gone) ==
  [r \in Requests |->
     IF /\ call[r].op = "update"
        /\ <<call[r].table, call[r].key>> \in gone
        /\ Row(r) # NoRow
       THEN [call[r] EXCEPT !.late = TRUE] ELSE call[r]]

AddTable(d) ==
  /\ tables' = tables \cup {d}
  /\ UNCHANGED <<rows, call>>

\* A datatable goes with its rows.
DropTable(d) ==
  /\ tables' = tables \ {d}
  /\ rows' = [rows EXCEPT ![d] = NoRows]
  /\ call' = Late({d} \X Keys)

\* A datatable that is not there is answered 404 at once.
Ask(r, operation) ==
  /\ call[r] = None
  /\ operation.table \in tables
  /\ call' = [call EXCEPT ![r] = operation]
  /\ UNCHANGED <<tables, rows>>

Reject(r) ==
  /\ call[r].op \in {"create", "update"}
  /\ call' = Answer(r, 400)
  /\ UNCHANGED <<tables, rows>>

Created(r) ==
  /\ call[r].op = "create"
  /\ call[r].table \in tables
  /\ Row(r) = NoRow
  /\ rows' = [rows EXCEPT ![call[r].table][call[r].key] = call[r].body]
  /\ call' = Answer(r, 201)
  /\ UNCHANGED tables

Taken(r) ==
  /\ call[r].op = "create"
  /\ Row(r) # NoRow
  /\ call' = Answer(r, 409)
  /\ UNCHANGED <<tables, rows>>

\* The datatable has gone while the create was pending.
Orphaned(r) ==
  /\ call[r].op = "create"
  /\ call[r].table \notin tables
  /\ call' = Answer(r, 500)
  /\ UNCHANGED <<tables, rows>>

Updated(r) ==
  /\ call[r].op = "update"
  /\ Row(r) # NoRow
  /\ rows' = [rows EXCEPT ![call[r].table][call[r].key] = call[r].body]
  /\ call' = Answer(r, 200)
  /\ UNCHANGED tables

UpdatedBefore(r) ==
  /\ call[r].op = "update"
  /\ call[r].late
  /\ call' = Answer(r, 200)
  /\ UNCHANGED <<tables, rows>>

Deleted(r) ==
  /\ call[r].op = "delete"
  /\ Row(r) # NoRow
  /\ rows' = [rows EXCEPT ![call[r].table][call[r].key] = NoRow]
  /\ call' = [Late({<<call[r].table, call[r].key>>}) EXCEPT
                ![r] = [op |-> "answered", status |-> 204]]
  /\ UNCHANGED tables

Missing(r) ==
  /\ call[r].op \in {"update", "delete"}
  /\ Row(r) = NoRow
  /\ call' = Answer(r, 404)
  /\ UNCHANGED <<tables, rows>>

Return(r) ==
  /\ call[r].op = "answered"
  /\ call' = [call EXCEPT ![r] = None]
  /\ UNCHANGED <<tables, rows>>

(***************************************************************************)
(* A reset empties the datatables and later the rows.                      *)
(***************************************************************************)
ResetBegin(r) ==
  /\ call[r] = None
  /\ call' = [call EXCEPT ![r] = [op |-> "reset"]]
  /\ UNCHANGED <<tables, rows>>

ResetTables(r) ==
  /\ call[r].op = "reset"
  /\ tables' = {}
  /\ rows' = [d \in Tables |-> NoRows]
  /\ call' = [Late(Tables \X Keys) EXCEPT ![r] = [op |-> "sweep"]]

ResetRows(r) ==
  /\ call[r].op = "sweep"
  /\ rows' = [d \in Tables |-> NoRows]
  /\ call' = [Late(Tables \X Keys) EXCEPT ![r] = None]
  /\ UNCHANGED tables

Next ==
  \/ \E d \in Tables : AddTable(d) \/ DropTable(d)
  \/ \E r \in Requests :
       \/ \E operation \in Create \cup Update \cup Delete : Ask(r, operation)
       \/ Reject(r)
       \/ Created(r) \/ Taken(r) \/ Orphaned(r)
       \/ Updated(r) \/ UpdatedBefore(r)
       \/ Deleted(r) \/ Missing(r)
       \/ Return(r)
       \/ ResetBegin(r) \/ ResetTables(r) \/ ResetRows(r)

Spec == Init /\ [][Next]_vars
=============================================================================
