--------------------------- MODULE DatatableRows ---------------------------
(***************************************************************************)
(* Datatables and their rows (handlers/architect_datatable.go), statement  *)
(* by statement, with the part of Repository.Reset and of the state dump   *)
(* (handlers/admin.go) that reads or clears the two tables.                *)
(*                                                                         *)
(* Rows are keyed by datatable and row key, with a foreign key to the      *)
(* datatable and ON DELETE CASCADE.  A handler runs its statements one by  *)
(* one and nothing is held between them.  A request that the existence     *)
(* check refuses is no step; the status of the others is kept until the    *)
(* client has it, and RowStore says what it means.                         *)
(***************************************************************************)
EXTENDS Paging, FiniteSets

CONSTANTS
  Requests,  \* goroutines serving requests at the same time
  Tables,    \* datatable ids newID() may hand out
  Keys,      \* row keys, in the order of ORDER BY row_id
  Bodies,    \* bodies of a row
  NoRow      \* what stands for a row that does not exist

ASSUME KeysAssumption == Keys \subseteq Nat /\ IsFiniteSet(Keys)
ASSUME NoRowAssumption == NoRow \notin Bodies

VARIABLES
  tables,  \* ids in architect_datatables
  issued,  \* datatable ids newID() has handed out
  rows,    \* architect_datatable_rows: rows[d][k] is a body or NoRow
  req      \* the request each goroutine is serving

vars == <<tables, issued, rows, req>>

NoRows == [k \in Keys |-> NoRow]

Idle == [pc |-> "idle"]

\* A request on one row; the pc is its next statement.  overtaken (history) is
\* set when the row of an update that has begun is deleted.
RowRequest == [pc: {"insert", "select", "update"}, table: Tables, key: Keys,
               body: Bodies, overtaken: BOOLEAN]
DeleteRequest == [pc: {"delete"}, table: Tables, key: Keys]
ListRequest == [pc: {"list"}, table: Tables]
Answered == [pc: {"answered"}, status: {200, 201, 204, 400, 404, 409, 500}]

\* A state dump between its reads of the two tables, and before its answer.
\* known (history) is issued at its first read.
Dump == [pc: {"dumpRows", "dumpAnswer"}, known: SUBSET Tables,
         tables: SUBSET Tables, grid: SUBSET (Tables \X Keys)]

\* A reset before each of its two DELETE FROMs.
Reset == [pc: {"reset0", "reset1"}]

TypeOK ==
  /\ tables \subseteq Tables
  /\ issued \subseteq Tables
  /\ rows \in [Tables -> [Keys -> Bodies \cup {NoRow}]]
  /\ req \in [Requests -> RowRequest \cup DeleteRequest \cup ListRequest
                          \cup Answered \cup Dump \cup Reset \cup {Idle}]

Init ==
  /\ tables = {}
  /\ issued = {}
  /\ rows = [d \in Tables |-> NoRows]
  /\ req = [r \in Requests |-> Idle]

\* Operators whose comment begins with Mutant are never used by the
\* specification: each is one bug in the definition below it.

\* Mutant: the fields of an answered request are left behind.
DoneKeepingFields(r) == req' = [req EXCEPT ![r].pc = "idle"]

Done(r) == req' = [req EXCEPT ![r] = Idle]

Answer(r, status) == req' = [req EXCEPT ![r] = [pc |-> "answered", status |-> status]]

\* What is left of the requests when the rows <<d, k>> in gone are deleted.
Overtake(gone) ==
  [r \in Requests |->
     IF /\ req[r].pc \in {"select", "update"}
        /\ <<req[r].table, req[r].key>> \in gone
        /\ rows[req[r].table][req[r].key] # NoRow
       THEN [req[r] EXCEPT !.overtaken = TRUE] ELSE req[r]]

(***************************************************************************)
(* Datatables.                                                             *)
(***************************************************************************)
\* Mutant: the id of a deleted datatable may be given out again.
DatatableCreateReusingId(d) ==
  /\ d \notin tables
  /\ tables' = tables \cup {d}
  /\ issued' = issued \cup {d}
  /\ UNCHANGED <<rows, req>>

DatatableCreate(d) ==
  /\ d \notin issued
  /\ tables' = tables \cup {d}
  /\ issued' = issued \cup {d}
  /\ UNCHANGED <<rows, req>>

\* Mutant: the schema lacks ON DELETE CASCADE.
DropAlone(gone) ==
  /\ tables' = tables \ gone
  /\ UNCHANGED <<issued, rows>>

\* DELETE FROM architect_datatables for the tables in gone, and the cascade.
Drop(gone) ==
  /\ tables' = tables \ gone
  /\ rows' = [d \in Tables |-> IF d \in gone THEN NoRows ELSE rows[d]]
  /\ UNCHANGED issued

DatatableDelete(d) ==
  /\ d \in tables
  /\ Drop({d})
  /\ req' = Overtake({d} \X Keys)

(***************************************************************************)
(* Rows.  A request on a row starts with requireDatatableExists; GET of    *)
(* one row is a single SELECT and no step.                                 *)
(***************************************************************************)
Start(r, d, request) ==
  /\ req[r] = Idle
  /\ d \in tables
  /\ req' = [req EXCEPT ![r] = request]
  /\ UNCHANGED <<tables, issued, rows>>

RowCreateStart(r, d, k, b) ==
  Start(r, d, [pc |-> "insert", table |-> d, key |-> k, body |-> b, overtaken |-> FALSE])
RowUpdateStart(r, d, k, b) ==
  Start(r, d, [pc |-> "select", table |-> d, key |-> k, body |-> b, overtaken |-> FALSE])
RowDeleteStart(r, d, k) == Start(r, d, [pc |-> "delete", table |-> d, key |-> k])
ListStart(r, d) == Start(r, d, [pc |-> "list", table |-> d])

\* The body of a create or of an update turns out malformed.
Reject(r) ==
  /\ req[r].pc \in {"insert", "select"}
  /\ Answer(r, 400)
  /\ UNCHANGED <<tables, issued, rows>>

RowInsert(r) ==
  LET d == req[r].table
      k == req[r].key
  IN /\ req[r].pc = "insert"
     /\ d \in tables
     /\ rows[d][k] = NoRow
     /\ rows' = [rows EXCEPT ![d][k] = req[r].body]
     /\ Answer(r, 201)
     /\ UNCHANGED <<tables, issued>>

\* 409 for a key that is taken, 500 for a datatable that has gone.
RowInsertFails(r) ==
  /\ req[r].pc = "insert"
  /\ \/ rows[req[r].table][req[r].key] # NoRow /\ Answer(r, 409)
     \/ req[r].table \notin tables /\ Answer(r, 500)
  /\ UNCHANGED <<tables, issued, rows>>

\* Mutant: the update goes ahead whether or not there is such a row.
RowSelectSkipped(r) ==
  /\ req[r].pc = "select"
  /\ req' = [req EXCEPT ![r].pc = "update"]
  /\ UNCHANGED <<tables, issued, rows>>

RowSelect(r) ==
  /\ req[r].pc = "select"
  /\ IF rows[req[r].table][req[r].key] = NoRow
       THEN Answer(r, 404)
       ELSE req' = [req EXCEPT ![r].pc = "update"]
  /\ UNCHANGED <<tables, issued, rows>>

\* UPDATE, and 200 whatever it has found.
RowUpdate(r) ==
  LET d == req[r].table
      k == req[r].key
  IN /\ req[r].pc = "update"
     /\ rows' = [rows EXCEPT ![d][k] = IF @ = NoRow THEN NoRow ELSE req[r].body]
     /\ Answer(r, 200)
     /\ UNCHANGED <<tables, issued>>

\* DELETE and 204, or 404 when it has found nothing.
RowDelete(r) ==
  LET d == req[r].table
      k == req[r].key
  IN /\ req[r].pc = "delete"
     /\ IF rows[d][k] = NoRow
          THEN Answer(r, 404) /\ UNCHANGED rows
          ELSE /\ rows' = [rows EXCEPT ![d][k] = NoRow]
               /\ req' = [Overtake({<<d, k>>}) EXCEPT
                            ![r] = [pc |-> "answered", status |-> 204]]
     /\ UNCHANGED <<tables, issued>>

Return(r) ==
  /\ req[r].pc = "answered"
  /\ Done(r)
  /\ UNCHANGED <<tables, issued, rows>>

\* The rows of a datatable in the order of their keys.
Listing(d) ==
  LET live == {k \in Keys : rows[d][k] # NoRow}
      Place(k) == Cardinality({j \in live : j <= k})
  IN [n \in 1..Cardinality(live) |-> CHOOSE k \in live : Place(k) = n]

\* SELECT ... ORDER BY row_id; PagedList of Listing is the answer.
ListRead(r) ==
  /\ req[r].pc = "list"
  /\ Done(r)
  /\ UNCHANGED <<tables, issued, rows>>

(***************************************************************************)
(* GET /mock/state: the datatables first, the rows in a later statement.   *)
(***************************************************************************)
Grid == {dk \in Tables \X Keys : rows[dk[1]][dk[2]] # NoRow}

DumpTables(r) ==
  /\ req[r] = Idle
  /\ req' = [req EXCEPT ![r] = [pc |-> "dumpRows", known |-> issued,
                                tables |-> tables, grid |-> {}]]
  /\ UNCHANGED <<tables, issued, rows>>

DumpRows(r) ==
  /\ req[r].pc = "dumpRows"
  /\ req' = [req EXCEPT ![r] = [pc |-> "dumpAnswer", known |-> req[r].known,
                                tables |-> req[r].tables, grid |-> Grid]]
  /\ UNCHANGED <<tables, issued, rows>>

DumpAnswer(r) ==
  /\ req[r].pc = "dumpAnswer"
  /\ Done(r)
  /\ UNCHANGED <<tables, issued, rows>>

(***************************************************************************)
(* Repository.Reset: architect_datatables, and later                       *)
(* architect_datatable_rows, which the cascade has emptied; a row of a     *)
(* datatable created in between goes with the second statement.            *)
(***************************************************************************)
ResetStart(r) ==
  /\ req[r] = Idle
  /\ req' = [req EXCEPT ![r] = [pc |-> "reset0"]]
  /\ UNCHANGED <<tables, issued, rows>>

ResetTables(r) ==
  /\ req[r].pc = "reset0"
  /\ Drop(tables)
  /\ req' = [Overtake(Tables \X Keys) EXCEPT ![r] = [pc |-> "reset1"]]

ResetRows(r) ==
  /\ req[r].pc = "reset1"
  /\ rows' = [d \in Tables |-> NoRows]
  /\ req' = [Overtake(Tables \X Keys) EXCEPT ![r] = Idle]
  /\ UNCHANGED <<tables, issued>>

Next ==
  \/ \E d \in Tables : DatatableCreate(d) \/ DatatableDelete(d)
  \/ \E r \in Requests :
       \/ \E d \in Tables, k \in Keys, b \in Bodies :
            RowCreateStart(r, d, k, b) \/ RowUpdateStart(r, d, k, b)
       \/ \E d \in Tables, k \in Keys : RowDeleteStart(r, d, k)
       \/ Reject(r)
       \/ RowInsert(r) \/ RowInsertFails(r)
       \/ RowSelect(r) \/ RowUpdate(r) \/ RowDelete(r)
       \/ Return(r)
       \/ \E d \in Tables : ListStart(r, d)
       \/ ListRead(r)
       \/ DumpTables(r) \/ DumpRows(r) \/ DumpAnswer(r)
       \/ ResetStart(r) \/ ResetTables(r) \/ ResetRows(r)

Spec == Init /\ [][Next]_vars

(***************************************************************************)
(* Safety.                                                                 *)
(***************************************************************************)

\* Rows belong to datatables that exist, whatever is deleted or reset between
\* the existence check of a request and its statement ("deleting a datatable
\* purges its rows", docs/spec-notes/architect.md).
RowsHaveTable == \A d \in Tables \ tables : rows[d] = NoRows

\* A dumped row whose datatable the same dump lacks belongs to a datatable
\* younger than the dump, never to one that was deleted before: the parents
\* are read first.
DumpOrphansAreNew ==
  \A r \in Requests : req[r].pc = "dumpAnswer" =>
    \A dk \in req[r].grid : dk[1] \in req[r].tables \/ dk[1] \notin req[r].known

\* Reading the pages of the rows of any datatable, with any page size that is
\* asked for, gives each row once and in order.
PagesTile == \A d \in tables, size \in 0..IntMax : Tiles(Listing(d), size)

(***************************************************************************)
(* Refinement of RowStore.                                                 *)
(***************************************************************************)
\* The operation that a request is, for its caller.
AbstractCall(q) ==
  CASE q.pc = "insert" ->
         [op |-> "create", table |-> q.table, key |-> q.key, body |-> q.body]
    [] q.pc \in {"select", "update"} ->
         [op |-> "update", table |-> q.table, key |-> q.key, body |-> q.body,
          late |-> q.overtaken]
    [] q.pc = "delete" -> [op |-> "delete", table |-> q.table, key |-> q.key]
    [] q.pc = "answered" -> [op |-> "answered", status |-> q.status]
    [] q.pc = "reset0" -> [op |-> "reset"]
    [] q.pc = "reset1" -> [op |-> "sweep"]
    [] OTHER -> [op |-> "none"]

AbstractCalls == [r \in Requests |-> AbstractCall(req[r])]

Store == INSTANCE RowStore WITH call <- AbstractCalls

\* The statements of the handlers, in whatever order those of several requests
\* and resets come, are seen by the callers as operations that take effect one
\* at a time: of two creates of a key one is 409, a 404 has found no row, and an
\* update answered 200 has changed its row unless a delete overtook it.
ImplementsRowStore == Store!Spec
=============================================================================
