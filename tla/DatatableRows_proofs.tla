------------------------ MODULE DatatableRows_proofs ------------------------
(***************************************************************************)
(* Proofs about DatatableRows and the paging of its lists, for any number  *)
(* of requests, datatables and keys and any size of int.                   *)
(***************************************************************************)
EXTENDS DatatableRows, FiniteSetTheorems, TLAPS

(***************************************************************************)
(* The inductive invariant.                                                *)
(***************************************************************************)
\* Nothing is known of a datatable before newID() hands its id out.
TablesIssued == tables \subseteq issued

\* An update past its SELECT has a row to write unless it was overtaken.
UpdatesHaveRow ==
  \A r \in Requests : req[r].pc = "update" /\ ~req[r].overtaken =>
    rows[req[r].table][req[r].key] # NoRow

\* A dump has seen every datatable that was issued before it and is still
\* there: ids are not handed out twice.
Dumping == {"dumpRows", "dumpAnswer"}
DumpsSeeOldTables ==
  \A r \in Requests : req[r].pc \in Dumping =>
    /\ req[r].known \subseteq issued
    /\ tables \cap req[r].known \subseteq req[r].tables

IInv ==
  /\ TypeOK
  /\ TablesIssued
  /\ RowsHaveTable
  /\ UpdatesHaveRow
  /\ DumpsSeeOldTables
  /\ DumpOrphansAreNew

(***************************************************************************)
(* Type correctness.                                                       *)
(***************************************************************************)
Request == RowRequest \cup DeleteRequest \cup ListRequest \cup Answered \cup Dump
           \cup Reset \cup {Idle}
Body == Bodies \cup {NoRow}
Updating == {"select", "update"}
Statuses == {200, 201, 204, 400, 404, 409, 500}

\* What a request holds, by its pc.
LEMMA RequestType ==
  ASSUME TypeOK, NEW r \in Requests
  PROVE  /\ req[r].pc \in {"insert"} \cup Updating => req[r] \in RowRequest
         /\ req[r].pc = "delete" => req[r] \in DeleteRequest
         /\ req[r].pc = "list" => req[r] \in ListRequest
         /\ req[r].pc = "answered" => req[r] \in Answered
         /\ req[r].pc \in Dumping => req[r] \in Dump
BY DEF TypeOK, RowRequest, DeleteRequest, ListRequest, Answered, Dump, Reset, Idle, Dumping,
       Updating

\* Overtaking changes requests in one field only.
LEMMA OvertakeType ==
  ASSUME TypeOK, NEW gone
  PROVE  /\ Overtake(gone) \in [Requests -> Request]
         /\ \A r \in Requests :
              /\ Overtake(gone)[r].pc = req[r].pc
              /\ req[r].pc \notin Updating => Overtake(gone)[r] = req[r]
              /\ req[r].pc \in Updating =>
                   /\ Overtake(gone)[r].table = req[r].table
                   /\ Overtake(gone)[r].key = req[r].key
                   /\ ~Overtake(gone)[r].overtaken =>
                        /\ ~req[r].overtaken
                        /\ \/ <<req[r].table, req[r].key>> \notin gone
                           \/ rows[req[r].table][req[r].key] = NoRow
<1>1. ASSUME NEW r \in Requests
      PROVE  /\ Overtake(gone)[r] \in Request
             /\ Overtake(gone)[r].pc = req[r].pc
             /\ req[r].pc \notin Updating => Overtake(gone)[r] = req[r]
             /\ req[r].pc \in Updating =>
                  /\ Overtake(gone)[r].table = req[r].table
                  /\ Overtake(gone)[r].key = req[r].key
                  /\ ~Overtake(gone)[r].overtaken =>
                       /\ ~req[r].overtaken
                       /\ \/ <<req[r].table, req[r].key>> \notin gone
                          \/ rows[req[r].table][req[r].key] = NoRow
  <2>1. CASE req[r].pc \in Updating
    <3>1. req[r] \in RowRequest
      BY <2>1, RequestType
    <3> QED BY <2>1, <3>1 DEF Overtake, RowRequest, Request, Updating
  <2>2. CASE req[r].pc \notin Updating
    BY <2>2 DEF Overtake, TypeOK, Request, Updating
  <2> QED BY <2>1, <2>2
<1> QED BY <1>1 DEF Overtake

\* The statements on datatables keep the rows in their type.
LEMMA DropType ==
  ASSUME TypeOK, NEW gone, Drop(gone)
  PROVE  /\ tables' \subseteq Tables /\ issued' \subseteq Tables
         /\ rows' \in [Tables -> [Keys -> Body]]
BY DEF TypeOK, Drop, NoRows, Body

\* A statement that writes one cell.
LEMMA WriteType ==
  ASSUME TypeOK, NEW d \in Tables, NEW k \in Keys, NEW b \in Body,
         rows' = [rows EXCEPT ![d][k] = b], UNCHANGED <<tables, issued>>
  PROVE  /\ tables' \subseteq Tables /\ issued' \subseteq Tables
         /\ rows' \in [Tables -> [Keys -> Body]]
BY DEF TypeOK, Body

\* Every step keeps every variable in its type.
LEMMA TypeStep == TypeOK /\ [Next]_vars => TypeOK'
<1> SUFFICES ASSUME TypeOK, [Next]_vars PROVE TypeOK'
  OBVIOUS
<1> DEFINE Types ==
      /\ tables' \subseteq Tables /\ issued' \subseteq Tables
      /\ rows' \in [Tables -> [Keys -> Body]]
<1>1. UNCHANGED <<tables, issued, rows>> => Types
  BY DEF TypeOK, Body
<1>2. Types /\ req' \in [Requests -> Request] => TypeOK'
  BY DEF TypeOK, Body, Request
<1>3. ASSUME NEW r \in Requests, NEW new \in Request, req' = [req EXCEPT ![r] = new]
      PROVE  req' \in [Requests -> Request]
  BY <1>3 DEF TypeOK, Request
<1>4. Idle \in Request
  BY DEF Request
<1>5. ASSUME NEW r \in Requests, Done(r) PROVE req' \in [Requests -> Request]
  BY <1>3, <1>4, <1>5 DEF Done
<1>a. ASSUME NEW status \in Statuses PROVE [pc |-> "answered", status |-> status] \in Request
  BY DEF Request, Answered, Statuses
<1>b. ASSUME NEW r \in Requests, NEW status \in Statuses, Answer(r, status)
      PROVE  req' \in [Requests -> Request]
  BY <1>3, <1>a, <1>b DEF Answer
<1> HIDE DEF Types
<1>6. ASSUME NEW d \in Tables, DatatableCreate(d) PROVE TypeOK'
  BY <1>6 DEF DatatableCreate, TypeOK
<1>7. ASSUME NEW d \in Tables, DatatableDelete(d) PROVE TypeOK'
  <2>1. Types
    BY <1>7, DropType DEF DatatableDelete, Types
  <2> QED BY <1>2, <1>7, <2>1, OvertakeType DEF DatatableDelete
<1>8. ASSUME NEW r \in Requests, NEW d \in Tables, NEW new \in Request, Start(r, d, new)
      PROVE  TypeOK'
  BY <1>1, <1>2, <1>3, <1>8 DEF Start
<1>9. ASSUME NEW r \in Requests, NEW d \in Tables, NEW k \in Keys, NEW b \in Bodies,
             RowCreateStart(r, d, k, b) \/ RowUpdateStart(r, d, k, b)
      PROVE  TypeOK'
  <2>1. ASSUME NEW pc \in {"insert", "select"}
        PROVE  [pc |-> pc, table |-> d, key |-> k, body |-> b, overtaken |-> FALSE] \in Request
    BY DEF Request, RowRequest
  <2> QED BY <1>8, <1>9, <2>1 DEF RowCreateStart, RowUpdateStart
<1>10. ASSUME NEW r \in Requests, NEW d \in Tables, NEW k \in Keys, RowDeleteStart(r, d, k)
       PROVE  TypeOK'
  <2>1. [pc |-> "delete", table |-> d, key |-> k] \in Request
    BY DEF Request, DeleteRequest
  <2> QED BY <1>8, <1>10, <2>1 DEF RowDeleteStart
<1>11. ASSUME NEW r \in Requests, NEW d \in Tables, ListStart(r, d) PROVE TypeOK'
  <2>1. [pc |-> "list", table |-> d] \in Request
    BY DEF Request, ListRequest
  <2> QED BY <1>8, <1>11, <2>1 DEF ListStart
<1>12. ASSUME NEW r \in Requests, ListRead(r) \/ DumpAnswer(r) \/ Return(r) PROVE TypeOK'
  BY <1>1, <1>2, <1>5, <1>12 DEF ListRead, DumpAnswer, Return
<1>c. ASSUME NEW r \in Requests, Reject(r) \/ RowInsertFails(r) PROVE TypeOK'
  <2>1. \E status \in Statuses : Answer(r, status)
    BY <1>c DEF Reject, RowInsertFails, Statuses
  <2> QED BY <1>1, <1>2, <1>b, <1>c, <2>1 DEF Reject, RowInsertFails
<1>13. ASSUME NEW r \in Requests, RowInsert(r) PROVE TypeOK'
  <2>1. req[r].table \in Tables /\ req[r].key \in Keys /\ req[r].body \in Body
    BY <1>13, RequestType DEF RowInsert, RowRequest, Body
  <2>2. Types
    BY <1>13, <2>1, WriteType DEF RowInsert, Types
  <2> QED BY <1>2, <1>b, <1>13, <2>2 DEF RowInsert, Statuses
<1>14. ASSUME NEW r \in Requests, RowSelect(r) PROVE TypeOK'
  <2>1. [req[r] EXCEPT !.pc = "update"] \in Request
    BY <1>14, RequestType DEF RowSelect, RowRequest, Request, Updating
  <2>2. req' = [req EXCEPT ![r] = [req[r] EXCEPT !.pc = "update"]] \/ Answer(r, 404)
    BY <1>14 DEF RowSelect
  <2> QED BY <1>1, <1>2, <1>3, <1>b, <1>14, <2>1, <2>2 DEF RowSelect, Statuses
<1>15. ASSUME NEW r \in Requests, RowUpdate(r) PROVE TypeOK'
  <2> DEFINE d == req[r].table
             k == req[r].key
             b == IF rows[d][k] = NoRow THEN NoRow ELSE req[r].body
  <2>1. d \in Tables /\ k \in Keys /\ b \in Body
    BY <1>15, RequestType DEF RowUpdate, RowRequest, Body, Updating
  <2>2. rows' = [rows EXCEPT ![d][k] = b] /\ UNCHANGED <<tables, issued>>
    BY <1>15 DEF RowUpdate
  <2> HIDE DEF d, k, b
  <2>3. Types
    BY <2>1, <2>2, WriteType DEF Types
  <2> QED BY <1>2, <1>b, <1>15, <2>3 DEF RowUpdate, Statuses
<1>16. ASSUME NEW r \in Requests, RowDelete(r) PROVE TypeOK'
  <2> DEFINE d == req[r].table
             k == req[r].key
  <2>1. d \in Tables /\ k \in Keys
    BY <1>16, RequestType DEF RowDelete, DeleteRequest
  <2>2. CASE rows[d][k] = NoRow
    BY <1>1, <1>2, <1>b, <1>16, <2>2 DEF RowDelete, Statuses
  <2>3. CASE rows[d][k] # NoRow
    <3>1. Types
      BY <1>16, <2>1, <2>3, WriteType DEF RowDelete, Types, Body
    <3>2. req' \in [Requests -> Request]
      BY <1>a, <1>16, <2>3, OvertakeType DEF RowDelete, Statuses
    <3> QED BY <1>2, <3>1, <3>2
  <2> QED BY <2>2, <2>3
<1>17. ASSUME NEW r \in Requests, DumpTables(r) \/ DumpRows(r) \/ ResetStart(r) PROVE TypeOK'
  <2>1. ASSUME NEW known \in SUBSET Tables, NEW seen \in SUBSET Tables,
               NEW grid \in SUBSET (Tables \X Keys), NEW pc \in Dumping
        PROVE  [pc |-> pc, known |-> known, tables |-> seen, grid |-> grid] \in Request
    BY DEF Request, Dump, Dumping
  <2>2. [pc |-> "reset0"] \in Request
    BY DEF Request, Reset
  <2>3. Grid \in SUBSET (Tables \X Keys)
    BY DEF Grid
  <2>4. DumpRows(r) => req[r].known \in SUBSET Tables /\ req[r].tables \in SUBSET Tables
    BY RequestType DEF DumpRows, Dump, Dumping
  <2>5. \E new \in Request : req' = [req EXCEPT ![r] = new]
    BY <1>17, <2>1, <2>2, <2>3, <2>4 DEF DumpTables, DumpRows, ResetStart, TypeOK, Dumping
  <2> QED BY <1>1, <1>2, <1>3, <1>17, <2>5 DEF DumpTables, DumpRows, ResetStart
<1>18. ASSUME NEW r \in Requests, ResetTables(r) PROVE TypeOK'
  <2>1. Types
    BY <1>18, DropType DEF ResetTables, Types
  <2>2. [pc |-> "reset1"] \in Request
    BY DEF Request, Reset
  <2> QED BY <1>2, <1>18, <2>1, <2>2, OvertakeType DEF ResetTables
<1>19. ASSUME NEW r \in Requests, ResetRows(r) PROVE TypeOK'
  <2>1. Types
    BY <1>19 DEF ResetRows, Types, TypeOK, NoRows, Body
  <2> QED BY <1>2, <1>4, <1>19, <2>1, OvertakeType DEF ResetRows
<1>20. CASE UNCHANGED vars
  BY <1>20 DEF vars, TypeOK
<1> QED
  BY <1>6, <1>7, <1>9, <1>10, <1>11, <1>12, <1>c, <1>13, <1>14, <1>15, <1>16, <1>17, <1>18,
     <1>19, <1>20
     DEF Next

\* Every variable keeps its type, whatever requests race.
THEOREM TypeCorrect == Spec => []TypeOK
<1>1. Init => TypeOK
  BY DEF Init, TypeOK, NoRows
<1> QED BY <1>1, TypeStep, PTL DEF Spec

(***************************************************************************)
(* Rows, cell by cell.                                                     *)
(***************************************************************************)
\* RowsHaveTable, for one datatable and key at a time.
CellsOK == \A d \in Tables, k \in Keys : d \notin tables => rows[d][k] = NoRow

LEMMA Cells == TypeOK => (CellsOK <=> RowsHaveTable)
<1> SUFFICES ASSUME TypeOK PROVE CellsOK <=> RowsHaveTable
  OBVIOUS
<1>1. ASSUME NEW d \in Tables PROVE rows[d] = NoRows <=> \A k \in Keys : rows[d][k] = NoRow
  BY DEF NoRows, TypeOK
<1> QED BY <1>1 DEF CellsOK, RowsHaveTable

\* The cells in gone are emptied and the others left alone.
Cleared(gone) ==
  \A d \in Tables, k \in Keys :
    rows'[d][k] = IF <<d, k>> \in gone THEN NoRow ELSE rows[d][k]

\* A step that empties cells overtakes every update that has selected one.
LEMMA ClearedStep ==
  ASSUME TypeOK, CellsOK, UpdatesHaveRow, NEW gone, NEW wider, gone \subseteq wider,
         Cleared(gone),
         \A d \in Tables, k \in Keys : d \in tables \ tables' => <<d, k>> \in gone,
         \A r \in Requests : req'[r].pc = "update" => req'[r] = Overtake(wider)[r]
  PROVE  CellsOK' /\ UpdatesHaveRow'
<1>1. CellsOK'
  BY DEF CellsOK, Cleared
<1>2. ASSUME NEW r \in Requests, req'[r].pc = "update", ~req'[r].overtaken
      PROVE  rows'[req'[r].table][req'[r].key] # NoRow
  <2>1. /\ req[r].pc = "update" /\ ~req[r].overtaken
        /\ req'[r].table = req[r].table /\ req'[r].key = req[r].key
        /\ \/ <<req[r].table, req[r].key>> \notin gone
           \/ rows[req[r].table][req[r].key] = NoRow
    BY <1>2, OvertakeType DEF Updating
  <2>2. rows[req[r].table][req[r].key] # NoRow
    BY <2>1 DEF UpdatesHaveRow
  <2>3. req[r].table \in Tables /\ req[r].key \in Keys
    BY <2>1, RequestType DEF RowRequest, Updating
  <2> QED BY <2>1, <2>2, <2>3 DEF Cleared
<1> QED BY <1>1, <1>2 DEF UpdatesHaveRow

\* A step that touches no cell, and starts no update without a row.
LEMMA QuietStep ==
  ASSUME TypeOK, CellsOK, UpdatesHaveRow, tables \subseteq tables', rows' = rows,
         \A r \in Requests : req'[r].pc = "update" =>
           \/ req'[r] = req[r]
           \/ rows[req'[r].table][req'[r].key] # NoRow
  PROVE  CellsOK' /\ UpdatesHaveRow'
BY DEF CellsOK, UpdatesHaveRow

\* A step that writes a body into one cell.
LEMMA WriteStep ==
  ASSUME TypeOK, CellsOK, UpdatesHaveRow,
         NEW d \in Tables, NEW k \in Keys, NEW b \in Bodies, d \in tables,
         tables' = tables,
         rows' = [rows EXCEPT ![d][k] = b],
         \A r \in Requests : req'[r].pc = "update" => req'[r] = req[r]
  PROVE  CellsOK' /\ UpdatesHaveRow'
<1>1. /\ rows'[d][k] = b /\ b # NoRow
      /\ \A e \in Tables, j \in Keys : e # d \/ j # k => rows'[e][j] = rows[e][j]
  BY NoRowAssumption DEF TypeOK
<1>2. CellsOK'
  BY <1>1 DEF CellsOK
<1>3. ASSUME NEW r \in Requests, req'[r].pc = "update", ~req'[r].overtaken
      PROVE  rows'[req'[r].table][req'[r].key] # NoRow
  BY <1>1, <1>3, RequestType DEF UpdatesHaveRow, RowRequest, Updating
<1> QED BY <1>2, <1>3 DEF UpdatesHaveRow

\* An UPDATE of a row that is not there changes nothing, and one of a row that
\* is there writes one cell.
LEMMA UpdateWrites ==
  ASSUME TypeOK, CellsOK, NEW r \in Requests, RowUpdate(r)
  PROVE  LET d == req[r].table
             k == req[r].key
         IN /\ d \in Tables /\ k \in Keys /\ req[r].body \in Bodies
            /\ rows[d][k] = NoRow => rows' = rows
            /\ rows[d][k] # NoRow => /\ d \in tables
                                     /\ rows' = [rows EXCEPT ![d][k] = req[r].body]
<1> DEFINE d == req[r].table
           k == req[r].key
           b == req[r].body
<1>1. d \in Tables /\ k \in Keys /\ b \in Bodies
  BY RequestType DEF RowUpdate, RowRequest, Updating
<1>2. rows' = [rows EXCEPT ![d][k] = IF rows[d][k] = NoRow THEN NoRow ELSE b]
  BY DEF RowUpdate
<1> HIDE DEF d, k, b
<1>3. CASE rows[d][k] = NoRow
  <2>1. rows' = [rows EXCEPT ![d][k] = NoRow]
    BY <1>2, <1>3
  <2>2. rows' = rows
    BY <1>1, <1>3, <2>1 DEF TypeOK
  <2> QED BY <1>1, <1>3, <2>2 DEF d, k, b
<1>4. CASE rows[d][k] # NoRow
  <2>1. rows' = [rows EXCEPT ![d][k] = b] /\ d \in tables
    BY <1>1, <1>2, <1>4 DEF CellsOK
  <2> QED BY <1>1, <1>4, <2>1 DEF d, k, b
<1> QED BY <1>3, <1>4

LEMMA CellsStep ==
  TypeOK /\ CellsOK /\ UpdatesHaveRow /\ [Next]_vars => CellsOK' /\ UpdatesHaveRow'
<1> SUFFICES ASSUME TypeOK, CellsOK, UpdatesHaveRow, [Next]_vars
             PROVE  CellsOK' /\ UpdatesHaveRow'
  OBVIOUS
<1>1. ASSUME NEW r \in Requests, NEW new, new.pc # "update", req' = [req EXCEPT ![r] = new]
      PROVE  \A q \in Requests : req'[q].pc = "update" => req'[q] = req[q]
  BY <1>1 DEF TypeOK
<1>2. ASSUME NEW r \in Requests, NEW status, Done(r) \/ Answer(r, status)
      PROVE  \A q \in Requests : req'[q].pc = "update" => req'[q] = req[q]
  BY <1>1, <1>2 DEF Done, Answer, Idle
<1>3. ASSUME NEW gone, NEW r \in Requests, NEW new, new.pc # "update",
             req' = [Overtake(gone) EXCEPT ![r] = new]
      PROVE  \A q \in Requests : req'[q].pc = "update" => req'[q] = Overtake(gone)[q]
  BY <1>3, OvertakeType
<1>4. ASSUME NEW d \in Tables, DatatableCreate(d) PROVE CellsOK' /\ UpdatesHaveRow'
  BY <1>4, QuietStep DEF DatatableCreate
<1>5. ASSUME NEW d \in Tables, DatatableDelete(d) PROVE CellsOK' /\ UpdatesHaveRow'
  <2>1. Cleared({d} \X Keys) /\ tables' = tables \ {d}
    BY <1>5 DEF DatatableDelete, Drop, Cleared, NoRows
  <2>2. req' = Overtake({d} \X Keys)
    BY <1>5 DEF DatatableDelete
  <2> QED BY <2>1, <2>2, ClearedStep
<1>6. ASSUME NEW r \in Requests, NEW d \in Tables, NEW k \in Keys, NEW b \in Bodies,
             RowCreateStart(r, d, k, b) \/ RowUpdateStart(r, d, k, b)
      PROVE  CellsOK' /\ UpdatesHaveRow'
  <2>1. /\ UNCHANGED <<tables, rows>>
        /\ \A q \in Requests : req'[q].pc = "update" => req'[q] = req[q]
    BY <1>1, <1>6 DEF RowCreateStart, RowUpdateStart, Start
  <2> QED BY <2>1, QuietStep
<1>7. ASSUME NEW r \in Requests, NEW d \in Tables, NEW k \in Keys, RowDeleteStart(r, d, k)
      PROVE  CellsOK' /\ UpdatesHaveRow'
  BY <1>1, <1>7, QuietStep DEF RowDeleteStart, Start
<1>8. ASSUME NEW r \in Requests, NEW d \in Tables, ListStart(r, d)
      PROVE  CellsOK' /\ UpdatesHaveRow'
  BY <1>1, <1>8, QuietStep DEF ListStart, Start
<1>9. ASSUME NEW r \in Requests,
             Reject(r) \/ RowInsertFails(r) \/ ListRead(r) \/ DumpAnswer(r) \/ Return(r)
      PROVE  CellsOK' /\ UpdatesHaveRow'
  BY <1>2, <1>9, QuietStep DEF Reject, RowInsertFails, ListRead, DumpAnswer, Return
<1>10. ASSUME NEW r \in Requests, DumpTables(r) \/ DumpRows(r) \/ ResetStart(r)
       PROVE  CellsOK' /\ UpdatesHaveRow'
  <2>1. /\ UNCHANGED <<tables, rows>>
        /\ \A q \in Requests : req'[q].pc = "update" => req'[q] = req[q]
    BY <1>1, <1>10 DEF DumpTables, DumpRows, ResetStart
  <2> QED BY <2>1, QuietStep
<1>11. ASSUME NEW r \in Requests, RowInsert(r) PROVE CellsOK' /\ UpdatesHaveRow'
  <2>1. req[r].table \in Tables /\ req[r].key \in Keys /\ req[r].body \in Bodies
    BY <1>11, RequestType DEF RowInsert, RowRequest
  <2>2. \A q \in Requests : req'[q].pc = "update" => req'[q] = req[q]
    BY <1>2, <1>11 DEF RowInsert
  <2> QED BY <1>11, <2>1, <2>2, WriteStep DEF RowInsert
<1>12. ASSUME NEW r \in Requests, RowSelect(r) PROVE CellsOK' /\ UpdatesHaveRow'
  <2>1. CASE rows[req[r].table][req[r].key] = NoRow
    BY <1>2, <1>12, <2>1, QuietStep DEF RowSelect
  <2>2. CASE rows[req[r].table][req[r].key] # NoRow
    <3>1. req[r] \in RowRequest
      BY <1>12, RequestType DEF RowSelect, Updating
    <3>2. /\ req'[r].table = req[r].table /\ req'[r].key = req[r].key
          /\ \A q \in Requests \ {r} : req'[q] = req[q]
      BY <1>12, <2>2, <3>1 DEF RowSelect, RowRequest, TypeOK
    <3> QED BY <1>12, <2>2, <3>2, QuietStep DEF RowSelect
  <2> QED BY <2>1, <2>2
<1>13. ASSUME NEW r \in Requests, RowUpdate(r) PROVE CellsOK' /\ UpdatesHaveRow'
  <2>1. \A q \in Requests : req'[q].pc = "update" => req'[q] = req[q]
    BY <1>2, <1>13 DEF RowUpdate
  <2>2. tables' = tables
    BY <1>13 DEF RowUpdate
  <2>3. CASE rows[req[r].table][req[r].key] = NoRow
    BY <1>13, <2>1, <2>2, <2>3, UpdateWrites, QuietStep
  <2>4. CASE rows[req[r].table][req[r].key] # NoRow
    <3> DEFINE d == req[r].table
               k == req[r].key
               b == req[r].body
    <3>1. /\ d \in Tables /\ k \in Keys /\ b \in Bodies /\ d \in tables
          /\ rows' = [rows EXCEPT ![d][k] = b]
      BY <1>13, <2>4, UpdateWrites
    <3> HIDE DEF d, k, b
    <3> QED BY <2>1, <2>2, <3>1, WriteStep
  <2> QED BY <2>3, <2>4
<1>14. ASSUME NEW r \in Requests, RowDelete(r) PROVE CellsOK' /\ UpdatesHaveRow'
  <2> DEFINE d == req[r].table
             k == req[r].key
             new == [pc |-> "answered", status |-> 204]
             gone == {<<d, k>>}
  <2>1. d \in Tables /\ k \in Keys
    BY <1>14, RequestType DEF RowDelete, DeleteRequest
  <2>2. CASE rows[d][k] = NoRow
    BY <1>2, <1>14, <2>2, QuietStep DEF RowDelete
  <2>3. CASE rows[d][k] # NoRow
    <3>1. /\ rows' = [rows EXCEPT ![d][k] = NoRow]
          /\ tables' = tables
          /\ req' = [Overtake(gone) EXCEPT ![r] = new]
      BY <1>14, <2>3 DEF RowDelete
    <3>2. new.pc # "update"
      OBVIOUS
    <3> HIDE DEF d, k, new
    <3>3. Cleared(gone)
      BY <2>1, <3>1 DEF TypeOK, Cleared
    <3> HIDE DEF gone
    <3>4. \A q \in Requests : req'[q].pc = "update" => req'[q] = Overtake(gone)[q]
      BY <1>3, <3>1, <3>2
    <3> QED BY <3>1, <3>3, <3>4, ClearedStep
  <2> QED BY <2>2, <2>3
<1>15. ASSUME NEW r \in Requests, ResetTables(r) PROVE CellsOK' /\ UpdatesHaveRow'
  <2>1. Cleared(tables \X Keys) /\ tables' = {} /\ tables \X Keys \subseteq Tables \X Keys
    BY <1>15 DEF ResetTables, Drop, Cleared, NoRows, TypeOK
  <2>2. \A q \in Requests : req'[q].pc = "update" => req'[q] = Overtake(Tables \X Keys)[q]
    BY <1>3, <1>15 DEF ResetTables
  <2> QED BY <2>1, <2>2, ClearedStep
<1>16. ASSUME NEW r \in Requests, ResetRows(r) PROVE CellsOK' /\ UpdatesHaveRow'
  <2>1. Cleared(Tables \X Keys) /\ tables' = tables
    BY <1>16 DEF ResetRows, Cleared, NoRows
  <2>2. \A q \in Requests : req'[q].pc = "update" => req'[q] = Overtake(Tables \X Keys)[q]
    BY <1>3, <1>16 DEF ResetRows, Idle
  <2> QED BY <2>1, <2>2, ClearedStep
<1>17. CASE UNCHANGED vars
  BY <1>17, QuietStep DEF vars
<1> QED
  BY <1>4, <1>5, <1>6, <1>7, <1>8, <1>9, <1>10, <1>11, <1>12, <1>13, <1>14, <1>15, <1>16,
     <1>17
     DEF Next

(***************************************************************************)
(* State dumps.                                                            *)
(***************************************************************************)
\* A step that leaves the dumps alone and creates only new datatables.
LEMMA DumpsKept ==
  ASSUME TypeOK, TablesIssued, DumpsSeeOldTables, DumpOrphansAreNew,
         \A q \in Requests : req'[q].pc \in Dumping => req'[q] = req[q],
         issued \subseteq issued', tables' \subseteq issued',
         tables' \cap issued \subseteq tables
  PROVE  TablesIssued' /\ DumpsSeeOldTables' /\ DumpOrphansAreNew'
BY DEF TablesIssued, DumpsSeeOldTables, DumpOrphansAreNew, Dumping

LEMMA OvertakeSparesDumps ==
  ASSUME TypeOK, NEW gone, NEW q \in Requests, Overtake(gone)[q].pc \in Dumping
  PROVE  Overtake(gone)[q] = req[q]
BY OvertakeType DEF Updating, Dumping

LEMMA DumpStep ==
  TypeOK /\ TablesIssued /\ CellsOK /\ DumpsSeeOldTables /\ DumpOrphansAreNew /\ [Next]_vars
    => TablesIssued' /\ DumpsSeeOldTables' /\ DumpOrphansAreNew'
<1> SUFFICES ASSUME TypeOK, TablesIssued, CellsOK, DumpsSeeOldTables, DumpOrphansAreNew,
                    [Next]_vars
             PROVE  TablesIssued' /\ DumpsSeeOldTables' /\ DumpOrphansAreNew'
  OBVIOUS
<1>1. ASSUME NEW r \in Requests, NEW new, new.pc \notin Dumping, req' = [req EXCEPT ![r] = new]
      PROVE  \A q \in Requests : req'[q].pc \in Dumping => req'[q] = req[q]
  BY <1>1 DEF TypeOK
<1>2. ASSUME NEW r \in Requests, NEW status, Done(r) \/ Answer(r, status)
      PROVE  \A q \in Requests : req'[q].pc \in Dumping => req'[q] = req[q]
  BY <1>1, <1>2 DEF Done, Answer, Idle, Dumping
<1>3. ASSUME NEW gone, NEW r \in Requests, NEW new, new.pc \notin Dumping,
             req' = [Overtake(gone) EXCEPT ![r] = new]
      PROVE  \A q \in Requests : req'[q].pc \in Dumping => req'[q] = req[q]
  <2>1. ASSUME NEW q \in Requests, req'[q].pc \in Dumping PROVE req'[q] = Overtake(gone)[q]
    BY <1>3, <2>1, OvertakeType
  <2> QED BY <2>1, OvertakeSparesDumps
<1>4. ASSUME NEW d \in Tables, DatatableCreate(d)
      PROVE  TablesIssued' /\ DumpsSeeOldTables' /\ DumpOrphansAreNew'
  BY <1>4, DumpsKept DEF DatatableCreate, TablesIssued
<1>5. ASSUME NEW d \in Tables, DatatableDelete(d)
      PROVE  TablesIssued' /\ DumpsSeeOldTables' /\ DumpOrphansAreNew'
  <2>1. \A q \in Requests : req'[q].pc \in Dumping => req'[q] = req[q]
    BY <1>5, OvertakeSparesDumps DEF DatatableDelete
  <2> QED BY <1>5, <2>1, DumpsKept DEF DatatableDelete, Drop, TablesIssued
<1>6. ASSUME NEW r \in Requests, UNCHANGED <<tables, issued>>,
             \A q \in Requests : req'[q].pc \in Dumping => req'[q] = req[q]
      PROVE  TablesIssued' /\ DumpsSeeOldTables' /\ DumpOrphansAreNew'
  BY <1>6, DumpsKept DEF TablesIssued
<1>7. ASSUME NEW r \in Requests, NEW d \in Tables, NEW new, new.pc \notin Dumping,
             Start(r, d, new)
      PROVE  TablesIssued' /\ DumpsSeeOldTables' /\ DumpOrphansAreNew'
  BY <1>1, <1>6, <1>7 DEF Start
<1>8. ASSUME NEW r \in Requests, NEW d \in Tables, NEW k \in Keys, NEW b \in Bodies,
             RowCreateStart(r, d, k, b) \/ RowUpdateStart(r, d, k, b)
      PROVE  TablesIssued' /\ DumpsSeeOldTables' /\ DumpOrphansAreNew'
  BY <1>7, <1>8 DEF RowCreateStart, RowUpdateStart, Dumping
<1>9. ASSUME NEW r \in Requests, NEW d \in Tables, NEW k \in Keys, RowDeleteStart(r, d, k)
      PROVE  TablesIssued' /\ DumpsSeeOldTables' /\ DumpOrphansAreNew'
  BY <1>7, <1>9 DEF RowDeleteStart, Dumping
<1>10. ASSUME NEW r \in Requests, NEW d \in Tables, ListStart(r, d)
       PROVE  TablesIssued' /\ DumpsSeeOldTables' /\ DumpOrphansAreNew'
  BY <1>7, <1>10 DEF ListStart, Dumping
<1>11. ASSUME NEW r \in Requests,
              Reject(r) \/ RowInsertFails(r) \/ ListRead(r) \/ DumpAnswer(r)
              \/ RowInsert(r) \/ RowUpdate(r) \/ Return(r)
       PROVE  TablesIssued' /\ DumpsSeeOldTables' /\ DumpOrphansAreNew'
  <2>1. UNCHANGED <<tables, issued>> /\ (Done(r) \/ \E status : Answer(r, status))
    BY <1>11
       DEF Reject, RowInsertFails, ListRead, DumpAnswer, RowInsert, RowUpdate, Return
  <2> QED BY <1>2, <1>6, <2>1
<1>12. ASSUME NEW r \in Requests, RowSelect(r)
       PROVE  TablesIssued' /\ DumpsSeeOldTables' /\ DumpOrphansAreNew'
  <2>1. CASE Answer(r, 404)
    BY <1>2, <1>6, <1>12, <2>1 DEF RowSelect
  <2>2. CASE req' = [req EXCEPT ![r].pc = "update"]
    <3>1. req[r] \in RowRequest
      BY <1>12, RequestType DEF RowSelect, Updating
    <3>2. req'[r].pc = "update" /\ \A q \in Requests \ {r} : req'[q] = req[q]
      BY <2>2, <3>1 DEF RowRequest, TypeOK
    <3> QED BY <1>6, <1>12, <3>2 DEF RowSelect, Dumping
  <2> QED BY <1>12, <2>1, <2>2 DEF RowSelect
<1>13. ASSUME NEW r \in Requests, RowDelete(r)
       PROVE  TablesIssued' /\ DumpsSeeOldTables' /\ DumpOrphansAreNew'
  <2> DEFINE gone == {<<req[r].table, req[r].key>>}
             new == [pc |-> "answered", status |-> 204]
  <2>1. CASE Answer(r, 404)
    BY <1>2, <1>6, <1>13, <2>1 DEF RowDelete
  <2>2. CASE req' = [Overtake(gone) EXCEPT ![r] = new]
    <3>1. new.pc \notin Dumping
      BY DEF Dumping
    <3>2. UNCHANGED <<tables, issued>>
      BY <1>13 DEF RowDelete
    <3> HIDE DEF gone, new
    <3> QED BY <1>3, <1>6, <2>2, <3>1, <3>2
  <2> QED BY <1>13, <2>1, <2>2 DEF RowDelete
<1>14. ASSUME NEW r \in Requests, DumpTables(r)
       PROVE  TablesIssued' /\ DumpsSeeOldTables' /\ DumpOrphansAreNew'
  <2>1. /\ req'[r] = [pc |-> "dumpRows", known |-> issued, tables |-> tables, grid |-> {}]
        /\ \A q \in Requests \ {r} : req'[q] = req[q]
        /\ UNCHANGED <<tables, issued>>
    BY <1>14 DEF DumpTables, TypeOK
  <2> QED BY <2>1 DEF TablesIssued, DumpsSeeOldTables, DumpOrphansAreNew, Dumping
<1>15. ASSUME NEW r \in Requests, DumpRows(r)
       PROVE  TablesIssued' /\ DumpsSeeOldTables' /\ DumpOrphansAreNew'
  <2>1. /\ req[r].pc = "dumpRows"
        /\ req'[r] = [pc |-> "dumpAnswer", known |-> req[r].known,
                      tables |-> req[r].tables, grid |-> Grid]
        /\ \A q \in Requests \ {r} : req'[q] = req[q]
        /\ UNCHANGED <<tables, issued>>
    BY <1>15 DEF DumpRows, TypeOK
  <2>2. \A dk \in Grid : dk[1] \in tables
    BY DEF Grid, CellsOK
  <2>3. \A dk \in Grid : dk[1] \in req[r].tables \/ dk[1] \notin req[r].known
    BY <2>1, <2>2 DEF DumpsSeeOldTables, Dumping
  <2> QED BY <2>1, <2>3 DEF TablesIssued, DumpsSeeOldTables, DumpOrphansAreNew, Dumping
<1>16. ASSUME NEW r \in Requests, ResetStart(r)
       PROVE  TablesIssued' /\ DumpsSeeOldTables' /\ DumpOrphansAreNew'
  BY <1>1, <1>6, <1>16 DEF ResetStart, Dumping
<1>17. ASSUME NEW r \in Requests, ResetTables(r)
       PROVE  TablesIssued' /\ DumpsSeeOldTables' /\ DumpOrphansAreNew'
  <2>1. \A q \in Requests : req'[q].pc \in Dumping => req'[q] = req[q]
    <3> DEFINE gone == Tables \X Keys
               new == [pc |-> "reset1"]
    <3>1. new.pc \notin Dumping
      BY DEF Dumping
    <3>2. req' = [Overtake(gone) EXCEPT ![r] = new]
      BY <1>17 DEF ResetTables
    <3> HIDE DEF gone, new
    <3> QED BY <1>3, <3>1, <3>2
  <2> QED BY <1>17, <2>1, DumpsKept DEF ResetTables, Drop, TablesIssued
<1>18. ASSUME NEW r \in Requests, ResetRows(r)
       PROVE  TablesIssued' /\ DumpsSeeOldTables' /\ DumpOrphansAreNew'
  <2>1. \A q \in Requests : req'[q].pc \in Dumping => req'[q] = req[q]
    <3> DEFINE gone == Tables \X Keys
    <3>1. Idle.pc \notin Dumping
      BY DEF Idle, Dumping
    <3>2. req' = [Overtake(gone) EXCEPT ![r] = Idle]
      BY <1>18 DEF ResetRows
    <3> HIDE DEF gone
    <3> QED BY <1>3, <3>1, <3>2
  <2> QED BY <1>6, <1>18, <2>1 DEF ResetRows
<1>19. CASE UNCHANGED vars
  BY <1>19, DumpsKept DEF vars, TablesIssued
<1> QED
  BY <1>4, <1>5, <1>8, <1>9, <1>10, <1>11, <1>12, <1>13, <1>14, <1>15, <1>16, <1>17,
     <1>18, <1>19
     DEF Next

(***************************************************************************)
(* Pages.                                                                  *)
(***************************************************************************)
LEMMA PageSizeType ==
  ASSUME NEW askedSize \in 0..IntMax
  PROVE  PageSize(askedSize) \in 1..MaxPageSize /\ PageSize(askedSize) \in Nat \ {0}
BY PagingAssumption DEF PageSize

\* What a product of naturals is: monotone, and one more factor is one more term.
LEMMA Products ==
  ASSUME NEW m \in Nat, NEW n \in Nat, NEW size \in Nat, m <= n
  PROVE  /\ m * size \in Nat /\ n * size \in Nat
         /\ m * size <= n * size
         /\ (m + 1) * size = m * size + size
<1>1. PICK j \in Nat : n = m + j
  <2>1. n - m \in Nat /\ n = m + (n - m)
    OBVIOUS
  <2> QED BY <2>1
<1>2. m * size \in Nat /\ j * size \in Nat
  OBVIOUS
<1>3. (m + j) * size = m * size + j * size
  OBVIOUS
<1>4. (m + 1) * size = m * size + size
  OBVIOUS
<1> QED BY <1>1, <1>2, <1>3, <1>4

\* The bounds of a page whose end an int can hold.
LEMMA BoundsOfPage ==
  ASSUME NEW total \in Nat, NEW number \in Nat \ {0}, NEW size \in Nat \ {0},
         number * size <= IntMax
  PROVE  LET from == (number - 1) * size
         IN /\ from \in Nat
            /\ number * size = from + size
            /\ Bounds(total, number, size) =
                 [start |-> IF from >= total THEN total ELSE from,
                  end   |-> IF from + size > total THEN total ELSE from + size]
<1> DEFINE from == (number - 1) * size
<1>1. number - 1 \in Nat /\ (number - 1) + 1 = number
  OBVIOUS
<1>2. from \in Nat /\ number * size = from + size
  BY <1>1, Products
<1> HIDE DEF from
<1>3. from <= IntMax /\ from + size <= IntMax /\ IntMax \in Nat
  BY <1>2, PagingAssumption
<1>4. Wrap(from) = from /\ Wrap(from + size) = from + size
  BY <1>2, <1>3 DEF Wrap
<1>5. Bounds(total, number, size) =
        [start |-> IF from >= total THEN total ELSE from,
         end   |-> IF from + size > total THEN total ELSE from + size]
  BY <1>4 DEF Bounds, from
<1> QED BY <1>2, <1>5 DEF from

\* How many pages there are: all but the last are full, the last has the rest.
LEMMA CountOfPages ==
  ASSUME NEW total \in Nat, NEW size \in Nat \ {0}
  PROVE  LET count == PageCount(total, size)
         IN /\ count \in Nat \ {0}
            /\ (count - 1) * size <= total
            /\ total <= count * size
<1> DEFINE q == total \div size
           m == total % size
<1>1. q \in Nat /\ m \in 0..(size - 1) /\ total = q * size + m
  OBVIOUS
<1>2. q * size \in Nat /\ (q + 1) * size = q * size + size
  BY <1>1, Products
<1>3. CASE m # 0 \/ total = 0
  <2>1. PageCount(total, size) = q + 1 /\ (q + 1) - 1 = q
    BY <1>1, <1>3 DEF PageCount
  <2> HIDE DEF q, m
  <2> QED BY <1>1, <1>2, <2>1
<1>4. CASE ~(m # 0 \/ total = 0)
  <2>1. PageCount(total, size) = q
    BY <1>4 DEF PageCount
  <2> HIDE DEF q, m
  <2>2. q # 0
    BY <1>1, <1>4
  <2>3. q - 1 \in Nat /\ (q - 1) + 1 = q
    BY <1>1, <2>2
  <2>4. (q - 1) * size \in Nat /\ q * size = (q - 1) * size + size
    BY <2>3, Products
  <2> QED BY <1>1, <1>2, <1>4, <2>1, <2>2, <2>4
<1> QED BY <1>3, <1>4

\* The entries of one page.
LEMMA PageEntries ==
  ASSUME NEW S, NEW entries \in Seq(S), NEW number \in 1..IntMax,
         NEW askedSize \in 0..IntMax, Fits(number, askedSize)
  PROVE  LET size == PageSize(askedSize)
             total == Len(entries)
             from == (number - 1) * size
             answer == PagedList(entries, number, askedSize)
         IN /\ answer.status = 200
            /\ answer.pageCount = PageCount(total, size)
            /\ Len(answer.entities) = (IF from + size > total THEN total ELSE from + size)
                                      - (IF from >= total THEN total ELSE from)
            /\ answer.entities \in Seq(S)
            /\ \A j \in 1..Len(answer.entities) : answer.entities[j] = entries[from + j]
<1> DEFINE size == PageSize(askedSize)
           total == Len(entries)
           from == (number - 1) * size
           first == IF from >= total THEN total ELSE from
           last == IF from + size > total THEN total ELSE from + size
           b == [start |-> first, end |-> last]
<1>1. size \in Nat \ {0} /\ total \in Nat /\ number \in Nat \ {0}
  BY PageSizeType
<1>2. PageNumber(number) = number /\ number * size <= IntMax
  BY <1>1 DEF PageNumber, Fits
<1>3. from \in Nat /\ Bounds(total, number, size) = b
  <2> HIDE DEF size, total
  <2> QED BY <1>1, <1>2, BoundsOfPage
<1> HIDE DEF size, from
<1>4. first \in Nat /\ last \in Nat /\ first <= last /\ last <= total
  BY <1>1, <1>3
<1>5. PagedList(entries, number, askedSize) =
        [status |-> 200, entities |-> SubSeq(entries, first + 1, last),
         pageCount |-> PageCount(total, size)]
  BY <1>2, <1>3, <1>4 DEF PagedList, Sliceable, size
<1>6. Len(SubSeq(entries, first + 1, last)) = last - first
  BY <1>4
<1>7. ASSUME NEW j \in 1..(last - first)
      PROVE  SubSeq(entries, first + 1, last)[j] = entries[from + j]
  <2>1. from < total /\ first = from
    BY <1>1, <1>3, <1>4, <1>7
  <2>2. SubSeq(entries, first + 1, last)[j] = entries[first + j]
    BY <1>4, <1>7
  <2> QED BY <2>1, <2>2
<1>8. SubSeq(entries, first + 1, last) \in Seq(S)
  BY <1>4
<1> DEFINE answer == PagedList(entries, number, askedSize)
<1> HIDE DEF first, last, total
<1>9. /\ answer.status = 200
      /\ answer.entities = SubSeq(entries, first + 1, last)
      /\ answer.pageCount = PageCount(total, size)
  <2> DEFINE page == SubSeq(entries, first + 1, last)
             count == PageCount(total, size)
  <2>1. answer = [status |-> 200, entities |-> page, pageCount |-> count]
    BY <1>5
  <2> HIDE DEF answer, page, count
  <2>2. answer.status = 200 /\ answer.entities = page /\ answer.pageCount = count
    BY <2>1
  <2> QED BY <2>2 DEF page, count
<1> HIDE DEF answer
<1>10. /\ answer.status = 200
       /\ answer.pageCount = PageCount(total, size)
       /\ Len(answer.entities) = last - first
       /\ answer.entities \in Seq(S)
       /\ \A j \in 1..Len(answer.entities) : answer.entities[j] = entries[from + j]
  BY <1>6, <1>7, <1>8, <1>9
<1> QED BY <1>10 DEF size, from, answer, first, last, total

\* The pages of any list, of whatever size is asked for, tile it.
LEMMA PagesOfListTile ==
  ASSUME NEW S, NEW entries \in Seq(S), NEW askedSize \in 0..IntMax
  PROVE  Tiles(entries, askedSize)
<1> DEFINE size == PageSize(askedSize)
           total == Len(entries)
           count == PageCount(total, size)
<1> SUFFICES ASSUME NEW number \in 1..IntMax, Fits(number, askedSize)
             PROVE  LET answer == PagedList(entries, number, askedSize)
                    IN /\ answer.status = 200
                       /\ answer.pageCount = count
                       /\ number < count => Len(answer.entities) = size
                       /\ number = count => Len(answer.entities) = total - (count - 1) * size
                       /\ number > count => answer.entities = <<>>
                       /\ \A j \in 1..Len(answer.entities) :
                            answer.entities[j] = entries[(number - 1) * size + j]
  BY DEF Tiles
<1> DEFINE from == (number - 1) * size
           answer == PagedList(entries, number, askedSize)
           Right == /\ answer.status = 200
                    /\ answer.pageCount = count
                    /\ number < count => Len(answer.entities) = size
                    /\ number = count => Len(answer.entities) = total - (count - 1) * size
                    /\ number > count => answer.entities = <<>>
                    /\ \A j \in 1..Len(answer.entities) : answer.entities[j] = entries[from + j]
<1>1. size \in Nat \ {0} /\ total \in Nat
  BY PageSizeType
<1>2. /\ answer.status = 200
      /\ answer.pageCount = count
      /\ Len(answer.entities) = (IF from + size > total THEN total ELSE from + size)
                                - (IF from >= total THEN total ELSE from)
      /\ answer.entities \in Seq(S)
      /\ \A j \in 1..Len(answer.entities) : answer.entities[j] = entries[from + j]
  BY PageEntries
<1> HIDE DEF answer, size, total
<1>4. count \in Nat \ {0} /\ (count - 1) * size <= total /\ total <= count * size
  BY <1>1, CountOfPages
<1> HIDE DEF count
<1>5. from \in Nat /\ number * size = from + size /\ number \in Nat \ {0}
  BY <1>1, Products
<1>6. ASSUME number < count PROVE Right
  <2>1. number <= count - 1 /\ count - 1 \in Nat
    BY <1>4, <1>5, <1>6
  <2>2. number * size <= (count - 1) * size /\ (count - 1) * size \in Nat
    BY <1>1, <1>5, <2>1, Products
  <2>3. from + size <= total
    BY <1>1, <1>4, <1>5, <2>2
  <2>4. Len(answer.entities) = size
    BY <1>1, <1>2, <1>5, <2>3
  <2> QED BY <1>2, <1>6, <2>4, <1>4, <1>5
<1>7. ASSUME number = count PROVE Right
  <2>1. from <= total /\ total <= from + size
    BY <1>4, <1>5, <1>7
  <2>2. Len(answer.entities) = total - from
    BY <1>1, <1>2, <1>5, <2>1
  <2> QED BY <1>2, <1>4, <1>5, <1>7, <2>2
<1>8. ASSUME number > count PROVE Right
  <2>1. count <= number - 1 /\ number - 1 \in Nat
    BY <1>4, <1>5, <1>8
  <2>2. count * size <= from
    BY <1>1, <1>4, <2>1, Products
  <2>3. from >= total
    <3>1. count * size \in Nat
      BY <1>1, <1>4, Products
    <3> QED BY <1>1, <1>4, <1>5, <2>2, <3>1
  <2>4. Len(answer.entities) = 0
    BY <1>1, <1>2, <1>5, <2>3
  <2>5. answer.entities = <<>>
    BY <1>2, <2>4
  <2> QED BY <1>2, <1>4, <1>5, <1>8, <2>5
<1>9. Right
  BY <1>4, <1>5, <1>6, <1>7, <1>8
<1> QED BY <1>9 DEF Right, answer, count, size, total

(***************************************************************************)
(* The theorems.                                                           *)
(***************************************************************************)
\* The strengthened invariant holds in every reachable state.
THEOREM Inductive == Spec => []IInv
<1>1. Init => IInv
  BY DEF Init, IInv, TypeOK, TablesIssued, RowsHaveTable, UpdatesHaveRow,
         DumpsSeeOldTables, DumpOrphansAreNew, Dumping, NoRows, Idle
<1>2. IInv /\ [Next]_vars => IInv'
  <2>1. IInv /\ [Next]_vars => TypeOK' /\ CellsOK' /\ UpdatesHaveRow'
    BY TypeStep, Cells, CellsStep DEF IInv
  <2>2. IInv /\ [Next]_vars => TablesIssued' /\ DumpsSeeOldTables' /\ DumpOrphansAreNew'
    BY Cells, DumpStep DEF IInv
  <2>3. TypeOK' => (CellsOK' <=> RowsHaveTable')
    BY Cells, PTL
  <2> QED BY <2>1, <2>2, <2>3 DEF IInv
<1> QED BY <1>1, <1>2, PTL DEF Spec

\* No row outlives its datatable, whatever is deleted or reset between the
\* statements of a request.
THEOREM RowsAlwaysHaveTable == Spec => []RowsHaveTable
BY Inductive, PTL DEF IInv

\* A dump holds no row of a datatable that was deleted before it.
THEOREM DumpOrphansStayNew == Spec => []DumpOrphansAreNew
BY Inductive, PTL DEF IInv

\* The pages of the rows of a datatable give each of them once and in order,
\* for any size of int, any page size and any number of rows.
THEOREM PagesAlwaysTile == Spec => []PagesTile
<1>1. PagesTile
  <2> SUFFICES ASSUME NEW d \in tables, NEW size \in 0..IntMax PROVE Tiles(Listing(d), size)
    BY DEF PagesTile
  <2> DEFINE list == Listing(d)
             S == {list[n] : n \in DOMAIN list}
             live == {k \in Keys : rows[d][k] # NoRow}
  <2>1. Cardinality(live) \in Nat
    BY KeysAssumption, FS_Subset, FS_CardinalityType
  <2>2. DOMAIN list = 1..Cardinality(live) /\ list = [n \in DOMAIN list |-> list[n]]
    <3> DEFINE nth(n) == CHOOSE k \in live : Cardinality({j \in live : j <= k}) = n
    <3>1. list = [n \in 1..Cardinality(live) |-> nth(n)]
      BY DEF Listing
    <3> HIDE DEF list, nth, live
    <3> QED BY <3>1
  <2> HIDE DEF list, live
  <2>3. list \in [1..Cardinality(live) -> S]
    BY <2>2
  <2>4. list \in Seq(S)
    BY <2>1, <2>3
  <2>5. Tiles(list, size)
    BY <2>4, PagesOfListTile
  <2> QED BY <2>5 DEF list
<1> QED BY <1>1, PTL

(***************************************************************************)
(* Refinement of RowStore.                                                 *)
(***************************************************************************)
\* The call of a request, by its pc.
LEMMA CallOf ==
  ASSUME NEW q
  PROVE  /\ q.pc = "insert" => AbstractCall(q) =
              [op |-> "create", table |-> q.table, key |-> q.key, body |-> q.body]
         /\ q.pc \in Updating => AbstractCall(q) =
              [op |-> "update", table |-> q.table, key |-> q.key, body |-> q.body,
               late |-> q.overtaken]
         /\ q.pc = "delete" => AbstractCall(q) =
              [op |-> "delete", table |-> q.table, key |-> q.key]
         /\ q.pc = "answered" => AbstractCall(q) = [op |-> "answered", status |-> q.status]
         /\ q.pc = "reset0" => AbstractCall(q) = [op |-> "reset"]
         /\ q.pc = "reset1" => AbstractCall(q) = [op |-> "sweep"]
         /\ q.pc \in {"idle", "list"} \cup Dumping => AbstractCall(q) = Store!None
BY DEF AbstractCall, Updating, Dumping, Store!None

\* Only updates are taken for updates.
LEMMA CallIsUpdate ==
  ASSUME TypeOK, NEW r \in Requests
  PROVE  AbstractCall(req[r]).op = "update" <=> req[r].pc \in Updating
<1>1. req[r].pc \in {"insert", "delete", "answered", "reset0", "reset1", "idle", "list"}
                    \cup Updating \cup Dumping
  BY DEF TypeOK, RowRequest, DeleteRequest, ListRequest, Answered, Dump, Reset, Idle,
         Updating, Dumping
<1> QED BY <1>1, CallOf DEF Updating, Dumping, Store!None

\* One request moves on, and so does its call.
LEMMA CallMoves ==
  ASSUME TypeOK, NEW r \in Requests, NEW new, req' = [req EXCEPT ![r] = new]
  PROVE  AbstractCalls' = [AbstractCalls EXCEPT ![r] = AbstractCall(new)]
BY DEF TypeOK, AbstractCalls

\* A step that a caller does not see.
LEMMA CallStays ==
  ASSUME TypeOK, NEW r \in Requests, NEW new, req' = [req EXCEPT ![r] = new],
         AbstractCall(new) = AbstractCall(req[r])
  PROVE  AbstractCalls' = AbstractCalls
BY DEF TypeOK, AbstractCalls

\* What the EXCEPT of Late does to an update.
LEMMA LateUpdate ==
  ASSUME NEW d, NEW k, NEW b, NEW old, NEW new
  PROVE  [[op |-> "update", table |-> d, key |-> k, body |-> b, late |-> old] EXCEPT !.late = new]
           = [op |-> "update", table |-> d, key |-> k, body |-> b, late |-> new]
OBVIOUS

\* To overtake an update is to make its call late.
LEMMA OvertakenIsLate ==
  ASSUME TypeOK, NEW gone
  PROVE  [r \in Requests |-> AbstractCall(Overtake(gone)[r])] = Store!Late(gone)
<1>1. ASSUME NEW r \in Requests
      PROVE  AbstractCall(Overtake(gone)[r]) = Store!Late(gone)[r]
  <2> DEFINE c == AbstractCalls[r]
  <2>1. c = AbstractCall(req[r])
    BY DEF AbstractCalls
  <2>2. CASE req[r].pc \notin Updating
    <3>1. Overtake(gone)[r] = req[r]
      BY <2>2, OvertakeType
    <3>2. c.op # "update"
      BY <2>1, <2>2, CallIsUpdate
    <3> QED BY <2>1, <3>1, <3>2 DEF Store!Late
  <2>3. CASE req[r].pc \in Updating
    <3>1. req[r] \in RowRequest
      BY <2>3, RequestType
    <3>2. c = [op |-> "update", table |-> req[r].table, key |-> req[r].key,
               body |-> req[r].body, late |-> req[r].overtaken]
      BY <2>1, <2>3, CallOf
    <3> DEFINE hit == /\ <<req[r].table, req[r].key>> \in gone
                      /\ rows[req[r].table][req[r].key] # NoRow
    <3> HIDE DEF c
    <3>3. c.op = "update" /\ c.table = req[r].table /\ c.key = req[r].key
      BY <3>2
    <3>4. CASE hit
      <4>1. Overtake(gone)[r] = [req[r] EXCEPT !.overtaken = TRUE]
        BY <2>3, <3>4 DEF Overtake, Updating
      <4>2. AbstractCall(Overtake(gone)[r]) =
              [op |-> "update", table |-> req[r].table, key |-> req[r].key,
               body |-> req[r].body, late |-> TRUE]
        <5> DEFINE new == [req[r] EXCEPT !.overtaken = TRUE]
        <5>1. /\ new.pc = req[r].pc /\ new.table = req[r].table /\ new.key = req[r].key
              /\ new.body = req[r].body /\ new.overtaken = TRUE
          BY <3>1 DEF RowRequest
        <5> HIDE DEF new
        <5>2. AbstractCall(new) =
                [op |-> "update", table |-> req[r].table, key |-> req[r].key,
                 body |-> req[r].body, late |-> TRUE]
          BY <2>3, <5>1, CallOf
        <5> QED BY <4>1, <5>2 DEF new
      <4>3. Store!Late(gone)[r] = [c EXCEPT !.late = TRUE]
        BY <3>3, <3>4 DEF Store!Late, Store!Row, c
      <4>4. [c EXCEPT !.late = TRUE] =
              [op |-> "update", table |-> req[r].table, key |-> req[r].key,
               body |-> req[r].body, late |-> TRUE]
        <5> DEFINE yes == TRUE
        <5> HIDE DEF yes
        <5>1. [c EXCEPT !.late = yes] =
                [op |-> "update", table |-> req[r].table, key |-> req[r].key,
                 body |-> req[r].body, late |-> yes]
          BY <3>2, LateUpdate
        <5> QED BY <5>1 DEF yes
      <4> QED BY <4>2, <4>3, <4>4
    <3>5. CASE ~hit
      <4>1. Overtake(gone)[r] = req[r]
        BY <3>5 DEF Overtake
      <4>2. Store!Late(gone)[r] = c
        BY <3>3, <3>5 DEF Store!Late, Store!Row, c
      <4> QED BY <2>1, <4>1, <4>2
    <3> QED BY <3>4, <3>5
  <2> QED BY <2>2, <2>3
<1>2. /\ DOMAIN Store!Late(gone) = Requests
      /\ Store!Late(gone) = [r \in Requests |-> Store!Late(gone)[r]]
  BY DEF Store!Late
<1> QED BY <1>1, <1>2

\* A step that empties cells and moves one request on.
LEMMA CallsOvertaken ==
  ASSUME TypeOK, NEW gone, NEW r \in Requests, NEW new,
         req' = [Overtake(gone) EXCEPT ![r] = new]
  PROVE  AbstractCalls' = [Store!Late(gone) EXCEPT ![r] = AbstractCall(new)]
<1>1. AbstractCalls' = [q \in Requests |->
                          IF q = r THEN AbstractCall(new) ELSE AbstractCall(Overtake(gone)[q])]
  BY OvertakeType DEF AbstractCalls
<1> QED BY <1>1, OvertakenIsLate


\* What an answer does to the calls.
LEMMA CallAnswered ==
  ASSUME TypeOK, NEW r \in Requests, NEW status, Answer(r, status)
  PROVE  AbstractCalls' = Store!Answer(r, status)
<1> DEFINE new == [pc |-> "answered", status |-> status]
<1>1. AbstractCall(new) = [op |-> "answered", status |-> status]
  <2>1. new.pc = "answered" /\ new.status = status
    OBVIOUS
  <2> HIDE DEF new
  <2> QED BY <2>1, CallOf
<1>2. req' = [req EXCEPT ![r] = new]
  BY DEF Answer
<1> HIDE DEF new
<1> QED BY <1>1, <1>2, CallMoves DEF Store!Answer

\* What the callers see of a request on a row.
LEMMA RowCall ==
  ASSUME TypeOK, NEW r \in Requests
  PROVE  LET c == AbstractCalls[r]
             q == req[r]
         IN /\ q.pc = "insert" => /\ c.op = "create" /\ c.table = q.table
                                  /\ c.key = q.key /\ c.body = q.body
            /\ q.pc \in Updating => /\ c.op = "update" /\ c.table = q.table
                                    /\ c.key = q.key /\ c.body = q.body
                                    /\ c.late = q.overtaken
            /\ q.pc = "delete" => c.op = "delete" /\ c.table = q.table /\ c.key = q.key
            /\ q.pc = "answered" => c.op = "answered"
            /\ q.pc = "reset0" => c.op = "reset"
            /\ q.pc = "reset1" => c.op = "sweep"
            /\ q.pc \in {"idle", "list"} \cup Dumping => c = Store!None
BY CallOf DEF AbstractCalls

\* A request begins an operation on datatable d.
LEMMA StartAsks ==
  ASSUME TypeOK, NEW r \in Requests, NEW d \in Tables, NEW new, Start(r, d, new),
         AbstractCall(new) \in Store!Create \cup Store!Update \cup Store!Delete,
         AbstractCall(new).table = d
  PROVE  Store!Next
<1>1. AbstractCalls[r] = Store!None
  BY RowCall DEF Start, Idle
<1>2. AbstractCalls' = [AbstractCalls EXCEPT ![r] = AbstractCall(new)]
  BY CallMoves DEF Start
<1>3. Store!Ask(r, AbstractCall(new))
  BY <1>1, <1>2 DEF Start, Store!Ask
<1> QED BY <1>3 DEF Store!Next

\* Init is the initial state of RowStore, and every step is one of its steps or
\* none: of the invariants only two are needed, that rows have their datatables
\* and that an update has its row.
LEMMA ImplementsInit == Init => Store!Init
<1> SUFFICES ASSUME Init PROVE Store!Init
  OBVIOUS
<1>1. ASSUME NEW r \in Requests PROVE AbstractCalls[r] = Store!None
  BY CallOf DEF Init, Idle, AbstractCalls
<1>2. AbstractCalls = [r \in Requests |-> Store!None]
  BY <1>1 DEF AbstractCalls
<1> QED BY <1>2 DEF Init, Store!Init, NoRows, Store!NoRows

LEMMA ImplementsStep ==
  TypeOK /\ CellsOK /\ UpdatesHaveRow /\ [Next]_vars => [Store!Next]_(Store!vars)
<1> SUFFICES ASSUME TypeOK, CellsOK, UpdatesHaveRow, [Next]_vars
             PROVE  Store!Next \/ UNCHANGED Store!vars
  OBVIOUS
<1>0. NoRows = Store!NoRows
  BY DEF NoRows, Store!NoRows
<1>1. ASSUME NEW d \in Tables, DatatableCreate(d) PROVE Store!Next
  <2>1. Store!AddTable(d)
    BY <1>1 DEF DatatableCreate, Store!AddTable, AbstractCalls
  <2> QED BY <2>1 DEF Store!Next
<1>2. ASSUME NEW d \in Tables, DatatableDelete(d) PROVE Store!Next
  <2>1. rows' = [rows EXCEPT ![d] = NoRows] /\ tables' = tables \ {d}
    BY <1>2 DEF DatatableDelete, Drop, TypeOK
  <2>2. AbstractCalls' = Store!Late({d} \X Keys)
    BY <1>2, OvertakenIsLate DEF DatatableDelete, AbstractCalls
  <2>3. Store!DropTable(d)
    BY <1>0, <2>1, <2>2 DEF Store!DropTable
  <2> QED BY <2>3 DEF Store!Next
<1>3. ASSUME NEW r \in Requests, NEW d \in Tables, NEW k \in Keys, NEW b \in Bodies,
             RowCreateStart(r, d, k, b)
      PROVE  Store!Next
  <2> DEFINE new == [pc |-> "insert", table |-> d, key |-> k, body |-> b, overtaken |-> FALSE]
             c == [op |-> "create", table |-> d, key |-> k, body |-> b]
  <2>1. AbstractCall(new) = c
    BY CallOf
  <2>2. c \in Store!Create /\ c.table = d
    BY DEF Store!Create
  <2> HIDE DEF new, c
  <2>3. AbstractCall(new) \in Store!Create \cup Store!Update \cup Store!Delete
    BY <2>1, <2>2
  <2>4. Start(r, d, new) /\ AbstractCall(new).table = d
    BY <1>3, <2>1, <2>2 DEF RowCreateStart, new
  <2> QED BY <2>3, <2>4, StartAsks
<1>4. ASSUME NEW r \in Requests, NEW d \in Tables, NEW k \in Keys, NEW b \in Bodies,
             RowUpdateStart(r, d, k, b)
      PROVE  Store!Next
  <2> DEFINE new == [pc |-> "select", table |-> d, key |-> k, body |-> b, overtaken |-> FALSE]
             c == [op |-> "update", table |-> d, key |-> k, body |-> b, late |-> FALSE]
  <2>1. AbstractCall(new) = c
    <3>1. /\ new.pc \in Updating /\ new.table = d /\ new.key = k /\ new.body = b
          /\ new.overtaken = FALSE
      BY DEF Updating
    <3> HIDE DEF new
    <3> QED BY <3>1, CallOf
  <2>2. c \in Store!Update /\ c.table = d
    BY DEF Store!Update
  <2> HIDE DEF new, c
  <2>3. AbstractCall(new) \in Store!Create \cup Store!Update \cup Store!Delete
    BY <2>1, <2>2
  <2>4. Start(r, d, new) /\ AbstractCall(new).table = d
    BY <1>4, <2>1, <2>2 DEF RowUpdateStart, new
  <2> QED BY <2>3, <2>4, StartAsks
<1>5. ASSUME NEW r \in Requests, NEW d \in Tables, NEW k \in Keys, RowDeleteStart(r, d, k)
      PROVE  Store!Next
  <2> DEFINE new == [pc |-> "delete", table |-> d, key |-> k]
             c == [op |-> "delete", table |-> d, key |-> k]
  <2>1. AbstractCall(new) = c
    BY CallOf
  <2>2. c \in Store!Delete /\ c.table = d
    BY DEF Store!Delete
  <2> HIDE DEF new, c
  <2>3. AbstractCall(new) \in Store!Create \cup Store!Update \cup Store!Delete
    BY <2>1, <2>2
  <2>4. Start(r, d, new) /\ AbstractCall(new).table = d
    BY <1>5, <2>1, <2>2 DEF RowDeleteStart, new
  <2> QED BY <2>3, <2>4, StartAsks
<1>6. ASSUME NEW r \in Requests, NEW d \in Tables, ListStart(r, d) PROVE UNCHANGED Store!vars
  <2> DEFINE new == [pc |-> "list", table |-> d]
  <2>1. AbstractCall(new) = Store!None
    BY CallOf
  <2>2. AbstractCall(req[r]) = Store!None /\ req' = [req EXCEPT ![r] = new]
    BY <1>6, CallOf DEF ListStart, Start, Idle
  <2> HIDE DEF new
  <2>3. AbstractCalls' = AbstractCalls
    BY <2>1, <2>2, CallStays
  <2> QED BY <1>6, <2>3 DEF ListStart, Start, Store!vars
<1>7. ASSUME NEW r \in Requests, ListRead(r) \/ DumpAnswer(r) PROVE UNCHANGED Store!vars
  <2>1. AbstractCall(Idle) = Store!None
    BY CallOf DEF Idle
  <2>2. AbstractCall(req[r]) = Store!None /\ req' = [req EXCEPT ![r] = Idle]
    BY <1>7, CallOf DEF ListRead, DumpAnswer, Done, Dumping
  <2>3. AbstractCalls' = AbstractCalls
    BY <2>1, <2>2, CallStays
  <2> QED BY <1>7, <2>3 DEF ListRead, DumpAnswer, Store!vars
<1>8. ASSUME NEW r \in Requests, DumpTables(r) \/ DumpRows(r) PROVE UNCHANGED Store!vars
  <2>1. PICK new : new.pc \in Dumping /\ req' = [req EXCEPT ![r] = new]
    <3>1. CASE DumpTables(r)
      <4> DEFINE new == [pc |-> "dumpRows", known |-> issued, tables |-> tables, grid |-> {}]
      <4>1. new.pc \in Dumping
        BY DEF Dumping
      <4> QED BY <3>1, <4>1 DEF DumpTables
    <3>2. CASE DumpRows(r)
      <4> DEFINE new == [pc |-> "dumpAnswer", known |-> req[r].known,
                         tables |-> req[r].tables, grid |-> Grid]
      <4>1. new.pc \in Dumping
        BY DEF Dumping
      <4> QED BY <3>2, <4>1 DEF DumpRows
    <3> QED BY <1>8, <3>1, <3>2
  <2>2. AbstractCall(req[r]) = Store!None /\ AbstractCall(new) = Store!None
    BY <1>8, <2>1, CallOf DEF DumpTables, DumpRows, Idle, Dumping
  <2>3. AbstractCalls' = AbstractCalls
    BY <2>1, <2>2, CallStays
  <2> QED BY <1>8, <2>3 DEF DumpTables, DumpRows, Store!vars
<1>9. ASSUME NEW r \in Requests, Reject(r) PROVE Store!Next
  <2>1. AbstractCalls[r].op \in {"create", "update"}
    BY <1>9, RowCall DEF Reject, Updating
  <2>2. AbstractCalls' = Store!Answer(r, 400)
    BY <1>9, CallAnswered DEF Reject
  <2>3. Store!Reject(r)
    BY <1>9, <2>1, <2>2 DEF Reject, Store!Reject
  <2> QED BY <2>3 DEF Store!Next
<1>10. ASSUME NEW r \in Requests, RowInsert(r) PROVE Store!Next
  <2>1. AbstractCalls' = Store!Answer(r, 201)
    BY <1>10, CallAnswered DEF RowInsert
  <2>2. Store!Created(r)
    BY <1>10, <2>1, RowCall DEF RowInsert, Store!Created, Store!Row
  <2> QED BY <2>2 DEF Store!Next
<1>11. ASSUME NEW r \in Requests, RowInsertFails(r) PROVE Store!Next
  <2>1. CASE rows[req[r].table][req[r].key] # NoRow /\ Answer(r, 409)
    <3>1. AbstractCalls' = Store!Answer(r, 409)
      BY <2>1, CallAnswered
    <3>2. Store!Taken(r)
      BY <1>11, <2>1, <3>1, RowCall DEF RowInsertFails, Store!Taken, Store!Row
    <3> QED BY <3>2 DEF Store!Next
  <2>2. CASE req[r].table \notin tables /\ Answer(r, 500)
    <3>1. AbstractCalls' = Store!Answer(r, 500)
      BY <2>2, CallAnswered
    <3>2. Store!Orphaned(r)
      BY <1>11, <2>2, <3>1, RowCall DEF RowInsertFails, Store!Orphaned
    <3> QED BY <3>2 DEF Store!Next
  <2> QED BY <1>11, <2>1, <2>2 DEF RowInsertFails
<1>12. ASSUME NEW r \in Requests, RowSelect(r) PROVE Store!Next \/ UNCHANGED Store!vars
  <2>1. CASE rows[req[r].table][req[r].key] = NoRow
    <3>1. AbstractCalls' = Store!Answer(r, 404)
      BY <1>12, <2>1, CallAnswered DEF RowSelect
    <3>2. Store!Missing(r)
      BY <1>12, <2>1, <3>1, RowCall DEF RowSelect, Store!Missing, Store!Row, Updating
    <3> QED BY <3>2 DEF Store!Next
  <2>2. CASE rows[req[r].table][req[r].key] # NoRow
    <3> DEFINE new == [req[r] EXCEPT !.pc = "update"]
    <3>1. req[r] \in RowRequest /\ req' = [req EXCEPT ![r] = new]
      BY <1>12, <2>2, RequestType DEF RowSelect, Updating
    <3>2. /\ new.pc = "update" /\ new.table = req[r].table /\ new.key = req[r].key
          /\ new.body = req[r].body /\ new.overtaken = req[r].overtaken
      BY <3>1 DEF RowRequest
    <3> HIDE DEF new
    <3>3. AbstractCall(new) = AbstractCall(req[r])
      BY <1>12, <3>2, CallOf DEF RowSelect, Updating
    <3>4. AbstractCalls' = AbstractCalls
      BY <3>1, <3>3, CallStays
    <3> QED BY <1>12, <3>4 DEF RowSelect, Store!vars
  <2> QED BY <2>1, <2>2
<1>13. ASSUME NEW r \in Requests, RowUpdate(r) PROVE Store!Next
  <2>1. AbstractCalls' = Store!Answer(r, 200)
    BY <1>13, CallAnswered DEF RowUpdate
  <2>2. CASE rows[req[r].table][req[r].key] = NoRow
    <3>1. req[r].overtaken
      BY <1>13, <2>2 DEF RowUpdate, UpdatesHaveRow
    <3>2. rows' = rows
      BY <1>13, <2>2, UpdateWrites
    <3>3. Store!UpdatedBefore(r)
      BY <1>13, <2>1, <3>1, <3>2, RowCall DEF RowUpdate, Store!UpdatedBefore, Updating
    <3> QED BY <3>3 DEF Store!Next
  <2>3. CASE rows[req[r].table][req[r].key] # NoRow
    <3>1. rows' = [rows EXCEPT ![req[r].table][req[r].key] = req[r].body]
      BY <1>13, <2>3, UpdateWrites
    <3>2. Store!Updated(r)
      BY <1>13, <2>1, <2>3, <3>1, RowCall DEF RowUpdate, Store!Updated, Store!Row, Updating
    <3> QED BY <3>2 DEF Store!Next
  <2> QED BY <2>2, <2>3
<1>14. ASSUME NEW r \in Requests, RowDelete(r) PROVE Store!Next
  <2>1. CASE rows[req[r].table][req[r].key] = NoRow
    <3>1. AbstractCalls' = Store!Answer(r, 404)
      BY <1>14, <2>1, CallAnswered DEF RowDelete
    <3>2. Store!Missing(r)
      BY <1>14, <2>1, <3>1, RowCall DEF RowDelete, Store!Missing, Store!Row
    <3> QED BY <3>2 DEF Store!Next
  <2>2. CASE rows[req[r].table][req[r].key] # NoRow
    <3> DEFINE gone == {<<req[r].table, req[r].key>>}
               new == [pc |-> "answered", status |-> 204]
    <3>1. AbstractCall(new) = [op |-> "answered", status |-> 204]
      BY CallOf
    <3>2. req' = [Overtake(gone) EXCEPT ![r] = new]
      BY <1>14, <2>2 DEF RowDelete
    <3>3. gone = {<<AbstractCalls[r].table, AbstractCalls[r].key>>}
      BY <1>14, RowCall DEF RowDelete
    <3> HIDE DEF gone, new
    <3>4. AbstractCalls' = [Store!Late(gone) EXCEPT ![r] = AbstractCall(new)]
      BY <3>2, CallsOvertaken
    <3>5. Store!Deleted(r)
      BY <1>14, <2>2, <3>1, <3>3, <3>4, RowCall DEF RowDelete, Store!Deleted, Store!Row
    <3> QED BY <3>5 DEF Store!Next
  <2> QED BY <2>1, <2>2
<1>15. ASSUME NEW r \in Requests, Return(r) PROVE Store!Next
  <2>1. AbstractCall(Idle) = Store!None
    BY CallOf DEF Idle
  <2>2. AbstractCalls' = [AbstractCalls EXCEPT ![r] = Store!None]
    BY <1>15, <2>1, CallMoves DEF Return, Done
  <2>3. Store!Return(r)
    BY <1>15, <2>2, RowCall DEF Return, Store!Return
  <2> QED BY <2>3 DEF Store!Next
<1>16. ASSUME NEW r \in Requests, ResetStart(r) PROVE Store!Next
  <2> DEFINE new == [pc |-> "reset0"]
  <2>1. AbstractCall(new) = [op |-> "reset"]
    BY CallOf
  <2>2. req' = [req EXCEPT ![r] = new] /\ AbstractCalls[r] = Store!None
    BY <1>16, RowCall DEF ResetStart, Idle
  <2> HIDE DEF new
  <2>3. AbstractCalls' = [AbstractCalls EXCEPT ![r] = [op |-> "reset"]]
    BY <2>1, <2>2, CallMoves
  <2>4. Store!ResetBegin(r)
    BY <1>16, <2>2, <2>3 DEF ResetStart, Store!ResetBegin
  <2> QED BY <2>4 DEF Store!Next
<1>17. ASSUME NEW r \in Requests, ResetTables(r) PROVE Store!Next
  <2> DEFINE gone == Tables \X Keys
             new == [pc |-> "reset1"]
  <2>1. AbstractCall(new) = [op |-> "sweep"]
    BY CallOf
  <2>2. req' = [Overtake(gone) EXCEPT ![r] = new]
    BY <1>17 DEF ResetTables
  <2>3. tables' = {} /\ rows' = [d \in Tables |-> NoRows]
    <3>1. ASSUME NEW d \in Tables, d \notin tables PROVE rows[d] = NoRows
      BY <3>1, Cells DEF RowsHaveTable
    <3> QED BY <1>17, <3>1 DEF ResetTables, Drop
  <2> HIDE DEF new
  <2>4. AbstractCalls' = [Store!Late(gone) EXCEPT ![r] = AbstractCall(new)]
    BY <2>2, CallsOvertaken
  <2>5. Store!ResetTables(r)
    BY <1>0, <1>17, <2>1, <2>3, <2>4, RowCall DEF ResetTables, Store!ResetTables
  <2> QED BY <2>5 DEF Store!Next
<1>18. ASSUME NEW r \in Requests, ResetRows(r) PROVE Store!Next
  <2> DEFINE gone == Tables \X Keys
  <2>1. AbstractCall(Idle) = Store!None
    BY CallOf DEF Idle
  <2>2. req' = [Overtake(gone) EXCEPT ![r] = Idle]
    BY <1>18 DEF ResetRows
  <2>3. AbstractCalls' = [Store!Late(gone) EXCEPT ![r] = AbstractCall(Idle)]
    BY <2>2, CallsOvertaken
  <2>4. Store!ResetRows(r)
    BY <1>0, <1>18, <2>1, <2>3, RowCall DEF ResetRows, Store!ResetRows
  <2> QED BY <2>4 DEF Store!Next
<1>19. CASE UNCHANGED vars
  BY <1>19 DEF vars, Store!vars, AbstractCalls
<1> QED
  BY <1>1, <1>2, <1>3, <1>4, <1>5, <1>6, <1>7, <1>8, <1>9, <1>10, <1>11, <1>12, <1>13,
     <1>14, <1>15, <1>16, <1>17, <1>18, <1>19
     DEF Next

\* The row endpoints serve their callers like RowStore: one operation at a time,
\* with the answer that what it has found calls for.
THEOREM Implements == Spec => ImplementsRowStore
<1>1. IInv /\ [Next]_vars => [Store!Next]_(Store!vars)
  BY Cells, ImplementsStep DEF IInv
<1> QED BY <1>1, ImplementsInit, Inductive, PTL DEF Spec, ImplementsRowStore, Store!Spec

=============================================================================
