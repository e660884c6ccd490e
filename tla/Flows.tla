------------------------------- MODULE Flows -------------------------------
(***************************************************************************)
(* Architect flows: the flows table, the lock/publish actions, the PUT     *)
(* that edits a flow and the upload jobs (handlers/flow.go; the job map is *)
(* in handlers/handlers.go).                                               *)
(*                                                                         *)
(* PUT and the actions both SELECT the body, change it in memory and       *)
(* UPDATE, but each writes only some of the columns: PUT writes name and   *)
(* state, an action writes state and locked_user_id.  Every SQL statement  *)
(* is one step; the goroutines of other requests run between them.  A      *)
(* Restore closes the handle under them and may replace the table.         *)
(***************************************************************************)
EXTENDS Naturals, FiniteSets

CONSTANTS
  Requests,  \* goroutines serving requests at the same time
  Ids,       \* flow ids newID() may hand out
  Jobs,      \* job ids newID() may hand out
  Names,     \* names a client gives a new flow
  Edits,     \* names a PUT gives it ('' stands for one that is no string)
  Absent,    \* what an id or a job maps to while it has no row or entry
  MaxCopies  \* bound: copies taken of the table

ASSUME AbsentAssumption == Absent \notin Ids

\* The row a job creates is called harness-flow-<id>: one name of its own per
\* id, written here as the id, which no client can guess beforehand.
ASSUME NamesAssumption == (Names \cup Edits) \cap Ids = {}

AllNames == Names \cup Edits \cup Ids

FlowStates == {"unpublished", "locked", "published"}

\* nameCol, stateCol and lockCol are columns, the rest is the JSON body;
\* lockCol and locked say that a locked user is set.
Row == [nameCol: AllNames, name: AllNames, stateCol: FlowStates,
        state: FlowStates, lockCol: BOOLEAN, locked: BOOLEAN]

ASSUME AbsentRowAssumption == Absent \notin Row

Keep == "keep"
ASSUME KeepAssumption == Keep \notin AllNames

Tables == [Ids -> Row \cup {Absent}]

ASSUME CopiesAssumption == MaxCopies \in Nat

\* unlock and its aliases revert and deactivate make the same call as checkin.
Actions == {"checkout", "checkin", "publish"}

Statuses == {0, 200, 201, 204, 400, 404, 409, 500}

VARIABLES
  rows,      \* the flows table
  copies,    \* the table as a snapshot, or a Restore about to swap, copied it
  issued,    \* flow ids handed out
  jobs,      \* app.flowJobs: job id to flow id
  req,       \* the request each goroutine is serving
  reply,     \* the status the last step answered, 0 when it answered nothing
  closed,    \* a Restore has closed the database handle
  gone,      \* history: flows that a DELETE, reset or Restore has removed
  dropped,   \* history: flows of jobs whose INSERT met a closed handle
  reported,  \* history: jobs a poll has reported as Success
  owed,      \* history: the state left by create, the last action answered 200
             \* or the last Restore
  clashed    \* history: flows written or restored while another request held a
             \* read of them, or written through a handle that was replaced

handle == <<copies, closed, dropped>>
vars == <<rows, issued, jobs, req, reply, gone, reported, owed, clashed, handle>>

Idle == [pc |-> "idle"]
Editing(i, row) == [pc |-> "put", id |-> i, row |-> row]
Acting(i, row, a) == [pc |-> "act", id |-> i, row |-> row, action |-> a]
Inserting(i) == [pc |-> "insert", id |-> i]

InFlight ==
  [pc: {"put"}, id: Ids, row: Row]
    \cup [pc: {"act"}, id: Ids, row: Row, action: Actions]
    \cup [pc: {"insert"}, id: Ids]

TypeOK ==
  /\ rows \in Tables
  /\ copies \subseteq Tables
  /\ issued \subseteq Ids
  /\ jobs \in [Jobs -> Ids \cup {Absent}]
  /\ req \in [Requests -> InFlight \cup {Idle}]
  /\ reply \in Statuses
  /\ closed \in BOOLEAN
  /\ {gone, dropped} \subseteq SUBSET Ids
  /\ reported \subseteq Jobs
  /\ owed \in [Ids -> FlowStates]
  /\ clashed \subseteq Ids

Init ==
  /\ rows = [i \in Ids |-> Absent]
  /\ copies = {}
  /\ issued = {}
  /\ jobs = [j \in Jobs |-> Absent]
  /\ req = [r \in Requests |-> Idle]
  /\ reply = 0
  /\ closed = FALSE
  /\ gone = {}
  /\ dropped = {}
  /\ reported = {}
  /\ owed = [i \in Ids |-> "unpublished"]
  /\ clashed = {}

LiveIn(table) == {i \in Ids : table[i] # Absent}
Live == LiveIn(rows)

\* Operators whose comment begins with Mutant are never used by the
\* specification: each is one bug in the definition below it.

\* flows.name is UNIQUE.
NameTaken(i, n) == \E j \in Live \ {i} : rows[j].nameCol = n

Holds(q, i) == req[q].pc \in {"put", "act"} /\ req[q].id = i

\* A write of i by r overlaps every other request that has read i.
NoteClash(r, i) ==
  clashed' = IF \E q \in Requests \ {r} : Holds(q, i) THEN clashed \cup {i} ELSE clashed

Silent == reply' = 0

Answer(r, status) ==
  /\ reply' = status
  /\ req' = [req EXCEPT ![r] = Idle]

NewRow(n) ==
  [nameCol |-> n, name |-> n, stateCol |-> "unpublished",
   state |-> "unpublished", lockCol |-> FALSE, locked |-> FALSE]

\* Mutant: an UPDATE that finds no row inserts one.
Upsert(i, row) == rows' = [rows EXCEPT ![i] = IF i \in Live THEN row ELSE NewRow(i)]

\* UPDATE ... WHERE id: no row is no error.
Overwrite(i, row) == rows' = IF i \in Live THEN [rows EXCEPT ![i] = row] ELSE rows

(***************************************************************************)
(* Create, read, delete.                                                   *)
(***************************************************************************)
Create(r, i, n) ==
  /\ req[r] = Idle
  /\ i \notin issued
  /\ IF closed \/ NameTaken(i, n)
       THEN Answer(r, IF closed THEN 500 ELSE 409) /\ UNCHANGED <<rows, issued>>
       ELSE /\ Answer(r, 201)
            /\ rows' = [rows EXCEPT ![i] = NewRow(n)]
            /\ issued' = issued \cup {i}
  /\ UNCHANGED <<jobs, gone, reported, owed, clashed, handle>>

Found(i) == IF closed THEN 500 ELSE IF i \in Live THEN 200 ELSE 404

Get(r, i) ==
  /\ req[r] = Idle
  /\ Answer(r, Found(i))
  /\ UNCHANGED <<rows, issued, jobs, gone, reported, owed, clashed, handle>>

Delete(r, i) ==
  /\ req[r] = Idle
  /\ Answer(r, IF Found(i) = 200 THEN 204 ELSE Found(i))
  /\ IF Found(i) = 200
       THEN rows' = [rows EXCEPT ![i] = Absent] /\ gone' = gone \cup {i}
       ELSE UNCHANGED <<rows, gone>>
  /\ UNCHANGED <<issued, jobs, reported, owed, clashed, handle>>

(***************************************************************************)
(* PUT: read, merge, write.                                                *)
(***************************************************************************)
PutRead(r, i) ==
  /\ req[r] = Idle
  /\ IF Found(i) = 200
       THEN req' = [req EXCEPT ![r] = Editing(i, rows[i])] /\ Silent
       ELSE Answer(r, Found(i))
  /\ UNCHANGED <<rows, issued, jobs, gone, reported, owed, clashed, handle>>

\* A malformed JSON body or a multipart form without a file, found after the read.
PutReject(r) ==
  /\ req[r].pc = "put"
  /\ Answer(r, 400)
  /\ UNCHANGED <<rows, issued, jobs, gone, reported, owed, clashed, handle>>

\* Mutant: a name that the body does not carry is merged all the same.
EditedBlindly(row, n) == [row EXCEPT !.name = n]

\* The merge leaves out id, selfUri, state and lockedUser; Keep is a body
\* without a name, which a multipart upload is too.
Edited(row, n) == [row EXCEPT !.name = IF n = Keep THEN row.name ELSE n]

\* Mutant: the UPDATE leaves the name column as it was.
WrittenNameless(i, body) ==
  [body EXCEPT !.nameCol = rows[i].nameCol, !.stateCol = body.state,
               !.lockCol = rows[i].lockCol]

\* UPDATE flows SET name, state, body: the state is the one that was read.
WrittenByPut(i, body) ==
  [body EXCEPT !.nameCol = body.name, !.stateCol = body.state,
               !.lockCol = rows[i].lockCol]

PutWrite(r, n) ==
  LET i == req[r].id
      body == Edited(req[r].row, n)
  IN /\ req[r].pc = "put"
     /\ IF closed \/ (i \in Live /\ NameTaken(i, body.name))
          THEN Answer(r, 500) /\ UNCHANGED <<rows, clashed>>
          ELSE /\ Answer(r, 200)
               /\ Overwrite(i, WrittenByPut(i, body))
               /\ NoteClash(r, i)
     /\ UNCHANGED <<issued, jobs, gone, reported, owed, handle>>

(***************************************************************************)
(* checkout, checkin and publish go from any state.                        *)
(***************************************************************************)
StateAfter(a) ==
  CASE a = "checkout" -> "locked"
    [] a = "publish" -> "published"
    [] OTHER -> "unpublished"

Locks(a) == a = "checkout"

ActionRead(r, i, a) ==
  /\ req[r] = Idle
  /\ IF Found(i) = 200
       THEN req' = [req EXCEPT ![r] = Acting(i, rows[i], a)] /\ Silent
       ELSE Answer(r, Found(i))
  /\ UNCHANGED <<rows, issued, jobs, gone, reported, owed, clashed, handle>>

\* ?flow= missing: refused before the read.
ActionReject(r) ==
  /\ req[r] = Idle
  /\ Answer(r, 400)
  /\ UNCHANGED <<rows, issued, jobs, gone, reported, owed, clashed, handle>>

\* Mutant: lockedUser is set by a checkout and never removed.
WrittenStillLocked(i, body, a) ==
  [body EXCEPT !.nameCol = rows[i].nameCol,
               !.stateCol = StateAfter(a), !.state = StateAfter(a),
               !.lockCol = Locks(a), !.locked = Locks(a) \/ body.locked]

\* UPDATE flows SET state, locked_user_id, body: the name column stays.
WrittenByAction(i, body, a) ==
  [body EXCEPT !.nameCol = rows[i].nameCol,
               !.stateCol = StateAfter(a), !.state = StateAfter(a),
               !.lockCol = Locks(a), !.locked = Locks(a)]

ActionWrite(r) ==
  LET i == req[r].id
      a == req[r].action
  IN /\ req[r].pc = "act"
     /\ IF closed
          THEN Answer(r, 500) /\ UNCHANGED <<rows, owed, clashed>>
          ELSE /\ Answer(r, 200)
               /\ Overwrite(i, WrittenByAction(i, req[r].row, a))
               /\ owed' = [owed EXCEPT ![i] = StateAfter(a)]
               /\ NoteClash(r, i)
     /\ UNCHANGED <<issued, jobs, gone, reported, handle>>

(***************************************************************************)
(* Upload jobs: the pairing is recorded in the process, then the row is    *)
(* inserted; the INSERT's error is dropped.                                *)
(***************************************************************************)
JobRecord(r, j, i) ==
  /\ req[r] = Idle
  /\ jobs[j] = Absent
  /\ i \notin issued
  /\ jobs' = [jobs EXCEPT ![j] = i]
  /\ issued' = issued \cup {i}
  /\ req' = [req EXCEPT ![r] = Inserting(i)]
  /\ Silent
  /\ UNCHANGED <<rows, gone, reported, owed, clashed, handle>>

\* Mutant: the INSERT leaves a NOT NULL column out and is refused every time.
JobInsertRefused(r) ==
  /\ req[r].pc = "insert"
  /\ Answer(r, 200)
  /\ UNCHANGED <<rows, issued, jobs, gone, reported, owed, clashed, handle>>

JobInsert(r) ==
  LET i == req[r].id
  IN /\ req[r].pc = "insert"
     /\ Answer(r, 200)
     /\ rows' = IF closed \/ NameTaken(i, i) THEN rows
                ELSE [rows EXCEPT ![i] = NewRow(i)]
     /\ dropped' = IF closed THEN dropped \cup {i} ELSE dropped
     /\ UNCHANGED <<copies, issued, jobs, closed, gone, reported, owed, clashed>>

\* A client polls a job whose id it was given, or one that never existed.
JobPoll(r, j) ==
  /\ req[r] = Idle
  /\ \A q \in Requests : req[q].pc = "insert" => req[q].id # jobs[j]
  /\ IF jobs[j] = Absent
       THEN Answer(r, 404) /\ UNCHANGED reported
       ELSE Answer(r, 200) /\ reported' = reported \cup {j}
  /\ UNCHANGED <<rows, issued, jobs, gone, owed, clashed, handle>>

(***************************************************************************)
(* What the rest of the process does to this table: the DELETE FROM flows  *)
(* of a reset, and Snapshot and Restore as far as this table sees them     *)
(* (their own steps are module Lifecycle's).  None touches the job map.    *)
(***************************************************************************)
Reset ==
  /\ ~closed
  /\ rows' = [i \in Ids |-> Absent]
  /\ gone' = gone \cup Live
  /\ Silent
  /\ UNCHANGED <<issued, jobs, req, reported, owed, clashed, handle>>

\* VACUUM INTO the snapshot, or a Restore's ReadFile of the old bytes.
TakeCopy ==
  /\ ~closed
  /\ Cardinality(copies) < MaxCopies
  /\ copies' = copies \cup {rows}
  /\ Silent
  /\ UNCHANGED <<rows, issued, jobs, req, closed, gone, dropped, reported, owed, clashed>>

\* r.db.Close in a Restore; after a failing one the handle may stay closed.
HandleCloses ==
  /\ ~closed
  /\ closed' = TRUE
  /\ Silent
  /\ UNCHANGED <<rows, copies, issued, jobs, req, gone, dropped, reported, owed, clashed>>

\* Close does not wait for the UPDATE that has the connection: it is answered
\* 200 and has written a file that the Restore replaces.  (One that is not
\* replaced is a write before the Close.)
WriteStranded(r) ==
  /\ closed
  /\ req[r].pc \in {"put", "act"}
  /\ Answer(r, 200)
  /\ clashed' = clashed \cup {req[r].id}
  /\ UNCHANGED <<rows, issued, jobs, gone, reported, owed, handle>>

\* r.db = reopened or db: on the snapshot, on the old bytes written back, or
\* on the file as it was when neither could be done.
HandleReopens(table) ==
  /\ closed
  /\ closed' = FALSE
  /\ rows' = table
  /\ gone' = (gone \cup Live) \ LiveIn(table)
  /\ owed' = [i \in Ids |-> IF i \in LiveIn(table) THEN table[i].state ELSE owed[i]]
  /\ clashed' = clashed \cup {i \in Ids : \E q \in Requests : Holds(q, i)}
  /\ Silent
  /\ UNCHANGED <<copies, issued, jobs, req, dropped, reported>>

Next ==
  \/ \E r \in Requests :
       \/ \E i \in Ids, n \in Names : Create(r, i, n)
       \/ \E i \in Ids : Get(r, i) \/ Delete(r, i) \/ PutRead(r, i)
       \/ PutReject(r)
       \/ \E n \in Edits \cup {Keep} : PutWrite(r, n)
       \/ \E i \in Ids, a \in Actions : ActionRead(r, i, a)
       \/ ActionReject(r)
       \/ ActionWrite(r)
       \/ \E j \in Jobs, i \in Ids : JobRecord(r, j, i)
       \/ JobInsert(r)
       \/ \E j \in Jobs : JobPoll(r, j)
       \/ WriteStranded(r)
  \/ Reset
  \/ TakeCopy
  \/ HandleCloses
  \/ \E table \in copies \cup {rows} : HandleReopens(table)

Spec == Init /\ [][Next]_vars

(***************************************************************************)
(* Safety.                                                                 *)
(***************************************************************************)

\* In what a GET returns, a flow is locked exactly when it names the user
\* that locked it, and the state column says the same, however reads and
\* writes of PUTs and actions interleave.
LockMatchesState ==
  \A i \in Live : /\ rows[i].locked <=> rows[i].state = "locked"
                  /\ rows[i].stateCol = rows[i].state

\* A deleted flow never comes back except by a Restore, even though PUTs and
\* actions that had read it are still in flight and will be answered 200.
DeletedStaysGone == gone \cap Live = {}

\* On a flow whose requests never overlapped each other or a Restore, the state
\* is the one that the last action answered 200, or the last Restore, has set and
\* no column disagrees with the body: nothing else loses an action or splits
\* the row.
QuietFlowIsExact ==
  \A i \in Live \ clashed :
    /\ rows[i].state = owed[i]
    /\ rows[i].nameCol = rows[i].name
    /\ rows[i].lockCol = rows[i].locked

\* CHANGELOG.md:173: state and lockedUser change through the actions only.
OnlyActionsTransition ==
  [][\A r \in Requests : req[r].pc = "put" =>
       \A n \in Edits \cup {Keep} : PutWrite(r, n) =>
         \A i \in Live : rows'[i].state = rows[i].state
                         /\ rows'[i].locked = rows[i].locked]_vars

\* handlers/flow.go:102: once its job has succeeded the flow's row is there until
\* it is deleted, reset or replaced by a Restore, whatever ran between recording
\* the job and inserting the row.  The code keeps this only for jobs whose INSERT
\* did not meet a closed handle: its error is dropped (flow.go:116), and any
\* Restore closes the handle for a while.
JobsFindTheirFlow == \A j \in reported : jobs[j] \in Live \cup gone \cup dropped
=============================================================================
