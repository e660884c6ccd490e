---------------------------- MODULE Flows_proofs ----------------------------
(***************************************************************************)
(* Proofs about Flows, for any number of requests, flows, jobs and names.  *)
(***************************************************************************)
EXTENDS Flows, TLAPS

USE DEF LiveIn, Holds, handle, Silent, Tables

(***************************************************************************)
(* The inductive invariant.                                                *)
(***************************************************************************)
\* Nothing is known of an id before newID() hands it out.
IssuedFirst ==
  /\ Live \subseteq issued
  /\ gone \subseteq issued
  /\ \A c \in copies : LiveIn(c) \subseteq issued
  /\ \A i \in Ids \ issued : owed[i] = "unpublished"
  /\ \A r \in Requests : req[r].pc # "idle" => req[r].id \in issued

\* The flow a job is about to insert is known to no other request.
InsertsAlone ==
  \A r \in Requests : req[r].pc = "insert" =>
    /\ req[r].id \notin Live \cup gone
    /\ \A c \in copies : req[r].id \notin LiveIn(c)
    /\ owed[req[r].id] = "unpublished"
    /\ \A q \in Requests \ {r} : req[q].pc # "idle" => req[q].id # req[r].id

\* A body names a locking user exactly when its state is locked, in the table
\* and in what a PUT or an action has read.
LockedBody(row) == row.locked <=> row.state = "locked"

ReadsLockedBodies == \A r \in Requests : req[r].pc \in {"put", "act"} => LockedBody(req[r].row)

\* On a flow whose requests never overlapped, what a request has read is what
\* the table still holds.
QuietReadsFresh ==
  \A r \in Requests :
    req[r].pc \in {"put", "act"} /\ req[r].id \in Live \ clashed => req[r].row = rows[req[r].id]

\* The name of a job's flow is borne by that flow only.
OwnName(i, n) == n \in Ids => n = i

NamesOwn ==
  /\ \A i \in Live : OwnName(i, rows[i].nameCol) /\ OwnName(i, rows[i].name)
  /\ \A r \in Requests : req[r].pc \in {"put", "act"} => OwnName(req[r].id, req[r].row.name)

\* What a Restore may bring back was the table once, and what the invariants
\* say of its rows was true then: nothing but a clash has changed since.
CopiesSound ==
  \A c \in copies : \A i \in LiveIn(c) :
    /\ LockedBody(c[i]) /\ c[i].stateCol = c[i].state
    /\ OwnName(i, c[i].nameCol) /\ OwnName(i, c[i].name)
    /\ i \notin clashed => c[i].nameCol = c[i].name /\ c[i].lockCol = c[i].locked

InsertPending(i) == \E r \in Requests : req[r].pc = "insert" /\ req[r].id = i

\* The flow of a job is in the table, has been there, is about to be inserted or
\* was dropped, and a job is reported only when its insert is over.
JobsLead ==
  /\ \A j \in Jobs : jobs[j] # Absent => jobs[j] \in issued
  /\ \A j \in Jobs : jobs[j] # Absent =>
       jobs[j] \in Live \cup gone \cup dropped \/ InsertPending(jobs[j])
  /\ \A j \in reported : jobs[j] # Absent /\ ~InsertPending(jobs[j])

IInv ==
  /\ TypeOK
  /\ IssuedFirst
  /\ InsertsAlone
  /\ DeletedStaysGone
  /\ ReadsLockedBodies
  /\ LockMatchesState
  /\ QuietReadsFresh
  /\ QuietFlowIsExact
  /\ NamesOwn
  /\ CopiesSound
  /\ JobsLead

(***************************************************************************)
(* Type correctness.                                                       *)
(***************************************************************************)
LEMMA RequestType ==
  ASSUME TypeOK, NEW r \in Requests
  PROVE  /\ req[r].pc \in {"idle", "put", "act", "insert"}
         /\ req[r].pc # "idle" => req[r].id \in Ids
         /\ req[r].pc \in {"put", "act"} => req[r].row \in Row
         /\ req[r].pc = "act" => req[r].action \in Actions
BY DEF TypeOK, InFlight, Idle

LEMMA LiveType ==
  ASSUME TypeOK, NEW i \in Live
  PROVE  i \in Ids /\ rows[i] \in Row
BY DEF TypeOK, Live

\* The rows that creates, PUTs and actions build, field by field.
LEMMA NewRowFields ==
  ASSUME NEW n \in AllNames
  PROVE  /\ NewRow(n) \in Row
         /\ NewRow(n).nameCol = n /\ NewRow(n).name = n
         /\ NewRow(n).stateCol = "unpublished" /\ NewRow(n).state = "unpublished"
         /\ NewRow(n).lockCol = FALSE /\ NewRow(n).locked = FALSE
BY DEF NewRow, Row, FlowStates

LEMMA EditedFields ==
  ASSUME NEW row \in Row, NEW n \in Edits \cup {Keep}
  PROVE  /\ Edited(row, n) \in Row
         /\ Edited(row, n).name \in AllNames
         /\ Edited(row, n).name \in {row.name} \cup Edits
         /\ Edited(row, n).state = row.state
         /\ Edited(row, n).locked = row.locked
         /\ Edited(row, n).lockCol = row.lockCol
<1>1. (IF n = Keep THEN row.name ELSE n) \in AllNames
  BY DEF Row, AllNames
<1>2. (IF n = Keep THEN row.name ELSE n) \in {row.name} \cup Edits
  OBVIOUS
<1> QED BY <1>1, <1>2 DEF Edited, Row

LEMMA PutFields ==
  ASSUME NEW i \in Ids, rows[i] \in Row, NEW body \in Row
  PROVE  LET new == WrittenByPut(i, body)
         IN /\ new \in Row
            /\ new.nameCol = body.name /\ new.name = body.name
            /\ new.stateCol = body.state /\ new.state = body.state
            /\ new.lockCol = rows[i].lockCol /\ new.locked = body.locked
BY DEF WrittenByPut, Row

LEMMA StateAfterType ==
  ASSUME NEW a \in Actions
  PROVE  StateAfter(a) \in FlowStates /\ (StateAfter(a) = "locked" <=> a = "checkout")
BY DEF StateAfter, FlowStates, Actions

LEMMA ActionFields ==
  ASSUME NEW i \in Ids, rows[i] \in Row, NEW body \in Row, NEW a \in Actions
  PROVE  LET new == WrittenByAction(i, body, a)
         IN /\ new \in Row
            /\ new.nameCol = rows[i].nameCol /\ new.name = body.name
            /\ new.stateCol = StateAfter(a) /\ new.state = StateAfter(a)
            /\ new.lockCol = Locks(a) /\ new.locked = Locks(a)
<1> DEFINE s == StateAfter(a)
           l == Locks(a)
<1>1. s \in FlowStates
  BY StateAfterType
<1>2. l \in BOOLEAN
  BY DEF Locks
<1>3. WrittenByAction(i, body, a) =
        [body EXCEPT !.nameCol = rows[i].nameCol, !.stateCol = s, !.state = s,
                     !.lockCol = l, !.locked = l]
  BY DEF WrittenByAction
<1> HIDE DEF s, l
<1>4. [body EXCEPT !.nameCol = rows[i].nameCol, !.stateCol = s, !.state = s,
                   !.lockCol = l, !.locked = l] \in Row
  BY <1>1, <1>2 DEF Row
<1>5. /\ WrittenByAction(i, body, a).nameCol = rows[i].nameCol
      /\ WrittenByAction(i, body, a).name = body.name
      /\ WrittenByAction(i, body, a).stateCol = s
      /\ WrittenByAction(i, body, a).state = s
      /\ WrittenByAction(i, body, a).lockCol = l
      /\ WrittenByAction(i, body, a).locked = l
  BY <1>3 DEF Row
<1> QED BY <1>3, <1>4, <1>5 DEF s, l

\* Goroutine r answers, and only its request changes.
LEMMA AnswerType ==
  ASSUME TypeOK, NEW r \in Requests, NEW status \in Statuses, Answer(r, status)
  PROVE  /\ reply' \in Statuses
         /\ req' \in [Requests -> InFlight \cup {Idle}]
         /\ req'[r].pc = "idle"
         /\ \A q \in Requests \ {r} : req'[q] = req[q]
BY DEF Answer, Idle, TypeOK

LEMMA TypeStep == TypeOK /\ [Next]_vars => TypeOK'
<1> SUFFICES ASSUME TypeOK, [Next]_vars PROVE TypeOK'
  OBVIOUS
<1> USE DEF Statuses
<1>1. ASSUME NEW r \in Requests, NEW i \in Ids, NEW n \in Names, Create(r, i, n) PROVE TypeOK'
  <2>1. NewRow(n) \in Row
    BY NewRowFields DEF AllNames
  <2>2. CASE closed \/ NameTaken(i, n)
    BY <1>1, <2>2, AnswerType DEF Create, TypeOK
  <2>3. CASE ~(closed \/ NameTaken(i, n))
    BY <1>1, <2>1, <2>3, AnswerType DEF Create, TypeOK
  <2> QED BY <2>2, <2>3
<1>2. ASSUME NEW r \in Requests, NEW i \in Ids, Get(r, i) PROVE TypeOK'
  BY <1>2, AnswerType DEF Get, Found, TypeOK
<1>3. ASSUME NEW r \in Requests, NEW i \in Ids, Delete(r, i) PROVE TypeOK'
  BY <1>3, AnswerType DEF Delete, Found, TypeOK
<1>4. ASSUME NEW r \in Requests, NEW i \in Ids, PutRead(r, i) PROVE TypeOK'
  <2>1. CASE Found(i) = 200
    <3>1. i \in Live
      BY <2>1 DEF Found
    <3>2. Editing(i, rows[i]) \in InFlight
      BY <3>1, LiveType DEF Editing, InFlight
    <3> QED BY <1>4, <2>1, <3>2 DEF PutRead, TypeOK
  <2>2. CASE Found(i) # 200
    BY <1>4, <2>2, AnswerType DEF PutRead, Found, TypeOK
  <2> QED BY <2>1, <2>2
<1>5. ASSUME NEW r \in Requests, PutReject(r) \/ ActionReject(r) PROVE TypeOK'
  BY <1>5, AnswerType DEF PutReject, ActionReject, TypeOK
<1>6. ASSUME NEW r \in Requests, NEW n \in Edits \cup {Keep}, PutWrite(r, n)
      PROVE  TypeOK'
  <2> DEFINE i == req[r].id
             body == Edited(req[r].row, n)
  <2>1. i \in Ids /\ body \in Row
    BY <1>6, RequestType, EditedFields DEF PutWrite, Overwrite
  <2>2. i \in Live => WrittenByPut(i, body) \in Row
    BY <2>1, LiveType, PutFields
  <2>3. CASE closed \/ (i \in Live /\ NameTaken(i, body.name))
    BY <1>6, <2>3, AnswerType DEF PutWrite, Overwrite, TypeOK
  <2>4. CASE ~(closed \/ (i \in Live /\ NameTaken(i, body.name)))
    BY <1>6, <2>1, <2>2, <2>4, AnswerType DEF PutWrite, Overwrite, NoteClash, TypeOK
  <2> QED BY <2>3, <2>4
<1>7. ASSUME NEW r \in Requests, NEW i \in Ids, NEW a \in Actions, ActionRead(r, i, a)
      PROVE  TypeOK'
  <2>1. CASE Found(i) = 200
    <3>1. i \in Live
      BY <2>1 DEF Found
    <3>2. Acting(i, rows[i], a) \in InFlight
      BY <3>1, LiveType DEF Acting, InFlight
    <3> QED BY <1>7, <2>1, <3>2 DEF ActionRead, TypeOK
  <2>2. CASE Found(i) # 200
    BY <1>7, <2>2, AnswerType DEF ActionRead, Found, TypeOK
  <2> QED BY <2>1, <2>2
<1>8. ASSUME NEW r \in Requests, ActionWrite(r) PROVE TypeOK'
  <2> DEFINE i == req[r].id
             a == req[r].action
  <2>1. i \in Ids /\ req[r].row \in Row /\ a \in Actions /\ StateAfter(a) \in FlowStates
    BY <1>8, RequestType, StateAfterType DEF ActionWrite, Overwrite
  <2>2. i \in Live => WrittenByAction(i, req[r].row, a) \in Row
    BY <2>1, LiveType, ActionFields
  <2>3. CASE closed
    BY <1>8, <2>3, AnswerType DEF ActionWrite, Overwrite, TypeOK
  <2>4. CASE ~closed
    BY <1>8, <2>1, <2>2, <2>4, AnswerType DEF ActionWrite, Overwrite, NoteClash, TypeOK
  <2> QED BY <2>3, <2>4
<1>9. ASSUME NEW r \in Requests, NEW j \in Jobs, NEW i \in Ids, JobRecord(r, j, i) PROVE TypeOK'
  <2>1. Inserting(i) \in InFlight
    BY DEF Inserting, InFlight
  <2> QED BY <1>9, <2>1 DEF JobRecord, TypeOK
<1>10. ASSUME NEW r \in Requests, JobInsert(r) PROVE TypeOK'
  <2>1. req[r].id \in Ids /\ NewRow(req[r].id) \in Row
    BY <1>10, RequestType, NewRowFields DEF JobInsert, AllNames
  <2> QED BY <1>10, <2>1, AnswerType DEF JobInsert, TypeOK
<1>11. ASSUME NEW r \in Requests, NEW j \in Jobs, JobPoll(r, j) PROVE TypeOK'
  BY <1>11, AnswerType DEF JobPoll, TypeOK
<1>12. CASE Reset
  BY <1>12 DEF Reset, Live, Tables, TypeOK
<1>13. CASE TakeCopy \/ HandleCloses
  <2>1. closed' \in BOOLEAN
    BY <1>13 DEF TakeCopy, HandleCloses, TypeOK
  <2>2. /\ copies' \subseteq Tables /\ reply' \in Statuses
        /\ UNCHANGED <<rows, issued, jobs, req, gone, dropped, reported, owed, clashed>>
    BY <1>13 DEF TakeCopy, HandleCloses, TypeOK
  <2> QED BY <2>1, <2>2 DEF TypeOK
<1>14. ASSUME NEW r \in Requests, WriteStranded(r) PROVE TypeOK'
  BY <1>14, AnswerType, RequestType DEF WriteStranded, TypeOK
<1>15. ASSUME NEW table \in copies \cup {rows}, HandleReopens(table) PROVE TypeOK'
  <2>1. table \in Tables
    BY DEF TypeOK
  <2>2. \A i \in LiveIn(table) : table[i].state \in FlowStates
    BY <2>1 DEF Tables, Row
  <2>3. owed' \in [Ids -> FlowStates]
    BY <1>15, <2>2 DEF HandleReopens, TypeOK
  <2>4. closed' \in BOOLEAN
    BY <1>15 DEF HandleReopens
  <2>5. /\ rows' \in Tables /\ reply' \in Statuses /\ gone' \subseteq Ids /\ clashed' \subseteq Ids
        /\ UNCHANGED <<copies, issued, jobs, req, dropped, reported>>
    BY <1>15, <2>1 DEF HandleReopens, Live, TypeOK
  <2> QED BY <2>3, <2>4, <2>5 DEF TypeOK
<1>16. CASE UNCHANGED vars
  BY <1>16 DEF vars, TypeOK
<1> QED
  BY <1>1, <1>2, <1>3, <1>4, <1>5, <1>6, <1>7, <1>8, <1>9, <1>10, <1>11, <1>12, <1>13,
     <1>14, <1>15, <1>16
     DEF Next

LEMMA TypeInit == Init => TypeOK
<1> SUFFICES ASSUME Init PROVE TypeOK
  OBVIOUS
<1>1. closed \in BOOLEAN
  BY DEF Init
<1>2. /\ rows \in [Ids -> Row \cup {Absent}]
      /\ jobs \in [Jobs -> Ids \cup {Absent}]
      /\ req \in [Requests -> InFlight \cup {Idle}]
      /\ reply \in Statuses
      /\ owed \in [Ids -> FlowStates]
      /\ copies = {} /\ issued = {} /\ gone = {} /\ dropped = {}
      /\ reported = {} /\ clashed = {}
  BY DEF Init, Statuses, FlowStates
<1> QED BY <1>1, <1>2 DEF TypeOK

\* Every variable keeps its type, whatever requests run side by side.
THEOREM TypeCorrect == Spec => []TypeOK
BY TypeInit, TypeStep, PTL DEF Spec

(***************************************************************************)
(* What one step does: six effects, whichever handler it is a step of.     *)
(***************************************************************************)
\* Nothing is written: rows may go, requests may end.
Kept ==
  /\ \A i \in Ids : rows'[i] \in {rows[i], Absent}
  /\ \A r \in Requests : req'[r] \in {req[r], Idle}
  /\ gone' = gone \cup (Live \ Live')
  /\ clashed \subseteq clashed'
  /\ UNCHANGED <<issued, owed>>

\* r reads flow i for a PUT or an action.
ReadBy(r, i) ==
  /\ i \in Live
  /\ \A q \in Requests \ {r} : req'[q] = req[q]
  /\ req'[r].pc \in {"put", "act"} /\ req'[r].id = i /\ req'[r].row = rows[i]
  /\ UNCHANGED <<rows, issued, gone, owed, clashed>>

\* r inserts flow i, new or promised by a job.
CreatedBy(r, i) ==
  /\ \/ i \notin issued /\ req[r] = Idle
     \/ req[r].pc = "insert" /\ req[r].id = i
  /\ \E n \in AllNames : OwnName(i, n) /\ rows' = [rows EXCEPT ![i] = NewRow(n)]
  /\ req'[r] = Idle
  /\ \A q \in Requests \ {r} : req'[q] = req[q]
  /\ issued' = issued \cup {i}
  /\ UNCHANGED <<gone, owed, clashed>>

\* r promises flow i to a job.
RecordedBy(r, i) ==
  /\ i \notin issued
  /\ req'[r] = Inserting(i)
  /\ \A q \in Requests \ {r} : req'[q] = req[q]
  /\ issued' = issued \cup {i}
  /\ UNCHANGED <<rows, gone, owed, clashed>>

\* r writes what it made of the flow i it had read, if the row is still there.
PutBy(r, i) ==
  /\ req[r].pc = "put"
  /\ \E n \in Edits \cup {Keep} :
       i \in Live => rows'[i] = WrittenByPut(i, Edited(req[r].row, n))
  /\ owed' = owed

ActedBy(r, i) ==
  /\ req[r].pc = "act"
  /\ i \in Live => rows'[i] = WrittenByAction(i, req[r].row, req[r].action)
  /\ owed' = [owed EXCEPT ![i] = StateAfter(req[r].action)]

WrittenBy(r, i) ==
  /\ req[r].id = i
  /\ PutBy(r, i) \/ ActedBy(r, i)
  /\ i \notin Live => rows'[i] = rows[i]
  /\ \A j \in Ids \ {i} : rows'[j] = rows[j]
  /\ req'[r] = Idle
  /\ \A q \in Requests \ {r} : req'[q] = req[q]
  /\ NoteClash(r, i)
  /\ UNCHANGED <<issued, gone>>

\* The table becomes one that was copied before, or stays.
Restored == \E table \in copies \cup {rows} : HandleReopens(table)

Effect ==
  \/ Kept
  \/ Restored
  \/ \E r \in Requests, i \in Ids :
       ReadBy(r, i) \/ CreatedBy(r, i) \/ RecordedBy(r, i) \/ WrittenBy(r, i)

LEMMA AnswerKept ==
  ASSUME TypeOK, NEW r \in Requests, NEW status, Answer(r, status),
         UNCHANGED <<rows, issued, gone, owed, clashed>>
  PROVE  Kept
BY DEF Answer, Kept, Live, TypeOK

LEMMA EffectStep == TypeOK /\ IssuedFirst /\ [Next]_vars => Effect
<1> SUFFICES ASSUME TypeOK, IssuedFirst, [Next]_vars PROVE Effect
  OBVIOUS
<1>1. ASSUME NEW r \in Requests, NEW i \in Ids, NEW n \in Names, Create(r, i, n) PROVE Effect
  <2>1. CASE closed \/ NameTaken(i, n)
    BY <1>1, <2>1, AnswerKept DEF Create, Effect
  <2>2. CASE ~(closed \/ NameTaken(i, n))
    <3>1. n \in AllNames /\ OwnName(i, n)
      BY NamesAssumption DEF AllNames, OwnName
    <3>2. CreatedBy(r, i)
      BY <1>1, <2>2, <3>1 DEF Create, CreatedBy, Answer, TypeOK
    <3> QED BY <3>2 DEF Effect
  <2> QED BY <2>1, <2>2
<1>2. ASSUME NEW r \in Requests, NEW i \in Ids, Get(r, i) PROVE Effect
  BY <1>2, AnswerKept DEF Get, Effect
<1>3. ASSUME NEW r \in Requests, NEW i \in Ids, Delete(r, i) PROVE Effect
  <2>1. CASE Found(i) = 200
    <3>1. i \in Live /\ rows' = [rows EXCEPT ![i] = Absent] /\ gone' = gone \cup {i}
      BY <1>3, <2>1 DEF Delete, Found
    <3>2. Live \ Live' = {i}
      BY <3>1 DEF Live, TypeOK
    <3>3. \A j \in Ids : rows'[j] \in {rows[j], Absent}
      BY <3>1 DEF TypeOK
    <3>4. \A q \in Requests : req'[q] \in {req[q], Idle}
      BY <1>3 DEF Delete, Answer, TypeOK
    <3> QED BY <1>3, <3>1, <3>2, <3>3, <3>4 DEF Delete, Kept, Effect
  <2>2. CASE Found(i) # 200
    BY <1>3, <2>2, AnswerKept DEF Delete, Effect
  <2> QED BY <2>1, <2>2
<1>4. ASSUME NEW r \in Requests, NEW i \in Ids, PutRead(r, i) PROVE Effect
  <2>1. CASE Found(i) = 200
    <3>1. ReadBy(r, i)
      BY <1>4, <2>1 DEF PutRead, ReadBy, Found, Editing, TypeOK
    <3> QED BY <3>1 DEF Effect
  <2>2. CASE Found(i) # 200
    BY <1>4, <2>2, AnswerKept DEF PutRead, Effect
  <2> QED BY <2>1, <2>2
<1>5. ASSUME NEW r \in Requests, PutReject(r) \/ ActionReject(r) PROVE Effect
  BY <1>5, AnswerKept DEF PutReject, ActionReject, Effect
<1>6. ASSUME NEW r \in Requests, NEW n \in Edits \cup {Keep}, PutWrite(r, n)
      PROVE  Effect
  <2> DEFINE i == req[r].id
             body == Edited(req[r].row, n)
  <2>1. i \in Ids
    BY <1>6, RequestType DEF PutWrite, Overwrite
  <2>2. CASE closed \/ (i \in Live /\ NameTaken(i, body.name))
    BY <1>6, <2>2, AnswerKept DEF PutWrite, Overwrite, Effect
  <2>3. CASE ~(closed \/ (i \in Live /\ NameTaken(i, body.name)))
    <3>1. /\ rows' = IF i \in Live THEN [rows EXCEPT ![i] = WrittenByPut(i, body)] ELSE rows
          /\ NoteClash(r, i) /\ req[r].pc = "put" /\ req' = [req EXCEPT ![r] = Idle]
          /\ UNCHANGED <<issued, gone, owed>>
      BY <1>6, <2>3 DEF PutWrite, Overwrite, Answer
    <3>2. PutBy(r, i)
      BY <2>1, <3>1 DEF PutBy, TypeOK
    <3>3. WrittenBy(r, i)
      BY <2>1, <3>1, <3>2 DEF WrittenBy, TypeOK
    <3> QED BY <2>1, <3>3 DEF Effect
  <2> QED BY <2>2, <2>3
<1>7. ASSUME NEW r \in Requests, NEW i \in Ids, NEW a \in Actions, ActionRead(r, i, a)
      PROVE  Effect
  <2>1. CASE Found(i) = 200
    <3>1. ReadBy(r, i)
      BY <1>7, <2>1 DEF ActionRead, ReadBy, Found, Acting, TypeOK
    <3> QED BY <3>1 DEF Effect
  <2>2. CASE Found(i) # 200
    BY <1>7, <2>2, AnswerKept DEF ActionRead, Effect
  <2> QED BY <2>1, <2>2
<1>8. ASSUME NEW r \in Requests, ActionWrite(r) PROVE Effect
  <2> DEFINE i == req[r].id
  <2>1. i \in Ids
    BY <1>8, RequestType DEF ActionWrite, Overwrite
  <2>2. CASE closed
    BY <1>8, <2>2, AnswerKept DEF ActionWrite, Overwrite, Effect
  <2>3. CASE ~closed
    <3>1. /\ rows' = IF i \in Live
                       THEN [rows EXCEPT ![i] = WrittenByAction(i, req[r].row, req[r].action)]
                       ELSE rows
          /\ owed' = [owed EXCEPT ![i] = StateAfter(req[r].action)]
          /\ NoteClash(r, i) /\ req[r].pc = "act" /\ req' = [req EXCEPT ![r] = Idle]
          /\ UNCHANGED <<issued, gone>>
      BY <1>8, <2>3 DEF ActionWrite, Overwrite, Answer
    <3>2. ActedBy(r, i)
      BY <2>1, <3>1 DEF ActedBy, TypeOK
    <3>3. WrittenBy(r, i)
      BY <2>1, <3>1, <3>2 DEF WrittenBy, TypeOK
    <3> QED BY <2>1, <3>3 DEF Effect
  <2> QED BY <2>2, <2>3
<1>9. ASSUME NEW r \in Requests, NEW j \in Jobs, NEW i \in Ids, JobRecord(r, j, i) PROVE Effect
  <2>1. RecordedBy(r, i)
    BY <1>9 DEF JobRecord, RecordedBy, TypeOK
  <2> QED BY <2>1 DEF Effect
<1>10. ASSUME NEW r \in Requests, JobInsert(r) PROVE Effect
  <2> DEFINE i == req[r].id
  <2>1. i \in Ids
    BY <1>10, RequestType DEF JobInsert
  <2>2. CASE closed \/ NameTaken(i, i)
    BY <1>10, <2>2, AnswerKept DEF JobInsert, Effect
  <2>3. CASE ~(closed \/ NameTaken(i, i))
    <3>1. CreatedBy(r, i)
      BY <1>10, <2>1, <2>3
         DEF JobInsert, CreatedBy, OwnName, Answer, AllNames, TypeOK, IssuedFirst
    <3> QED BY <2>1, <3>1 DEF Effect
  <2> QED BY <2>2, <2>3
<1>11. ASSUME NEW r \in Requests, NEW j \in Jobs, JobPoll(r, j) PROVE Effect
  BY <1>11, AnswerKept DEF JobPoll, Effect
<1>12. CASE Reset
  <2>1. Live \ Live' = Live
    BY <1>12 DEF Reset, Live
  <2> QED BY <1>12, <2>1 DEF Reset, Kept, Effect
<1>13. CASE TakeCopy \/ HandleCloses \/ UNCHANGED vars
  BY <1>13 DEF TakeCopy, HandleCloses, vars, Kept, Effect, Live
<1>14. ASSUME NEW r \in Requests, WriteStranded(r) PROVE Effect
  <2>1. rows' = rows /\ req' = [req EXCEPT ![r] = Idle] /\ clashed \subseteq clashed'
    BY <1>14 DEF WriteStranded, Answer
  <2> QED BY <1>14, <2>1 DEF WriteStranded, Kept, Effect, Live, TypeOK
<1>15. ASSUME NEW table \in copies \cup {rows}, HandleReopens(table) PROVE Effect
  BY <1>15 DEF Restored, Effect
<1> QED
  BY <1>1, <1>2, <1>3, <1>4, <1>5, <1>6, <1>7, <1>8, <1>9, <1>10, <1>11, <1>12, <1>13,
     <1>14, <1>15
     DEF Next

LEMMA CopiesStep == [Next]_vars => copies' \subseteq copies \cup {rows}
BY DEF Next, vars, Create, Get, Delete, PutRead, PutReject, PutWrite, ActionRead,
       ActionReject, ActionWrite, JobRecord, JobInsert, JobPoll, Reset, TakeCopy,
       HandleCloses, WriteStranded, HandleReopens

(***************************************************************************)
(* Ids, jobs and deleted flows.                                            *)
(***************************************************************************)
Ledger == IssuedFirst /\ InsertsAlone /\ DeletedStaysGone

LEMMA LedgerStep == TypeOK /\ Ledger /\ [Next]_vars => Ledger'
<1> SUFFICES ASSUME TypeOK, Ledger, [Next]_vars PROVE Ledger'
  OBVIOUS
<1> USE DEF Ledger, IssuedFirst, InsertsAlone, DeletedStaysGone, Live
<1>0. copies' \subseteq copies \cup {rows}
  BY CopiesStep
<1>1. CASE Kept
  <2>1. \A r \in Requests : req'[r].pc # "idle" => req'[r] = req[r]
    BY <1>1 DEF Kept, Idle
  <2>2. Live' \subseteq Live /\ gone' \cap Live' = {}
    BY <1>1 DEF Kept
  <2> QED BY <1>0, <1>1, <2>1, <2>2 DEF Kept
<1>2. ASSUME NEW r \in Requests, NEW i \in Ids, ReadBy(r, i) PROVE Ledger'
  BY <1>0, <1>2 DEF ReadBy
<1>3. ASSUME NEW r \in Requests, NEW i \in Ids, CreatedBy(r, i) PROVE Ledger'
  <2>1. PICK n \in AllNames : rows' = [rows EXCEPT ![i] = NewRow(n)]
    BY <1>3 DEF CreatedBy
  <2>2. Live' \subseteq Live \cup {i} /\ i \notin gone
    BY <1>3, <2>1 DEF CreatedBy, TypeOK
  <2>3. \A q \in Requests : req'[q].pc # "idle" => q # r /\ req'[q] = req[q] /\ req[q].id # i
    BY <1>3 DEF CreatedBy, Idle
  <2> QED BY <1>0, <1>3, <2>2, <2>3 DEF CreatedBy
<1>4. ASSUME NEW r \in Requests, NEW i \in Ids, RecordedBy(r, i) PROVE Ledger'
  <2>1. req'[r].id = i /\ req'[r].pc = "insert"
    BY <1>4 DEF RecordedBy, Inserting
  <2>2. \A q \in Requests \ {r} : req'[q].pc # "idle" => req'[q].id # i
    BY <1>4 DEF RecordedBy
  <2> QED BY <1>0, <1>4, <2>1, <2>2 DEF RecordedBy
<1>5. ASSUME NEW r \in Requests, NEW i \in Ids, WrittenBy(r, i) PROVE Ledger'
  <2>1. req[r].pc \in {"put", "act"} /\ req[r].id = i
    BY <1>5 DEF WrittenBy, PutBy, ActedBy
  <2>2. Live' \subseteq Live
    BY <1>5 DEF WrittenBy
  <2>3. i \in issued /\ \A q \in Requests \ {r} : req[q].pc = "insert" => req[q].id # i
    BY <2>1
  <2>4. \A j \in Ids \ {i} : owed'[j] = owed[j]
    BY <1>5 DEF WrittenBy, PutBy, ActedBy, TypeOK
  <2>5. \A q \in Requests : req'[q].pc # "idle" => q # r /\ req'[q] = req[q]
    BY <1>5 DEF WrittenBy, Idle
  <2>6. \A q \in Requests : req[q].pc # "idle" => req[q].id \in Ids
    BY RequestType
  <2>7. IssuedFirst'
    BY <1>0, <1>5, <2>2, <2>3, <2>4, <2>5 DEF WrittenBy
  <2>8. InsertsAlone'
    BY <1>0, <1>5, <2>2, <2>3, <2>4, <2>5, <2>6 DEF WrittenBy
  <2> QED BY <1>5, <2>2, <2>7, <2>8 DEF WrittenBy
<1>6. ASSUME NEW table \in copies \cup {rows}, HandleReopens(table) PROVE Ledger'
  <2>1. LiveIn(table) \subseteq issued
    OBVIOUS
  <2>2. Live' = LiveIn(table) /\ UNCHANGED <<issued, req>>
    BY <1>6 DEF HandleReopens
  <2>3. gone' = (gone \cup Live) \ LiveIn(table)
    BY <1>6 DEF HandleReopens
  <2>4. \A i \in Ids \ LiveIn(table) : owed'[i] = owed[i]
    BY <1>6 DEF HandleReopens
  <2>5. \A q \in Requests : req[q].pc # "idle" => req[q].id \in Ids
    BY RequestType
  <2>6. IssuedFirst'
    BY <1>0, <2>1, <2>2, <2>3, <2>4
  <2>7. InsertsAlone'
    BY <1>0, <2>2, <2>3, <2>4, <2>5
  <2> QED BY <2>2, <2>3, <2>6, <2>7
<1> QED BY <1>1, <1>2, <1>3, <1>4, <1>5, <1>6, EffectStep DEF Effect, Restored

(***************************************************************************)
(* The lock and the state.                                                 *)
(***************************************************************************)
\* A PUT writes back a lock and a state that were read together, an action
\* writes both anew.
LEMMA LockStep ==
  TypeOK /\ Ledger /\ ReadsLockedBodies /\ LockMatchesState /\ CopiesSound /\ [Next]_vars
    => ReadsLockedBodies' /\ LockMatchesState'
<1> SUFFICES ASSUME TypeOK, Ledger, ReadsLockedBodies, LockMatchesState, CopiesSound, [Next]_vars
             PROVE  ReadsLockedBodies' /\ LockMatchesState'
  OBVIOUS
<1> USE DEF ReadsLockedBodies, LockMatchesState, Live, LockedBody
<1>1. CASE Kept
  <2>1. \A r \in Requests : req'[r].pc # "idle" => req'[r] = req[r]
    BY <1>1 DEF Kept, Idle
  <2> QED BY <1>1, <2>1 DEF Kept
<1>2. ASSUME NEW r \in Requests, NEW i \in Ids, ReadBy(r, i)
      PROVE  ReadsLockedBodies' /\ LockMatchesState'
  BY <1>2 DEF ReadBy
<1>3. ASSUME NEW r \in Requests, NEW i \in Ids, CreatedBy(r, i)
      PROVE  ReadsLockedBodies' /\ LockMatchesState'
  <2>1. PICK n \in AllNames : rows' = [rows EXCEPT ![i] = NewRow(n)]
    BY <1>3 DEF CreatedBy
  <2>2. LockedBody(rows'[i]) /\ rows'[i].stateCol = rows'[i].state
    BY <2>1, NewRowFields DEF TypeOK
  <2>3. \A j \in Ids \ {i} : rows'[j] = rows[j]
    BY <2>1 DEF TypeOK
  <2> QED BY <1>3, <2>2, <2>3 DEF CreatedBy, Idle
<1>4. ASSUME NEW r \in Requests, NEW i \in Ids, RecordedBy(r, i)
      PROVE  ReadsLockedBodies' /\ LockMatchesState'
  BY <1>4 DEF RecordedBy, Inserting
<1>5. ASSUME NEW r \in Requests, NEW i \in Ids, WrittenBy(r, i)
      PROVE  ReadsLockedBodies' /\ LockMatchesState'
  <2>1. ReadsLockedBodies'
    BY <1>5 DEF WrittenBy, Idle
  <2>2. ASSUME i \in Live PROVE LockedBody(rows'[i]) /\ rows'[i].stateCol = rows'[i].state
    <3>1. rows[i] \in Row
      BY <2>2, LiveType
    <3>2. CASE PutBy(r, i)
      <4>1. PICK n \in Edits \cup {Keep} :
              rows'[i] = WrittenByPut(i, Edited(req[r].row, n))
        BY <2>2, <3>2 DEF PutBy
      <4>2. req[r].row \in Row /\ LockedBody(req[r].row)
        BY <3>2, RequestType DEF PutBy
      <4>3. Edited(req[r].row, n) \in Row /\ LockedBody(Edited(req[r].row, n))
        BY <4>2, EditedFields
      <4> QED BY <3>1, <4>1, <4>3, PutFields
    <3>3. CASE ActedBy(r, i)
      <4> DEFINE a == req[r].action
      <4>1. req[r].row \in Row /\ a \in Actions
        BY <3>3, RequestType DEF ActedBy
      <4>2. rows'[i] = WrittenByAction(i, req[r].row, a)
        BY <2>2, <3>3 DEF ActedBy
      <4> HIDE DEF a
      <4>3. /\ rows'[i].stateCol = StateAfter(a) /\ rows'[i].state = StateAfter(a)
            /\ rows'[i].locked = Locks(a)
        BY <3>1, <4>1, <4>2, ActionFields
      <4>4. Locks(a) <=> StateAfter(a) = "locked"
        BY <4>1, StateAfterType DEF Locks
      <4> QED BY <4>3, <4>4
    <3> QED BY <1>5, <3>2, <3>3 DEF WrittenBy
  <2> QED BY <1>5, <2>1, <2>2 DEF WrittenBy
<1>6. ASSUME NEW table \in copies \cup {rows}, HandleReopens(table)
      PROVE  ReadsLockedBodies' /\ LockMatchesState'
  BY <1>6 DEF HandleReopens, CopiesSound
<1> QED BY <1>1, <1>2, <1>3, <1>4, <1>5, <1>6, EffectStep DEF Effect, Restored, Ledger

(***************************************************************************)
(* Flows whose requests never overlapped.                                  *)
(***************************************************************************)
\* The row of i agrees with itself and with the last acknowledged action.
Exact(i) ==
  /\ rows[i].state = owed[i]
  /\ rows[i].nameCol = rows[i].name
  /\ rows[i].lockCol = rows[i].locked

\* The write of a request that had a fresh read of an exact row is exact.
LEMMA WriteExact ==
  ASSUME TypeOK, NEW r \in Requests, NEW i \in Live, WrittenBy(r, i),
         req[r].row = rows[i], Exact(i)
  PROVE  Exact(i)'
<1>1. rows[i] \in Row /\ i \in Ids /\ owed[i] \in FlowStates
  BY LiveType DEF TypeOK
<1>2. CASE PutBy(r, i)
  <2>1. PICK n \in Edits \cup {Keep} :
          rows'[i] = WrittenByPut(i, Edited(rows[i], n))
    BY <1>2 DEF PutBy
  <2> DEFINE body == Edited(rows[i], n)
  <2>2. body \in Row /\ body.state = rows[i].state /\ body.locked = rows[i].locked
    BY <1>1, EditedFields
  <2>3. rows'[i] = WrittenByPut(i, body)
    BY <2>1
  <2> HIDE DEF body
  <2>4. /\ rows'[i].state = body.state /\ rows'[i].nameCol = rows'[i].name
        /\ rows'[i].lockCol = rows[i].lockCol /\ rows'[i].locked = body.locked
    BY <1>1, <2>2, <2>3, PutFields
  <2> QED BY <1>2, <2>2, <2>4 DEF PutBy, Exact
<1>3. CASE ActedBy(r, i)
  <2> DEFINE a == req[r].action
  <2>1. a \in Actions
    BY <1>3, RequestType DEF ActedBy
  <2>2. rows'[i] = WrittenByAction(i, rows[i], a) /\ owed' = [owed EXCEPT ![i] = StateAfter(a)]
    BY <1>3 DEF ActedBy
  <2>3. owed'[i] = StateAfter(a)
    BY <1>1, <2>2 DEF TypeOK
  <2> HIDE DEF a
  <2>4. /\ rows'[i].state = StateAfter(a) /\ rows'[i].nameCol = rows[i].nameCol
        /\ rows'[i].name = rows[i].name /\ rows'[i].lockCol = rows'[i].locked
    BY <1>1, <2>1, <2>2, ActionFields
  <2> QED BY <2>3, <2>4 DEF Exact
<1> QED BY <1>2, <1>3 DEF WrittenBy

LEMMA QuietStep ==
  TypeOK /\ Ledger /\ QuietReadsFresh /\ QuietFlowIsExact /\ CopiesSound /\ [Next]_vars
    => QuietReadsFresh' /\ QuietFlowIsExact'
<1> SUFFICES ASSUME TypeOK, Ledger, QuietReadsFresh, QuietFlowIsExact, CopiesSound, [Next]_vars
             PROVE  QuietReadsFresh' /\ QuietFlowIsExact'
  OBVIOUS
<1> USE DEF QuietReadsFresh, QuietFlowIsExact, Live
<1>1. CASE Kept
  <2>1. \A r \in Requests : req'[r].pc # "idle" => req'[r] = req[r]
    BY <1>1 DEF Kept, Idle
  <2>2. \A r \in Requests : req[r].pc # "idle" => req[r].id \in Ids
    BY RequestType
  <2>3. \A i \in Live' : i \in Live /\ rows'[i] = rows[i]
    BY <1>1 DEF Kept
  <2> QED BY <1>1, <2>1, <2>2, <2>3 DEF Kept
<1>2. ASSUME NEW r \in Requests, NEW i \in Ids, ReadBy(r, i)
      PROVE  QuietReadsFresh' /\ QuietFlowIsExact'
  BY <1>2 DEF ReadBy
<1>3. ASSUME NEW r \in Requests, NEW i \in Ids, CreatedBy(r, i)
      PROVE  QuietReadsFresh' /\ QuietFlowIsExact'
  <2>1. PICK n \in AllNames : rows' = [rows EXCEPT ![i] = NewRow(n)]
    BY <1>3 DEF CreatedBy
  <2>2. owed'[i] = "unpublished"
    BY <1>3 DEF CreatedBy, Ledger, IssuedFirst, InsertsAlone
  <2>3. /\ rows'[i].state = owed'[i] /\ rows'[i].nameCol = rows'[i].name
        /\ rows'[i].lockCol = rows'[i].locked
    BY <2>1, <2>2, NewRowFields DEF TypeOK
  <2>4. \A j \in Ids \ {i} : rows'[j] = rows[j]
    BY <2>1 DEF TypeOK
  <2>5. QuietFlowIsExact'
    BY <1>3, <2>3, <2>4 DEF CreatedBy
  <2>6. \A q \in Requests : req'[q].pc \in {"put", "act"} =>
          req'[q] = req[q] /\ req[q].id \in Ids \ {i}
    BY <1>3, RequestType DEF CreatedBy, Idle, Ledger, IssuedFirst, InsertsAlone
  <2>7. QuietReadsFresh'
    BY <1>3, <2>4, <2>6 DEF CreatedBy
  <2> QED BY <2>5, <2>7
<1>4. ASSUME NEW r \in Requests, NEW i \in Ids, RecordedBy(r, i)
      PROVE  QuietReadsFresh' /\ QuietFlowIsExact'
  BY <1>4 DEF RecordedBy, Inserting
<1>5. ASSUME NEW r \in Requests, NEW i \in Ids, WrittenBy(r, i)
      PROVE  QuietReadsFresh' /\ QuietFlowIsExact'
  <2>1. req[r].pc \in {"put", "act"} /\ req[r].id = i
    BY <1>5 DEF WrittenBy, PutBy, ActedBy
  <2>2. /\ clashed \subseteq clashed'
        /\ \A q \in Requests \ {r} :
             req[q].pc \in {"put", "act"} /\ req[q].id = i => i \in clashed'
    BY <1>5 DEF WrittenBy, NoteClash
  <2>3. \A q \in Requests : req'[q].pc \in {"put", "act"} =>
          q # r /\ req'[q] = req[q] /\ req[q].id \in Ids
    BY <1>5, RequestType DEF WrittenBy, Idle
  <2>4. QuietReadsFresh'
    BY <1>5, <2>2, <2>3 DEF WrittenBy
  <2>5. \A j \in Ids \ {i} : rows'[j] = rows[j] /\ owed'[j] = owed[j]
    BY <1>5 DEF WrittenBy, PutBy, ActedBy, TypeOK
  <2>6. ASSUME i \in Live' \ clashed' PROVE Exact(i)'
    <3>1. i \in Live /\ i \notin clashed
      BY <1>5, <2>2, <2>6 DEF WrittenBy
    <3>2. req[r].row = rows[i] /\ Exact(i)
      BY <2>1, <3>1 DEF Exact
    <3> QED BY <1>5, <3>1, <3>2, WriteExact
  <2>7. QuietFlowIsExact'
    BY <2>2, <2>5, <2>6 DEF Exact
  <2> QED BY <2>4, <2>7
<1>6. ASSUME NEW table \in copies \cup {rows}, HandleReopens(table)
      PROVE  QuietReadsFresh' /\ QuietFlowIsExact'
  <2>1. rows' = table /\ req' = req /\ clashed \subseteq clashed'
    BY <1>6 DEF HandleReopens
  <2>2. \A q \in Requests : req[q].pc \in {"put", "act"} => req[q].id \in clashed'
    BY <1>6, RequestType DEF HandleReopens
  <2>3. \A i \in LiveIn(table) : owed'[i] = table[i].state
    BY <1>6 DEF HandleReopens
  <2>4. \A i \in LiveIn(table) \ clashed :
          table[i].nameCol = table[i].name /\ table[i].lockCol = table[i].locked
    BY DEF CopiesSound
  <2> QED BY <2>1, <2>2, <2>3, <2>4
<1> QED BY <1>1, <1>2, <1>3, <1>4, <1>5, <1>6, EffectStep DEF Effect, Restored, Ledger

(***************************************************************************)
(* Upload jobs.                                                            *)
(***************************************************************************)
LEMMA NamesStep == TypeOK /\ Ledger /\ NamesOwn /\ CopiesSound /\ [Next]_vars => NamesOwn'
<1> SUFFICES ASSUME TypeOK, Ledger, NamesOwn, CopiesSound, [Next]_vars PROVE NamesOwn'
  OBVIOUS
<1> USE DEF NamesOwn, Live
<1>1. CASE Kept
  <2>1. \A r \in Requests : req'[r].pc # "idle" => req'[r] = req[r]
    BY <1>1 DEF Kept, Idle
  <2>2. \A i \in Live' : i \in Live /\ rows'[i] = rows[i]
    BY <1>1 DEF Kept
  <2> QED BY <2>1, <2>2 DEF OwnName
<1>2. ASSUME NEW r \in Requests, NEW i \in Ids, ReadBy(r, i) PROVE NamesOwn'
  BY <1>2 DEF ReadBy, OwnName
<1>3. ASSUME NEW r \in Requests, NEW i \in Ids, CreatedBy(r, i) PROVE NamesOwn'
  <2>1. PICK n \in AllNames : OwnName(i, n) /\ rows' = [rows EXCEPT ![i] = NewRow(n)]
    BY <1>3 DEF CreatedBy
  <2>2. rows'[i].nameCol = n /\ rows'[i].name = n
    BY <2>1, NewRowFields DEF TypeOK
  <2>3. \A k \in Ids \ {i} : rows'[k] = rows[k]
    BY <2>1 DEF TypeOK
  <2>4. \A q \in Requests : req'[q].pc # "idle" => req'[q] = req[q]
    BY <1>3 DEF CreatedBy, Idle
  <2> QED BY <2>1, <2>2, <2>3, <2>4 DEF OwnName
<1>4. ASSUME NEW r \in Requests, NEW i \in Ids, RecordedBy(r, i) PROVE NamesOwn'
  BY <1>4 DEF RecordedBy, Inserting, OwnName
<1>5. ASSUME NEW r \in Requests, NEW i \in Ids, WrittenBy(r, i) PROVE NamesOwn'
  <2>1. \A q \in Requests : req'[q].pc # "idle" => req'[q] = req[q]
    BY <1>5 DEF WrittenBy, Idle
  <2>2. \A k \in Ids \ {i} : rows'[k] = rows[k]
    BY <1>5 DEF WrittenBy
  <2>3. ASSUME i \in Live PROVE OwnName(i, rows'[i].nameCol) /\ OwnName(i, rows'[i].name)
    <3>1. rows[i] \in Row /\ OwnName(i, rows[i].nameCol)
      BY <2>3, LiveType
    <3>2. req[r].row \in Row /\ OwnName(i, req[r].row.name)
      BY <1>5, RequestType DEF WrittenBy, PutBy, ActedBy
    <3>3. CASE PutBy(r, i)
      <4>1. PICK n \in Edits \cup {Keep} :
              rows'[i] = WrittenByPut(i, Edited(req[r].row, n))
        BY <2>3, <3>3 DEF PutBy
      <4> DEFINE body == Edited(req[r].row, n)
      <4>2. body \in Row /\ body.name \in {req[r].row.name} \cup Edits
        BY <3>2, EditedFields
      <4>3. OwnName(i, body.name)
        BY <3>2, <4>2, NamesAssumption DEF OwnName
      <4>4. rows'[i] = WrittenByPut(i, body)
        BY <4>1
      <4> HIDE DEF body
      <4>5. rows'[i].nameCol = body.name /\ rows'[i].name = body.name
        BY <3>1, <4>2, <4>4, PutFields
      <4> QED BY <4>3, <4>5
    <3>4. CASE ActedBy(r, i)
      <4> DEFINE a == req[r].action
      <4>1. a \in Actions
        BY <3>4, RequestType DEF ActedBy
      <4>2. rows'[i] = WrittenByAction(i, req[r].row, a)
        BY <2>3, <3>4 DEF ActedBy
      <4> HIDE DEF a
      <4>3. rows'[i].nameCol = rows[i].nameCol /\ rows'[i].name = req[r].row.name
        BY <3>1, <3>2, <4>1, <4>2, ActionFields
      <4> QED BY <3>1, <3>2, <4>3
    <3> QED BY <1>5, <3>3, <3>4 DEF WrittenBy
  <2>4. Live' \subseteq Live
    BY <1>5 DEF WrittenBy
  <2> QED BY <2>1, <2>2, <2>3, <2>4 DEF OwnName
<1>6. ASSUME NEW table \in copies \cup {rows}, HandleReopens(table) PROVE NamesOwn'
  BY <1>6 DEF HandleReopens, CopiesSound
<1> QED BY <1>1, <1>2, <1>3, <1>4, <1>5, <1>6, EffectStep DEF Effect, Restored, Ledger

LEMMA CopiesSoundStep ==
  TypeOK /\ Ledger /\ LockMatchesState /\ NamesOwn /\ QuietFlowIsExact /\ CopiesSound
    /\ [Next]_vars => CopiesSound'
<1> SUFFICES ASSUME TypeOK, Ledger, LockMatchesState, NamesOwn, QuietFlowIsExact,
                    CopiesSound, [Next]_vars
             PROVE  CopiesSound'
  OBVIOUS
<1>1. copies' \subseteq copies \cup {rows}
  BY CopiesStep
<1>2. clashed \subseteq clashed'
  <2>1. Effect
    BY EffectStep DEF Ledger
  <2> QED
    BY <2>1 DEF Effect, Kept, Restored, HandleReopens, ReadBy, CreatedBy, RecordedBy,
                WrittenBy, NoteClash
<1> QED
  BY <1>1, <1>2 DEF CopiesSound, LockMatchesState, LockedBody, NamesOwn, QuietFlowIsExact, Live

\* Nothing that was ever in the table is forgotten.
LEMMA SeenGrows ==
  TypeOK /\ Ledger /\ [Next]_vars => Live \cup gone \subseteq (Live \cup gone)' /\ issued \subseteq issued'
<1> SUFFICES ASSUME TypeOK, Ledger, [Next]_vars
             PROVE  Live \cup gone \subseteq (Live \cup gone)' /\ issued \subseteq issued'
  OBVIOUS
<1> USE DEF Live
<1>1. CASE Kept
  BY <1>1 DEF Kept
<1>2. ASSUME NEW r \in Requests, NEW i \in Ids, ReadBy(r, i) \/ RecordedBy(r, i)
      PROVE  Live \cup gone \subseteq (Live \cup gone)' /\ issued \subseteq issued'
  BY <1>2 DEF ReadBy, RecordedBy
<1>3. ASSUME NEW r \in Requests, NEW i \in Ids, CreatedBy(r, i)
      PROVE  Live \cup gone \subseteq (Live \cup gone)' /\ issued \subseteq issued'
  <2>1. PICK n \in AllNames : rows' = [rows EXCEPT ![i] = NewRow(n)]
    BY <1>3 DEF CreatedBy
  <2>2. NewRow(n) # Absent
    BY NewRowFields, AbsentRowAssumption
  <2> QED BY <1>3, <2>1, <2>2 DEF CreatedBy, TypeOK
<1>4. ASSUME NEW r \in Requests, NEW i \in Ids, WrittenBy(r, i)
      PROVE  Live \cup gone \subseteq (Live \cup gone)' /\ issued \subseteq issued'
  <2>1. ASSUME i \in Live PROVE rows'[i] # Absent
    <3>1. rows[i] \in Row
      BY <2>1, LiveType
    <3>2. CASE PutBy(r, i)
      <4>1. PICK n \in Edits \cup {Keep} :
              rows'[i] = WrittenByPut(i, Edited(req[r].row, n))
        BY <2>1, <3>2 DEF PutBy
      <4>2. Edited(req[r].row, n) \in Row
        BY <3>2, RequestType, EditedFields DEF PutBy
      <4> QED BY <3>1, <4>1, <4>2, PutFields, AbsentRowAssumption
    <3>3. CASE ActedBy(r, i)
      <4>1. req[r].row \in Row /\ req[r].action \in Actions
        BY <3>3, RequestType DEF ActedBy
      <4>2. rows'[i] = WrittenByAction(i, req[r].row, req[r].action)
        BY <2>1, <3>3 DEF ActedBy
      <4> QED BY <3>1, <4>1, <4>2, ActionFields, AbsentRowAssumption
    <3> QED BY <1>4, <3>2, <3>3 DEF WrittenBy
  <2> QED BY <1>4, <2>1 DEF WrittenBy
<1>5. ASSUME NEW table \in copies \cup {rows}, HandleReopens(table)
      PROVE  Live \cup gone \subseteq (Live \cup gone)' /\ issued \subseteq issued'
  BY <1>5 DEF HandleReopens
<1> QED BY <1>1, <1>2, <1>3, <1>4, <1>5, EffectStep DEF Effect, Restored, Ledger

\* A step of anything but an upload job leaves jobs and their inserts alone.
JobsAside ==
  /\ UNCHANGED <<jobs, reported, dropped>>
  /\ \A r \in Requests : req[r].pc = "insert" \/ req'[r].pc = "insert" => req'[r] = req[r]

LEMMA AnswerAside ==
  ASSUME TypeOK, NEW r \in Requests, NEW status, Answer(r, status), req[r].pc # "insert",
         UNCHANGED <<jobs, reported, dropped>>
  PROVE  JobsAside
BY DEF Answer, JobsAside, Idle, TypeOK

LEMMA JobsAsideStep ==
  TypeOK /\ [Next]_vars =>
    \/ JobsAside
    \/ \E r \in Requests : JobInsert(r)
    \/ \E r \in Requests, j \in Jobs : JobPoll(r, j)
    \/ \E r \in Requests, j \in Jobs, i \in Ids : JobRecord(r, j, i)
<1> SUFFICES ASSUME TypeOK, [Next]_vars,
                    ~ \E r \in Requests : JobInsert(r),
                    ~ \E r \in Requests, j \in Jobs : JobPoll(r, j),
                    ~ \E r \in Requests, j \in Jobs, i \in Ids : JobRecord(r, j, i)
             PROVE  JobsAside
  OBVIOUS
<1>1. ASSUME NEW r \in Requests, NEW i \in Ids, NEW n \in Names, Create(r, i, n) PROVE JobsAside
  BY <1>1, AnswerAside DEF Create, Idle
<1>2. ASSUME NEW r \in Requests, NEW i \in Ids, Get(r, i) \/ Delete(r, i) PROVE JobsAside
  BY <1>2, AnswerAside DEF Get, Delete, Idle
<1>3. ASSUME NEW r \in Requests, NEW i \in Ids, PutRead(r, i) PROVE JobsAside
  <2>1. CASE Found(i) = 200
    BY <1>3, <2>1 DEF PutRead, Editing, JobsAside, Idle, TypeOK
  <2>2. CASE Found(i) # 200
    BY <1>3, <2>2, AnswerAside DEF PutRead, Idle
  <2> QED BY <2>1, <2>2
<1>4. ASSUME NEW r \in Requests, NEW i \in Ids, NEW a \in Actions, ActionRead(r, i, a)
      PROVE  JobsAside
  <2>1. CASE Found(i) = 200
    BY <1>4, <2>1 DEF ActionRead, Acting, JobsAside, Idle, TypeOK
  <2>2. CASE Found(i) # 200
    BY <1>4, <2>2, AnswerAside DEF ActionRead, Idle
  <2> QED BY <2>1, <2>2
<1>5. ASSUME NEW r \in Requests, PutReject(r) \/ ActionReject(r) PROVE JobsAside
  BY <1>5, AnswerAside DEF PutReject, ActionReject, Idle
<1>6. ASSUME NEW r \in Requests, NEW n \in Edits \cup {Keep}, PutWrite(r, n)
      PROVE  JobsAside
  BY <1>6, AnswerAside DEF PutWrite
<1>7. ASSUME NEW r \in Requests, ActionWrite(r) PROVE JobsAside
  BY <1>7, AnswerAside DEF ActionWrite
<1>8. CASE Reset \/ TakeCopy \/ HandleCloses \/ UNCHANGED vars
  BY <1>8 DEF Reset, TakeCopy, HandleCloses, vars, JobsAside
<1>9. ASSUME NEW r \in Requests, WriteStranded(r) PROVE JobsAside
  BY <1>9, AnswerAside DEF WriteStranded
<1>10. ASSUME NEW table \in copies \cup {rows}, HandleReopens(table) PROVE JobsAside
  BY <1>10 DEF HandleReopens, JobsAside
<1> QED BY <1>1, <1>2, <1>3, <1>4, <1>5, <1>6, <1>7, <1>8, <1>9, <1>10 DEF Next

LEMMA JobsStep ==
  TypeOK /\ Ledger /\ NamesOwn /\ JobsLead /\ [Next]_vars => JobsLead'
<1> SUFFICES ASSUME TypeOK, Ledger, NamesOwn, JobsLead, [Next]_vars PROVE JobsLead'
  OBVIOUS
<1> DEFINE Seen == Live \cup gone
<1>1. Seen \subseteq Seen' /\ issued \subseteq issued'
  BY SeenGrows
<1> HIDE DEF Seen
<1>3. CASE JobsAside
  <2>1. \A i : InsertPending(i)' <=> InsertPending(i)
    BY <1>3 DEF InsertPending, JobsAside
  <2> QED BY <1>1, <1>3, <2>1 DEF JobsLead, JobsAside, Seen
<1>4. ASSUME NEW r \in Requests, JobInsert(r) PROVE JobsLead'
  <2> DEFINE i == req[r].id
  <2>1. /\ i \in Ids /\ req[r].pc = "insert" /\ req' = [req EXCEPT ![r] = Idle]
        /\ dropped' = (IF closed THEN dropped \cup {i} ELSE dropped)
        /\ UNCHANGED <<jobs, reported>>
    BY <1>4, RequestType DEF JobInsert, Answer
  <2>2. ~NameTaken(i, i)
    BY <2>1 DEF NameTaken, NamesOwn, OwnName, Live
  <2>3. i \in Live' \cup dropped' /\ dropped \subseteq dropped'
    <3>1. NewRow(i) # Absent
      BY <2>1, NewRowFields, AbsentRowAssumption DEF AllNames
    <3> QED BY <1>4, <2>1, <2>2, <3>1 DEF JobInsert, Live, TypeOK
  <2>4. \A k : InsertPending(k)' => InsertPending(k)
    BY <2>1 DEF InsertPending, Idle, TypeOK
  <2>5. \A k : InsertPending(k) => k = i \/ InsertPending(k)'
    BY <2>1 DEF InsertPending, TypeOK
  <2> HIDE DEF i
  <2> QED BY <1>1, <2>1, <2>3, <2>4, <2>5 DEF JobsLead, Seen
<1>5. ASSUME NEW r \in Requests, NEW j \in Jobs, JobPoll(r, j) PROVE JobsLead'
  <2>1. \A k : InsertPending(k)' <=> InsertPending(k)
    BY <1>5 DEF JobPoll, Answer, InsertPending, Idle, TypeOK
  <2>2. UNCHANGED <<jobs, dropped>>
    BY <1>5 DEF JobPoll
  <2>3. reported' \subseteq reported \cup (IF jobs[j] = Absent THEN {} ELSE {j})
    BY <1>5 DEF JobPoll
  <2>4. ~InsertPending(jobs[j])
    BY <1>5 DEF JobPoll, InsertPending
  <2> QED BY <1>1, <2>1, <2>2, <2>3, <2>4 DEF JobsLead, Seen
<1>6. ASSUME NEW r \in Requests, NEW j \in Jobs, NEW i \in Ids, JobRecord(r, j, i)
      PROVE  JobsLead'
  <2>1. /\ req[r] = Idle /\ jobs[j] = Absent /\ i \notin issued
        /\ jobs' = [jobs EXCEPT ![j] = i] /\ issued' = issued \cup {i}
        /\ req' = [req EXCEPT ![r] = Inserting(i)]
        /\ UNCHANGED <<dropped, reported>>
    BY <1>6 DEF JobRecord
  <2>2. \A k : InsertPending(k)' <=> k = i \/ InsertPending(k)
    BY <2>1 DEF InsertPending, Inserting, Idle, TypeOK
  <2>3. jobs'[j] = i /\ \A k \in Jobs \ {j} : jobs'[k] = jobs[k]
    BY <2>1 DEF TypeOK
  <2>4. reported \subseteq Jobs
    BY DEF TypeOK
  <2> QED BY <1>1, <2>1, <2>2, <2>3, <2>4 DEF JobsLead, Seen
<1> QED BY <1>3, <1>4, <1>5, <1>6, JobsAsideStep

(***************************************************************************)
(* The theorems.                                                           *)
(***************************************************************************)
\* The strengthened invariant holds in every reachable state.
THEOREM Inductive == Spec => []IInv
<1>1. Init => TypeOK
  BY TypeInit
<1>2. Init => IInv
  BY <1>1
     DEF Init, IInv, IssuedFirst, InsertsAlone, DeletedStaysGone, ReadsLockedBodies,
         LockMatchesState, QuietReadsFresh, QuietFlowIsExact, NamesOwn, CopiesSound,
         JobsLead, Live, Idle
<1>3. IInv /\ [Next]_vars => IInv'
  BY TypeStep, LedgerStep, LockStep, QuietStep, NamesStep, CopiesSoundStep, JobsStep
     DEF IInv, Ledger
<1> QED BY <1>2, <1>3, PTL DEF Spec

\* A flow is locked exactly when it names the locking user, and the state column
\* agrees with the body, whatever PUTs and actions interleave.
THEOREM LocksMatch == Spec => []LockMatchesState
BY Inductive, PTL DEF IInv

\* A deleted flow never comes back except by a Restore, whatever PUTs, actions or
\* jobs are in flight.
THEOREM DeletedFlowsStayGone == Spec => []DeletedStaysGone
BY Inductive, PTL DEF IInv

\* Only requests that overlap each other or a Restore lose an action or split a
\* row: on any other flow the state is that of the last acknowledged action or
\* Restore.
THEOREM QuietFlowsAreExact == Spec => []QuietFlowIsExact
BY Inductive, PTL DEF IInv

\* A job that was reported as Success leads to its flow until that is deleted,
\* reset or replaced by a Restore, unless its INSERT met a closed handle, however
\* often Restores close, reopen and replace the database meanwhile.
THEOREM JobsLeadToFlows == Spec => []JobsFindTheirFlow
<1>1. IInv => JobsFindTheirFlow
  BY DEF IInv, TypeOK, JobsLead, JobsFindTheirFlow
<1> QED BY <1>1, Inductive, PTL
=============================================================================
