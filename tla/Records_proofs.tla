-------------------------- MODULE Records_proofs --------------------------
(***************************************************************************)
(* Proofs about Records, for any number of requests, ids and keys and for  *)
(* each of the twelve resources.                                           *)
(***************************************************************************)
EXTENDS Records, TLAPS

(***************************************************************************)
(* The inductive invariant.  The properties speak of rows; what makes them *)
(* inductive is what a request in flight may still write.                  *)
(***************************************************************************)
\* Nothing is known of an id before newID() hands it out.
IssuedFirst ==
  /\ Live \subseteq issued
  /\ gone \subseteq issued
  /\ \A r \in Requests : req[r].pc # "idle" => req[r].id \in issued

\* Where the UPDATE writes the key column, it repeats the key of the body.
ColumnTracksBody == Kind.rekeys => \A i \in Live : rows[i].keyCol = rows[i].key

\* A soft delete in flight carries the state it is about to write.
ErasesToDeleted ==
  \A r \in Requests : req[r].pc = "erase" => Kind.soft /\ req[r].row.state = Deleted

\* An update in flight whose patch names no state has seen the deletion of its
\* row, unless another request on the row has overlapped it.
DeletionSeen ==
  \A r \in Requests :
    LET i == req[r].id
    IN req[r].pc = "merged" /\ i \in Live \ clashed =>
         req[r].carries \/ (rows[i].state = Deleted => req[r].row.state = Deleted)

IInv ==
  /\ TypeOK
  /\ IssuedFirst
  /\ ColumnTracksBody
  /\ KeysDistinct
  /\ ErasesToDeleted
  /\ StateColumnHonest
  /\ DeletionSeen
  /\ DeletedStaysGone

(***************************************************************************)
(* Type correctness.                                                       *)
(***************************************************************************)
\* What the proofs use of the resource: its traits are Booleans, and the one
\* that deletes softly does not write its key column in an UPDATE.
LEMMA KindFacts ==
  /\ Kind.versioned \in BOOLEAN /\ Kind.soft \in BOOLEAN /\ Kind.unique \in BOOLEAN
  /\ Kind.rekeys \in BOOLEAN /\ Kind.updates \in BOOLEAN /\ Kind.conflicts \in BOOLEAN
  /\ Kind.created \in {200, 201}
  /\ Kind.soft => ~Kind.rekeys
<1>1. CASE Kind = UserKind
  BY <1>1 DEF UserKind
<1>2. CASE Kind = GroupKind
  BY <1>2 DEF GroupKind
<1>3. CASE Kind = LocationKind
  BY <1>3 DEF LocationKind, GroupKind
<1>4. CASE Kind = OAuthClientKind
  BY <1>4 DEF OAuthClientKind
<1>5. CASE Kind = ResponseKind
  BY <1>5 DEF ResponseKind, OAuthClientKind
<1>6. CASE Kind = AuthRoleKind
  BY <1>6 DEF AuthRoleKind
<1>7. CASE Kind = RoutingSkillKind
  BY <1>7 DEF RoutingSkillKind, AuthRoleKind
<1>8. CASE Kind = RoutingWrapupcodeKind
  BY <1>8 DEF RoutingWrapupcodeKind, RoutingSkillKind, AuthRoleKind
<1>9. CASE Kind = UserPromptKind
  BY <1>9 DEF UserPromptKind, RoutingSkillKind, AuthRoleKind
<1>10. CASE Kind = RoutingLanguageKind
  BY <1>10 DEF RoutingLanguageKind, RoutingSkillKind, AuthRoleKind
<1>11. CASE Kind = RoutingQueueKind
  BY <1>11 DEF RoutingQueueKind, RoutingSkillKind, AuthRoleKind
<1>12. CASE Kind = DatatableKind
  BY <1>12 DEF DatatableKind, OAuthClientKind
<1> QED
  BY <1>1, <1>2, <1>3, <1>4, <1>5, <1>6, <1>7, <1>8, <1>9, <1>10, <1>11, <1>12,
     KindAssumption
     DEF Kinds

\* The rows that creates, merges and updates build are rows of the table.
LEMMA NewRowType ==
  ASSUME NEW k \in Keys, NEW s \in States
  PROVE  NewRow(k, s) \in Row
BY DEF NewRow, Row, StateOr, States, Active, Deleted, Blank

LEMMA MergeType ==
  ASSUME NEW row \in Row, NEW p \in Patch
  PROVE  Merge(row, p) \in Row
<1>1. (IF p.key = Keep THEN row.key ELSE p.key) \in Keys
  BY DEF Row, Patch
<1>2. (IF p.state = Keep THEN row.state ELSE p.state) \in States
  BY DEF Row, Patch
<1>3. (IF Kind.versioned THEN row.version + 1 ELSE row.version) \in Nat
  BY DEF Row
<1> QED BY <1>1, <1>2, <1>3 DEF Merge, Row

\* The columns an update and a soft delete write, field by field.
LEMMA RewrittenFields ==
  ASSUME NEW row \in Row, NEW i \in Ids, rows[i] \in Row
  PROVE  LET new == Rewritten(i, row)
         IN /\ new \in Row
            /\ new.keyCol = IF Kind.rekeys THEN row.key ELSE rows[i].keyCol
            /\ new.key = row.key
            /\ new.version = row.version
            /\ new.stateCol = StateOr(row.state)
            /\ new.state = row.state
<1>1. (IF Kind.rekeys THEN row.key ELSE rows[i].keyCol) \in Keys
  BY DEF Row
<1>2. StateOr(row.state) \in States
  BY DEF Row, StateOr, States, Active
<1> QED BY <1>1, <1>2 DEF Rewritten, Row

LEMMA ErasedFields ==
  ASSUME NEW row \in Row, NEW i \in Ids, rows[i] \in Row
  PROVE  LET new == Erased(i, row)
         IN /\ new \in Row
            /\ new.keyCol = rows[i].keyCol
            /\ new.key = row.key
            /\ new.version = row.version
            /\ new.stateCol = Deleted
            /\ new.state = row.state
BY DEF Erased, Row, States, Deleted

\* What a request that is not idle carries.
LEMMA RequestType ==
  ASSUME TypeOK, NEW r \in Requests
  PROVE  /\ req[r].pc = "merged" => req[r] \in [pc: {"merged"}, id: Ids, row: Row, carries: BOOLEAN]
         /\ req[r].pc = "erase" => req[r] \in [pc: {"erase"}, id: Ids, row: Row]
         /\ req[r].pc # "idle" => req[r].pc \in {"merged", "erase"}
         /\ req[r].pc # "idle" => req[r].id \in Ids /\ req[r].row \in Row
BY DEF TypeOK, InFlight, Idle

LEMMA LiveType ==
  ASSUME TypeOK, NEW i \in Live
  PROVE  i \in Ids /\ rows[i] \in Row
BY DEF TypeOK, Live

\* Every step of the handlers keeps every variable in its type.
LEMMA TypeStep == TypeOK /\ [Next]_vars => TypeOK'
<1> SUFFICES ASSUME TypeOK, [Next]_vars PROVE TypeOK'
  OBVIOUS
<1> USE DEF TypeOK
<1>1. ASSUME NEW r \in Requests, BadRequest(r) PROVE TypeOK'
  BY <1>1 DEF BadRequest, Answer, Statuses
<1>2. ASSUME NEW r \in Requests, NEW i \in Ids, NEW k \in Keys, NEW s \in States,
             Create(r, i, k, s)
      PROVE  TypeOK'
  BY <1>2, KindFacts, NewRowType DEF Create, Answer, Statuses
<1>3. ASSUME NEW r \in Requests, NEW i \in Ids, Get(r, i) PROVE TypeOK'
  BY <1>3 DEF Get, Answer, Statuses
<1>4. ASSUME NEW r \in Requests, NEW i \in Ids, Delete(r, i) PROVE TypeOK'
  BY <1>4 DEF Delete, Answer, Statuses
<1>5. ASSUME NEW r \in Requests, NEW i \in Ids, EraseRead(r, i) PROVE TypeOK'
  <2>1. CASE i \in Live
    <3>1. [rows[i] EXCEPT !.state = Deleted] \in Row
      BY <2>1, LiveType DEF Row, States, Deleted
    <3> QED BY <1>5, <2>1, <3>1 DEF EraseRead, Erasing, InFlight
  <2>2. CASE i \notin Live
    BY <1>5, <2>2 DEF EraseRead, Answer, Statuses
  <2> QED BY <2>1, <2>2
<1>6. ASSUME NEW r \in Requests, NEW i \in Ids, NEW p \in Patch, UpdateRead(r, i, p)
      PROVE  TypeOK'
  <2>1. CASE i \in Live
    <3>1. Merge(rows[i], p) \in Row
      BY <2>1, LiveType, MergeType
    <3>2. (p.state # Keep) \in BOOLEAN
      OBVIOUS
    <3>3. Merged(i, Merge(rows[i], p), p.state # Keep) \in InFlight
      BY <3>1, <3>2, Zenon DEF Merged, InFlight
    <3> QED BY <1>6, <2>1, <3>3 DEF UpdateRead
  <2>2. CASE i \notin Live
    BY <1>6, <2>2 DEF UpdateRead, Answer, Statuses
  <2> QED BY <2>1, <2>2
<1>7. ASSUME NEW r \in Requests, UpdateWrite(r) PROVE TypeOK'
  <2>1. req[r].id \in Ids /\ req[r].row \in Row
    BY <1>7, RequestType DEF UpdateWrite, Overwrite
  <2>2. req[r].id \in Live => Rewritten(req[r].id, req[r].row) \in Row
    BY <2>1, LiveType, RewrittenFields
  <2> QED BY <1>7, <2>1, <2>2 DEF UpdateWrite, Overwrite, Answer, Statuses, NoteClash
<1>8. ASSUME NEW r \in Requests, EraseWrite(r) PROVE TypeOK'
  <2>1. req[r].id \in Ids /\ req[r].row \in Row
    BY <1>8, RequestType DEF EraseWrite, Overwrite
  <2>2. req[r].id \in Live => Erased(req[r].id, req[r].row) \in Row
    BY <2>1, LiveType, ErasedFields
  <2> QED BY <1>8, <2>1, <2>2 DEF EraseWrite, Overwrite, Answer, Statuses, NoteClash
<1>9. ASSUME Reset PROVE TypeOK'
  BY <1>9 DEF Reset, Live
<1>10. CASE UNCHANGED vars
  BY <1>10 DEF vars
<1> QED
  BY <1>1, <1>2, <1>3, <1>4, <1>5, <1>6, <1>7, <1>8, <1>9, <1>10 DEF Next

\* Every variable keeps its type, whatever the handlers of any number of
\* concurrent requests do.
THEOREM TypeCorrect == Spec => []TypeOK
<1>1. Init => TypeOK
  BY DEF Init, TypeOK, Statuses
<1> QED BY <1>1, TypeStep, PTL DEF Spec

(***************************************************************************)
(* Deleted rows stay gone.                                                 *)
(***************************************************************************)
\* Ids are known only after they have been handed out, and a row that a
\* DELETE removed is not written again: an update finds no row to write.
LEMMA GoneStep ==
  TypeOK /\ IssuedFirst /\ DeletedStaysGone /\ [Next]_vars
    => IssuedFirst' /\ DeletedStaysGone'
<1> SUFFICES ASSUME TypeOK, IssuedFirst, DeletedStaysGone, [Next]_vars
             PROVE  IssuedFirst' /\ DeletedStaysGone'
  OBVIOUS
<1> USE DEF IssuedFirst, DeletedStaysGone, Live
<1>1. ASSUME NEW r \in Requests, BadRequest(r) PROVE IssuedFirst' /\ DeletedStaysGone'
  BY <1>1 DEF BadRequest, Answer, Idle, TypeOK
<1>2. ASSUME NEW r \in Requests, NEW i \in Ids, NEW k \in Keys, NEW s \in States,
             Create(r, i, k, s)
      PROVE  IssuedFirst' /\ DeletedStaysGone'
  BY <1>2 DEF Create, Answer, Idle, TypeOK
<1>3. ASSUME NEW r \in Requests, NEW i \in Ids, Get(r, i)
      PROVE  IssuedFirst' /\ DeletedStaysGone'
  BY <1>3 DEF Get, Answer, Idle, TypeOK
<1>4. ASSUME NEW r \in Requests, NEW i \in Ids, Delete(r, i)
      PROVE  IssuedFirst' /\ DeletedStaysGone'
  BY <1>4 DEF Delete, Answer, Idle, TypeOK
<1>5. ASSUME NEW r \in Requests, NEW i \in Ids, EraseRead(r, i)
      PROVE  IssuedFirst' /\ DeletedStaysGone'
  BY <1>5 DEF EraseRead, Erasing, Answer, Idle, TypeOK
<1>6. ASSUME NEW r \in Requests, NEW i \in Ids, NEW p \in Patch, UpdateRead(r, i, p)
      PROVE  IssuedFirst' /\ DeletedStaysGone'
  BY <1>6 DEF UpdateRead, Merged, Answer, Idle, TypeOK
<1>7. ASSUME NEW r \in Requests, UpdateWrite(r)
      PROVE  IssuedFirst' /\ DeletedStaysGone'
  <2>1. req[r].id \in Ids \cap issued
    BY <1>7, RequestType DEF UpdateWrite, Overwrite
  <2> QED BY <1>7, <2>1 DEF UpdateWrite, Overwrite, Answer, Idle, TypeOK
<1>8. ASSUME NEW r \in Requests, EraseWrite(r)
      PROVE  IssuedFirst' /\ DeletedStaysGone'
  <2>1. req[r].id \in Ids \cap issued
    BY <1>8, RequestType DEF EraseWrite, Overwrite
  <2> QED BY <1>8, <2>1 DEF EraseWrite, Overwrite, Answer, Idle, TypeOK
<1>9. ASSUME Reset PROVE IssuedFirst' /\ DeletedStaysGone'
  BY <1>9 DEF Reset, TypeOK
<1>10. CASE UNCHANGED vars
  BY <1>10 DEF vars
<1> QED
  BY <1>1, <1>2, <1>3, <1>4, <1>5, <1>6, <1>7, <1>8, <1>9, <1>10 DEF Next

(***************************************************************************)
(* What one step does to a row.                                            *)
(***************************************************************************)
\* Row i is new after a Create by r.
Born(i) ==
  \E k \in Keys, s \in States :
    /\ i \notin issued
    /\ ~KeyTaken(i, k)
    /\ rows' = [rows EXCEPT ![i] = NewRow(k, s)]

\* r writes what it holds of row i.
Overwritten(r, i) ==
  /\ i \in Live
  /\ req[r].id = i
  /\ \/ /\ req[r].pc = "merged"
        /\ ~(Kind.rekeys /\ KeyTaken(i, req[r].row.key))
        /\ rows' = [rows EXCEPT ![i] = Rewritten(i, req[r].row)]
     \/ /\ req[r].pc = "erase"
        /\ Kind.soft
        /\ rows' = [rows EXCEPT ![i] = Erased(i, req[r].row)]

\* No row is written, though some may be removed.
OnlyRemoved == \A i \in Ids : rows'[i] \in {rows[i], Absent}

\* A step creates one row, overwrites one row, or writes none.
LEMMA RowStep ==
  ASSUME TypeOK, ErasesToDeleted, [Next]_vars
  PROVE  \/ OnlyRemoved
         \/ \E i \in Ids : Born(i)
         \/ \E r \in Requests, i \in Ids : Overwritten(r, i)
<1>1. ASSUME NEW r \in Requests, NEW i \in Ids, NEW k \in Keys, NEW s \in States,
             Create(r, i, k, s)
      PROVE  OnlyRemoved \/ Born(i)
  BY <1>1 DEF Create, OnlyRemoved, Born
<1>2. ASSUME NEW r \in Requests, NEW i \in Ids, Delete(r, i) PROVE OnlyRemoved
  BY <1>2 DEF Delete, OnlyRemoved, TypeOK
<1>3. ASSUME NEW r \in Requests, UpdateWrite(r)
      PROVE  OnlyRemoved \/ Overwritten(r, req[r].id)
  BY <1>3 DEF UpdateWrite, Overwrite, OnlyRemoved, Overwritten
<1>4. ASSUME NEW r \in Requests, EraseWrite(r)
      PROVE  OnlyRemoved \/ Overwritten(r, req[r].id)
  BY <1>4 DEF EraseWrite, Overwrite, OnlyRemoved, Overwritten, ErasesToDeleted
<1>5. ASSUME NEW r \in Requests, UpdateWrite(r) \/ EraseWrite(r) PROVE req[r].id \in Ids
  BY <1>5, RequestType DEF UpdateWrite, Overwrite, EraseWrite
<1>6. CASE Reset
  BY <1>6 DEF Reset, OnlyRemoved
<1>7. CASE UNCHANGED rows
  BY <1>7 DEF OnlyRemoved
<1>8. ASSUME NEW r \in Requests, NEW i \in Ids, NEW p \in Patch, UpdateRead(r, i, p)
      PROVE  UNCHANGED rows
  BY <1>8 DEF UpdateRead
<1>9. ASSUME NEW r \in Requests, BadRequest(r) PROVE UNCHANGED rows
  BY <1>9 DEF BadRequest
<1>10. ASSUME NEW r \in Requests, NEW i \in Ids, Get(r, i) \/ EraseRead(r, i)
       PROVE  UNCHANGED rows
  BY <1>10 DEF Get, EraseRead
<1> QED
  BY <1>1, <1>2, <1>3, <1>4, <1>5, <1>6, <1>7, <1>8, <1>9, <1>10 DEF Next, vars

(***************************************************************************)
(* The UNIQUE column and the key in the body.                              *)
(***************************************************************************)
\* A create or a rekeying update is refused when the column of another row
\* holds the key; as the column repeats the body there, neither repeats.
LEMMA KeysStep ==
  TypeOK /\ ErasesToDeleted /\ ColumnTracksBody /\ KeysDistinct /\ [Next]_vars
    => ColumnTracksBody' /\ KeysDistinct'
<1> SUFFICES ASSUME TypeOK, ErasesToDeleted, ColumnTracksBody, KeysDistinct, [Next]_vars
             PROVE  ColumnTracksBody' /\ KeysDistinct'
  OBVIOUS
<1> USE DEF ColumnTracksBody, KeysDistinct, Live
<1>1. CASE OnlyRemoved
  BY <1>1 DEF OnlyRemoved
<1>2. ASSUME NEW i \in Ids, Born(i) PROVE ColumnTracksBody' /\ KeysDistinct'
  <2>1. PICK k \in Keys, s \in States :
          ~KeyTaken(i, k) /\ rows' = [rows EXCEPT ![i] = NewRow(k, s)]
    BY <1>2 DEF Born
  <2>2. rows'[i].keyCol = k /\ rows'[i].key = k
    BY <2>1 DEF NewRow, TypeOK
  <2>3. \A j \in Ids \ {i} : rows'[j] = rows[j]
    BY <2>1 DEF TypeOK
  <2> QED BY <2>1, <2>2, <2>3 DEF KeyTaken
<1>3. ASSUME NEW r \in Requests, NEW i \in Ids, Overwritten(r, i)
      PROVE  ColumnTracksBody' /\ KeysDistinct'
  <2>1. req[r].row \in Row /\ rows[i] \in Row
    BY <1>3, RequestType, LiveType DEF Overwritten
  <2>2. \A j \in Ids \ {i} : rows'[j] = rows[j]
    BY <1>3 DEF Overwritten, TypeOK
  <2>3. CASE Kind.rekeys
    <3>1. req[r].pc = "merged"
      BY <1>3, <2>3, KindFacts DEF Overwritten
    <3>2. rows'[i].keyCol = req[r].row.key /\ rows'[i].key = req[r].row.key
      BY <1>3, <2>1, <2>3, <3>1, RewrittenFields DEF Overwritten, TypeOK
    <3>3. ~KeyTaken(i, req[r].row.key)
      BY <1>3, <2>3, <3>1 DEF Overwritten
    <3> QED BY <2>2, <2>3, <3>2, <3>3 DEF KeyTaken
  <2>4. CASE ~Kind.rekeys
    <3>1. rows'[i].keyCol = rows[i].keyCol
      BY <1>3, <2>1, <2>4, RewrittenFields, ErasedFields DEF Overwritten, TypeOK
    <3> QED BY <1>3, <2>2, <2>4, <3>1 DEF Overwritten
  <2> QED BY <2>3, <2>4
<1> QED BY <1>1, <1>2, <1>3, RowStep

(***************************************************************************)
(* The state column and the state in the body.                             *)
(***************************************************************************)
LEMMA StateStep ==
  TypeOK /\ ErasesToDeleted /\ StateColumnHonest /\ [Next]_vars
    => ErasesToDeleted' /\ StateColumnHonest'
<1> SUFFICES ASSUME TypeOK, ErasesToDeleted, StateColumnHonest, [Next]_vars
             PROVE  ErasesToDeleted' /\ StateColumnHonest'
  OBVIOUS
<1> USE DEF StateColumnHonest, Live
<1>1. StateColumnHonest'
  <2>1. CASE OnlyRemoved
    BY <2>1 DEF OnlyRemoved, StateOr
  <2>2. ASSUME NEW i \in Ids, Born(i) PROVE StateColumnHonest'
    BY <2>2 DEF Born, NewRow, StateOr, TypeOK, Active, Blank
  <2>3. ASSUME NEW r \in Requests, NEW i \in Ids, Overwritten(r, i)
        PROVE  StateColumnHonest'
    <3>1. req[r].row \in Row /\ rows[i] \in Row
      BY <2>3, RequestType, LiveType DEF Overwritten
    <3>2. rows'[i].stateCol = StateOr(rows'[i].state)
      <4>1. CASE req[r].pc = "merged"
        BY <2>3, <3>1, <4>1, RewrittenFields DEF Overwritten, TypeOK
      <4>2. CASE req[r].pc = "erase"
        <5>1. rows'[i] = Erased(i, req[r].row)
          BY <2>3, <4>2 DEF Overwritten, TypeOK
        <5> QED BY <3>1, <4>2, <5>1, ErasedFields DEF ErasesToDeleted, StateOr, Deleted, Blank
      <4> QED BY <2>3, <4>1, <4>2 DEF Overwritten
    <3>3. \A j \in Ids \ {i} : rows'[j] = rows[j]
      BY <2>3 DEF Overwritten, TypeOK
    <3> QED BY <3>2, <3>3 DEF StateOr
  <2> QED BY <2>1, <2>2, <2>3, RowStep
<1>2. ErasesToDeleted'
  <2>1. ASSUME NEW r \in Requests, NEW i \in Ids, EraseRead(r, i) PROVE ErasesToDeleted'
    <3>1. i \in Live => [rows[i] EXCEPT !.state = Deleted].state = Deleted
      BY LiveType DEF Row
    <3>2. CASE i \in Live
      <4>1. req'[r].row.state = Deleted
        <5> DEFINE new == [rows[i] EXCEPT !.state = Deleted]
        <5>1. req' = [req EXCEPT ![r] = Erasing(i, new)]
          BY <2>1, <3>2 DEF EraseRead
        <5>2. new.state = Deleted
          BY <3>1, <3>2
        <5> HIDE DEF new
        <5> QED BY <5>1, <5>2 DEF Erasing, TypeOK
      <4>2. \A q \in Requests \ {r} : req'[q] = req[q]
        BY <2>1, <3>2 DEF EraseRead, TypeOK
      <4> QED BY <2>1, <4>1, <4>2 DEF EraseRead, ErasesToDeleted
    <3>3. CASE i \notin Live
      BY <2>1, <3>3 DEF EraseRead, Answer, Idle, ErasesToDeleted, TypeOK
    <3> QED BY <3>2, <3>3
  <2>2. ASSUME NEW r \in Requests, NEW i \in Ids, NEW p \in Patch, UpdateRead(r, i, p)
        PROVE  ErasesToDeleted'
    BY <2>2 DEF UpdateRead, Merged, Answer, Idle, ErasesToDeleted, TypeOK
  <2>3. ASSUME NEW r \in Requests, NEW status, Answer(r, status) PROVE ErasesToDeleted'
    BY <2>3 DEF Answer, Idle, ErasesToDeleted, TypeOK
  <2>4. ASSUME NEW r \in Requests, NEW i \in Ids, Get(r, i) \/ Delete(r, i)
        PROVE  ErasesToDeleted'
    BY <2>4, <2>3 DEF Get, Delete
  <2>5. ASSUME NEW r \in Requests, NEW i \in Ids, NEW k \in Keys, NEW s \in States,
               Create(r, i, k, s)
        PROVE  ErasesToDeleted'
    BY <2>5, <2>3 DEF Create
  <2>6. ASSUME NEW r \in Requests, BadRequest(r) \/ UpdateWrite(r) \/ EraseWrite(r)
        PROVE  ErasesToDeleted'
    BY <2>6, <2>3 DEF BadRequest, UpdateWrite, EraseWrite, Overwrite
  <2>7. CASE Reset \/ UNCHANGED vars
    BY <2>7 DEF Reset, vars, ErasesToDeleted
  <2> QED BY <2>1, <2>2, <2>4, <2>5, <2>6, <2>7 DEF Next
<1> QED BY <1>1, <1>2

(***************************************************************************)
(* Soft deletions stay.                                                    *)
(***************************************************************************)
\* A request that writes row i leaves nobody but clashing requests with a read
\* of it; the others have read other rows, or the row as it still is.
LEMMA SeenKept ==
  ASSUME TypeOK, DeletionSeen, clashed \subseteq clashed',
         \A q \in Requests : req'[q].pc = "merged" => req'[q] = req[q],
         \A q \in Requests : req'[q].pc = "merged" /\ req[q].id \in Live' \ clashed' =>
           req[q].id \in Live /\ rows'[req[q].id] = rows[req[q].id]
  PROVE  DeletionSeen'
BY DEF DeletionSeen

\* What UpdateWrite and EraseWrite write, and whom it overtakes.
LEMMA SeenWrite ==
  ASSUME TypeOK, DeletionSeen, NEW r \in Requests, NEW i \in Ids, req[r].id = i,
         req' = [req EXCEPT ![r] = Idle], NoteClash(r, i),
         \A j \in Ids \ {i} : rows'[j] = rows[j]
  PROVE  DeletionSeen'
<1>1. clashed \subseteq clashed'
  BY DEF NoteClash
<1>2. \A q \in Requests : req'[q].pc = "merged" => q # r /\ req'[q] = req[q]
  BY DEF TypeOK, Idle
<1>3. ASSUME NEW q \in Requests, req'[q].pc = "merged", req[q].id \in Live' \ clashed'
      PROVE  req[q].id \in Live /\ rows'[req[q].id] = rows[req[q].id]
  <2>1. q # r /\ req[q].pc # "idle" /\ req[q].id \in Ids
    BY <1>2, <1>3, RequestType
  <2>2. req[q].id # i
    BY <1>3, <2>1 DEF NoteClash, Others
  <2> QED BY <1>3, <2>1, <2>2 DEF Live
<1> QED BY <1>1, <1>2, <1>3, SeenKept

LEMMA SeenStep ==
  TypeOK /\ IssuedFirst /\ DeletionSeen /\ [Next]_vars => DeletionSeen'
<1> SUFFICES ASSUME TypeOK, IssuedFirst, DeletionSeen, [Next]_vars PROVE DeletionSeen'
  OBVIOUS
<1>1. ASSUME NEW r \in Requests, NEW status, Answer(r, status)
      PROVE  \A q \in Requests : req'[q].pc = "merged" => req'[q] = req[q]
  BY <1>1 DEF Answer, TypeOK, Idle
<1>2. ASSUME NEW r \in Requests, NEW i \in Ids, NEW k \in Keys, NEW s \in States,
             Create(r, i, k, s)
      PROVE  DeletionSeen'
  <2>1. clashed' = clashed /\ \A q \in Requests : req'[q].pc = "merged" => req'[q] = req[q]
    BY <1>1, <1>2 DEF Create
  <2>2. \A j \in Ids \ {i} : rows'[j] = rows[j]
    BY <1>2 DEF Create, TypeOK
  <2>3. \A q \in Requests : req'[q].pc = "merged" => req[q].id \in Ids \ {i}
    BY <1>2, <2>1, RequestType DEF Create, IssuedFirst
  <2> QED BY <2>1, <2>2, <2>3, SeenKept DEF Live
<1>3. ASSUME NEW r \in Requests, NEW i \in Ids, Get(r, i) PROVE DeletionSeen'
  BY <1>1, <1>3, SeenKept DEF Get, Live
<1>4. ASSUME NEW r \in Requests, BadRequest(r) PROVE DeletionSeen'
  BY <1>1, <1>4, SeenKept DEF BadRequest, Live
<1>5. ASSUME NEW r \in Requests, NEW i \in Ids, Delete(r, i) PROVE DeletionSeen'
  <2>1. \A j \in Live' : j \in Live /\ rows'[j] = rows[j]
    BY <1>5 DEF Delete, Live, TypeOK
  <2> QED BY <1>1, <1>5, <2>1, SeenKept DEF Delete
<1>6. ASSUME NEW r \in Requests, NEW i \in Ids, EraseRead(r, i) PROVE DeletionSeen'
  <2>1. UNCHANGED <<rows, clashed>>
    BY <1>6 DEF EraseRead
  <2>2. \A q \in Requests : req'[q].pc = "merged" => req'[q] = req[q]
    BY <1>1, <1>6 DEF EraseRead, Erasing, TypeOK
  <2> QED BY <2>1, <2>2, SeenKept DEF Live
<1>7. ASSUME NEW r \in Requests, NEW i \in Ids, NEW p \in Patch, UpdateRead(r, i, p)
      PROVE  DeletionSeen'
  <2>1. UNCHANGED <<rows, clashed>>
    BY <1>7 DEF UpdateRead
  <2>2. CASE i \in Live
    <3> DEFINE new == Merge(rows[i], p)
               busy == Merged(i, new, p.state # Keep)
    <3>1. p.state = Keep => new.state = rows[i].state
      BY <2>2, LiveType DEF Merge, Row
    <3>2. /\ busy.id = i /\ busy.row = new
          /\ busy.carries = (p.state # Keep)
      BY DEF Merged
    <3> HIDE DEF new, busy
    <3>3. req' = [req EXCEPT ![r] = busy]
      BY <1>7, <2>2 DEF UpdateRead, busy, new
    <3>4. /\ req'[r] = busy
          /\ \A q \in Requests \ {r} : req'[q] = req[q]
      BY <3>3 DEF TypeOK
    <3> QED BY <2>1, <3>1, <3>2, <3>4 DEF DeletionSeen, Live
  <2>3. CASE i \notin Live
    BY <1>1, <1>7, <2>1, <2>3, SeenKept DEF UpdateRead, Live
  <2> QED BY <2>2, <2>3
<1>8. ASSUME NEW r \in Requests, UpdateWrite(r) PROVE DeletionSeen'
  <2> DEFINE i == req[r].id
  <2>1. i \in Ids
    BY <1>8, RequestType DEF UpdateWrite
  <2>2. CASE i \in Live /\ Kind.rekeys /\ KeyTaken(i, req[r].row.key)
    BY <1>1, <1>8, <2>2, KindFacts, SeenKept DEF UpdateWrite, Live
  <2>3. CASE ~(i \in Live /\ Kind.rekeys /\ KeyTaken(i, req[r].row.key))
    <3>1. /\ req' = [req EXCEPT ![r] = Idle]
          /\ NoteClash(r, i)
      BY <1>8, <2>3 DEF UpdateWrite, Answer
    <3>2. \A j \in Ids \ {i} : rows'[j] = rows[j]
      BY <1>8, <2>3 DEF UpdateWrite, Overwrite, TypeOK
    <3> QED BY <2>1, <3>1, <3>2, SeenWrite
  <2> QED BY <2>2, <2>3
<1>9. ASSUME NEW r \in Requests, EraseWrite(r) PROVE DeletionSeen'
  <2>1. /\ req[r].id \in Ids
        /\ req' = [req EXCEPT ![r] = Idle]
        /\ NoteClash(r, req[r].id)
    BY <1>9, RequestType DEF EraseWrite, Answer
  <2>2. \A j \in Ids \ {req[r].id} : rows'[j] = rows[j]
    BY <1>9 DEF EraseWrite, Overwrite, TypeOK
  <2> QED BY <2>1, <2>2, SeenWrite
<1>10. CASE Reset \/ UNCHANGED vars
  BY <1>10, SeenKept DEF Reset, vars, Live, TypeOK
<1> QED
  BY <1>2, <1>3, <1>4, <1>5, <1>6, <1>7, <1>8, <1>9, <1>10 DEF Next

\* What a step does to the state in a body that says deleted.
Sticks ==
  \A i \in Live \ clashed' :
    rows[i].state = Deleted /\ rows'[i] # Absent /\ rows'[i].state # Deleted
      => \E r \in Requests : UpdateWrite(r) /\ req[r].id = i /\ req[r].carries

LEMMA SticksStep ==
  TypeOK /\ IssuedFirst /\ ErasesToDeleted /\ DeletionSeen /\ [Next]_vars => Sticks
<1> SUFFICES ASSUME TypeOK, IssuedFirst, ErasesToDeleted, DeletionSeen, [Next]_vars,
                    NEW j \in Live \ clashed', rows[j].state = Deleted,
                    rows'[j] # Absent, rows'[j].state # Deleted
             PROVE  \E r \in Requests : UpdateWrite(r) /\ req[r].id = j /\ req[r].carries
  BY DEF Sticks
<1>1. rows'[j] # rows[j] /\ j \in Ids /\ j \in Live
  BY LiveType
<1>2. ASSUME NEW r \in Requests, UpdateWrite(r)
      PROVE  req[r].id = j /\ req[r].carries
  <2>1. req[r].id = j
    BY <1>1, <1>2, RequestType DEF UpdateWrite, Overwrite, TypeOK
  <2>2. NoteClash(r, j) /\ rows' = [rows EXCEPT ![j] = Rewritten(j, req[r].row)]
    BY <1>1, <1>2, <2>1 DEF UpdateWrite, Overwrite
  <2>3. req[r].row \in Row /\ req[r].pc = "merged" /\ req[r].carries \in BOOLEAN
    BY <1>2, RequestType DEF UpdateWrite
  <2>4. rows'[j].state = req[r].row.state
    BY <1>1, <2>2, <2>3, LiveType, RewrittenFields DEF TypeOK
  <2>5. j \notin clashed
    BY <2>2 DEF NoteClash
  <2> QED BY <1>1, <2>1, <2>3, <2>4, <2>5 DEF DeletionSeen
<1>3. ASSUME NEW r \in Requests, EraseWrite(r) PROVE FALSE
  <2>1. req[r].id = j
    BY <1>1, <1>3, RequestType DEF EraseWrite, Overwrite, TypeOK
  <2>2. rows' = [rows EXCEPT ![j] = Erased(j, req[r].row)]
    BY <1>1, <1>3, <2>1 DEF EraseWrite, Overwrite
  <2>3. req[r].row \in Row /\ req[r].row.state = Deleted
    BY <1>3, RequestType DEF EraseWrite, ErasesToDeleted
  <2> QED BY <1>1, <2>2, <2>3, LiveType, ErasedFields DEF TypeOK
<1>4. ASSUME NEW r \in Requests, NEW i \in Ids, NEW k \in Keys, NEW s \in States,
             Create(r, i, k, s)
      PROVE  FALSE
  BY <1>1, <1>4 DEF Create, IssuedFirst, TypeOK
<1>5. ASSUME NEW r \in Requests, NEW i \in Ids,
             Get(r, i) \/ Delete(r, i) \/ EraseRead(r, i)
      PROVE  FALSE
  BY <1>1, <1>5 DEF Get, Delete, EraseRead, TypeOK
<1>6. ASSUME NEW r \in Requests, NEW i \in Ids, NEW p \in Patch, UpdateRead(r, i, p)
      PROVE  FALSE
  BY <1>1, <1>6 DEF UpdateRead
<1>7. ASSUME NEW r \in Requests, BadRequest(r) PROVE FALSE
  BY <1>1, <1>7 DEF BadRequest
<1>8. CASE Reset \/ UNCHANGED vars
  BY <1>1, <1>8 DEF Reset, vars
<1> QED
  BY <1>2, <1>3, <1>4, <1>5, <1>6, <1>7, <1>8 DEF Next

(***************************************************************************)
(* The theorems.                                                           *)
(***************************************************************************)
\* The strengthened invariant holds in every reachable state.
THEOREM Inductive == Spec => []IInv
<1>1. Init => IInv
  BY DEF Init, IInv, TypeOK, IssuedFirst, ColumnTracksBody, KeysDistinct, ErasesToDeleted,
         StateColumnHonest, DeletionSeen, DeletedStaysGone, Live, Idle, Statuses
<1>2. IInv /\ [Next]_vars => IInv'
  BY TypeStep, GoneStep, KeysStep, StateStep, SeenStep DEF IInv
<1> QED BY <1>1, <1>2, PTL DEF Spec

\* No interleaving of creates and updates puts one value twice in a UNIQUE
\* column, and where updates write that column no two bodies share it either.
THEOREM KeysStayDistinct == Spec => []KeysDistinct
BY Inductive, PTL DEF IInv

\* The state column that lists filter on never disagrees with the body.
THEOREM StateColumnStaysHonest == Spec => []StateColumnHonest
BY Inductive, PTL DEF IInv

\* A row that a DELETE removed never comes back, whatever is still in flight.
THEOREM DeletedRowsStayGone == Spec => []DeletedStaysGone
BY Inductive, PTL DEF IInv

\* A user that is deleted stays deleted in every answer unless a patch names
\* another state or requests on it overlapped.
THEOREM QuietDeletionsStick == Spec => QuietDeletionSticks
<1>1. IInv /\ [Next]_vars => [Sticks]_vars
  BY SticksStep DEF IInv
<1>2. [Sticks]_vars => [\A i \in Live \ clashed' :
         rows[i].state = Deleted /\ rows'[i] # Absent /\ rows'[i].state # Deleted
           => \E r \in Requests : UpdateWrite(r) /\ req[r].id = i /\ req[r].carries]_vars
  BY DEF Sticks
<1> QED BY <1>1, <1>2, Inductive, PTL DEF Spec, QuietDeletionSticks
=============================================================================
