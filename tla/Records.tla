------------------------------ MODULE Records ------------------------------
(***************************************************************************)
(* One opaque-JSON resource table and the HTTP handlers over it.           *)
(*                                                                         *)
(* Twelve resources of fakegenesys have the same handlers                  *)
(* (handlers/user.go, group.go, location.go, auth_role.go,                 *)
(* oauth_client.go, routing_queue.go, routing_skill.go,                    *)
(* routing_wrapupcode.go, routing_language.go, architect_user_prompt.go,   *)
(* the tables half of architect_datatable.go and the responses half of     *)
(* responsemanagement.go): a row of a few columns and a JSON body, created *)
(* with one INSERT, read with one SELECT, deleted with one DELETE, and     *)
(* updated with a SELECT of the body, a merge in memory and an UPDATE of   *)
(* columns and body.  They differ in the traits below; Kind picks one      *)
(* resource.                                                               *)
(*                                                                         *)
(* net/http runs every request in a goroutine of its own and the pool has  *)
(* one connection, so one SQL statement is one step and nothing holds      *)
(* between two statements of a handler.                                    *)
(***************************************************************************)
EXTENDS Naturals

CONSTANTS
  Requests,    \* goroutines serving requests at the same time
  Ids,         \* ids newID() may hand out
  Keys,        \* values of the key column (users.email, otherwise name); a key
               \* in a body is the string the handlers take it for, which is
               \* '' for anything that is not a string
  Kind,        \* the traits of the resource
  MaxUpdates,  \* bound: updates begun in a behaviour
  Absent       \* what an id maps to while it has no row

(***************************************************************************)
(* Traits.  versioned: create stores version 1 and an update stores one    *)
(* more than it read.  soft: DELETE flips state instead of removing the    *)
(* row.  unique: the schema declares the key column UNIQUE.  rekeys: the   *)
(* UPDATE writes the key column from the merged body.  updates: there is   *)
(* an update route.  conflicts: the update handler maps a UNIQUE failure   *)
(* to 409 (the others answer 500).  created: the status of a create.       *)
(***************************************************************************)
UserKind ==
  [versioned |-> TRUE, soft |-> TRUE, unique |-> TRUE,
   rekeys |-> FALSE, updates |-> TRUE, conflicts |-> FALSE, created |-> 201]

GroupKind ==
  [versioned |-> TRUE, soft |-> FALSE, unique |-> FALSE,
   rekeys |-> TRUE, updates |-> TRUE, conflicts |-> FALSE, created |-> 201]

LocationKind == GroupKind

AuthRoleKind ==
  [versioned |-> FALSE, soft |-> FALSE, unique |-> TRUE,
   rekeys |-> TRUE, updates |-> TRUE, conflicts |-> TRUE, created |-> 201]

OAuthClientKind ==
  [versioned |-> FALSE, soft |-> FALSE, unique |-> FALSE,
   rekeys |-> TRUE, updates |-> TRUE, conflicts |-> FALSE, created |-> 201]

RoutingSkillKind == [AuthRoleKind EXCEPT !.conflicts = FALSE]

RoutingQueueKind == [RoutingSkillKind EXCEPT !.created = 200]

RoutingWrapupcodeKind == RoutingSkillKind

UserPromptKind == RoutingSkillKind

RoutingLanguageKind == [RoutingSkillKind EXCEPT !.updates = FALSE]

DatatableKind == OAuthClientKind

ResponseKind == OAuthClientKind

Kinds ==
  {UserKind, GroupKind, LocationKind, AuthRoleKind, OAuthClientKind,
   RoutingQueueKind, RoutingSkillKind, RoutingWrapupcodeKind, UserPromptKind,
   RoutingLanguageKind, DatatableKind, ResponseKind}

ASSUME KindAssumption == Kind \in Kinds
ASSUME BoundAssumption == MaxUpdates \in Nat

(***************************************************************************)
(* Values.  Blank is a state that is not a non-empty string (PATCH stores  *)
(* it in the body as it came); Keep is a field a patch does not carry.     *)
(***************************************************************************)
Active  == "active"
Deleted == "deleted"
Blank   == "blank"
States  == {Active, Deleted, Blank}

Row == [keyCol: Keys, key: Keys, version: Nat, stateCol: States, state: States]

ASSUME AbsentAssumption == Absent \notin Row

Keep == "keep"
Patch == [key: Keys \cup {Keep}, state: States \cup {Keep}]

ASSUME KeepAssumption == Keep \notin Keys

Statuses == {0, 200, 201, 204, 400, 404, 409, 500}

VARIABLES
  rows,    \* the table: rows[i] is the row of id i, or Absent
  issued,  \* ids newID() has handed out; it never repeats one
  req,     \* req[r]: the request goroutine r is serving
  reply,   \* reply[r]: status of the last answer of goroutine r
  begun,   \* history: updates begun, what MaxUpdates bounds
  gone,    \* history: ids whose row a DELETE removed
  clashed  \* history: ids written while another request held a read of them

vars == <<rows, issued, req, reply, begun, gone, clashed>>

Idle == [pc |-> "idle"]
Merged(i, row, carries) ==
  [pc |-> "merged", id |-> i, row |-> row, carries |-> carries]
Erasing(i, row) == [pc |-> "erase", id |-> i, row |-> row]

InFlight ==
  [pc: {"merged"}, id: Ids, row: Row, carries: BOOLEAN]
    \cup [pc: {"erase"}, id: Ids, row: Row]

TypeOK ==
  /\ rows \in [Ids -> Row \cup {Absent}]
  /\ issued \subseteq Ids
  /\ req \in [Requests -> InFlight \cup {Idle}]
  /\ reply \in [Requests -> Statuses]
  /\ begun \in Nat
  /\ gone \subseteq Ids
  /\ clashed \subseteq Ids

Init ==
  /\ rows = [i \in Ids |-> Absent]
  /\ issued = {}
  /\ req = [r \in Requests |-> Idle]
  /\ reply = [r \in Requests |-> 0]
  /\ begun = 0
  /\ gone = {}
  /\ clashed = {}

(***************************************************************************)
(* The table.                                                              *)
(***************************************************************************)
Live == {i \in Ids : rows[i] # Absent}

\* Operators whose comment begins with Mutant are never used by the
\* specification: each is one bug in the definition below it.

\* The UNIQUE constraint of the key column refuses k for row i.
KeyTaken(i, k) == Kind.unique /\ \E j \in Live \ {i} : rows[j].keyCol = k

\* stateOr: the body's state if it is a non-empty string, else "active".
StateOr(s) == IF s = Blank THEN Active ELSE s

Others(r, i) == {q \in Requests \ {r} : req[q].pc # "idle" /\ req[q].id = i}

\* A write of i by r overlaps every other request that has read i.
NoteClash(r, i) == clashed' = IF Others(r, i) = {} THEN clashed ELSE clashed \cup {i}

\* Mutant: an UPDATE that finds no row inserts it.
Upsert(i, row) == rows' = [rows EXCEPT ![i] = row]

\* UPDATE ... WHERE id: no row is no error.
Overwrite(i, row) == rows' = IF i \in Live THEN [rows EXCEPT ![i] = row] ELSE rows

Answer(r, status) ==
  /\ reply' = [reply EXCEPT ![r] = status]
  /\ req' = [req EXCEPT ![r] = Idle]

(***************************************************************************)
(* Handlers.  A malformed body is refused before the first statement.      *)
(***************************************************************************)
BadRequest(r) ==
  /\ req[r] = Idle
  /\ Answer(r, 400)
  /\ UNCHANGED <<rows, issued, begun, gone, clashed>>

NewRow(k, s) ==
  [keyCol |-> k, key |-> k, version |-> 1,
   stateCol |-> StateOr(s), state |-> StateOr(s)]

Create(r, i, k, s) ==
  /\ req[r] = Idle
  /\ i \notin issued
  /\ Kind.soft \/ s = Active
  /\ IF KeyTaken(i, k)
       THEN Answer(r, 409) /\ UNCHANGED <<rows, issued>>
       ELSE /\ Answer(r, Kind.created)
            /\ rows' = [rows EXCEPT ![i] = NewRow(k, s)]
            /\ issued' = issued \cup {i}
  /\ UNCHANGED <<begun, gone, clashed>>

Get(r, i) ==
  /\ req[r] = Idle
  /\ Answer(r, IF i \in Live THEN 200 ELSE 404)
  /\ UNCHANGED <<rows, issued, begun, gone, clashed>>

\* Mutant: a key that the patch does not carry is blanked.
MergeBlanking(row, p) ==
  [row EXCEPT !.key = p.key,
              !.state = IF p.state = Keep THEN row.state ELSE p.state,
              !.version = IF Kind.versioned THEN row.version + 1 ELSE row.version]

\* Mutant: stateOr of the patch, as in a create.
MergeActivating(row, p) ==
  [row EXCEPT !.key = IF p.key = Keep THEN row.key ELSE p.key,
              !.state = IF p.state = Keep THEN Active ELSE StateOr(p.state),
              !.version = IF Kind.versioned THEN row.version + 1 ELSE row.version]

\* Top-level merge of a patch into the body that was read, version bumped.
Merge(row, p) ==
  [row EXCEPT !.key = IF p.key = Keep THEN row.key ELSE p.key,
              !.state = IF p.state = Keep THEN row.state ELSE p.state,
              !.version = IF Kind.versioned THEN row.version + 1 ELSE row.version]

\* SELECT body, then the merge in memory.
UpdateRead(r, i, p) ==
  /\ Kind.updates
  /\ req[r] = Idle
  /\ Kind.soft \/ p.state = Keep
  /\ begun < MaxUpdates
  /\ IF i \in Live
       THEN /\ req' = [req EXCEPT ![r] = Merged(i, Merge(rows[i], p), p.state # Keep)]
            /\ begun' = begun + 1
            /\ UNCHANGED reply
       ELSE Answer(r, 404) /\ UNCHANGED begun
  /\ UNCHANGED <<rows, issued, gone, clashed>>

\* Mutant: the UPDATE writes the body only.
RewrittenBodyOnly(i, row) ==
  [row EXCEPT !.keyCol = rows[i].keyCol, !.stateCol = rows[i].stateCol]

\* The columns the UPDATE sets; users.email is not one of them.
Rewritten(i, row) ==
  [row EXCEPT !.keyCol = IF Kind.rekeys THEN row.key ELSE rows[i].keyCol,
              !.stateCol = StateOr(row.state)]

\* The handler answers 200 whether or not the UPDATE found the row.
UpdateWrite(r) ==
  LET i == req[r].id
      row == req[r].row
  IN /\ req[r].pc = "merged"
     /\ IF i \in Live /\ Kind.rekeys /\ KeyTaken(i, row.key)
          THEN /\ Answer(r, IF Kind.conflicts THEN 409 ELSE 500)
               /\ UNCHANGED <<rows, clashed>>
          ELSE /\ Answer(r, 200)
               /\ Overwrite(i, Rewritten(i, row))
               /\ NoteClash(r, i)
     /\ UNCHANGED <<issued, begun, gone>>

\* DELETE FROM ... WHERE id; no affected row is a 404.
Delete(r, i) ==
  /\ ~Kind.soft
  /\ req[r] = Idle
  /\ Answer(r, IF i \in Live THEN 204 ELSE 404)
  /\ rows' = [rows EXCEPT ![i] = Absent]
  /\ gone' = IF i \in Live THEN gone \cup {i} ELSE gone
  /\ UNCHANGED <<issued, begun, clashed>>

\* handleUserDelete: SELECT body, set state, UPDATE state and body.
EraseRead(r, i) ==
  /\ Kind.soft
  /\ req[r] = Idle
  /\ IF i \in Live
       THEN /\ req' = [req EXCEPT ![r] = Erasing(i, [rows[i] EXCEPT !.state = Deleted])]
            /\ UNCHANGED reply
       ELSE Answer(r, 404)
  /\ UNCHANGED <<rows, issued, begun, gone, clashed>>

\* UPDATE users SET state = 'deleted', body.
Erased(i, row) == [row EXCEPT !.keyCol = rows[i].keyCol, !.stateCol = Deleted]

EraseWrite(r) ==
  LET i == req[r].id
  IN /\ req[r].pc = "erase"
     /\ Answer(r, 204)
     /\ Overwrite(i, Erased(i, req[r].row))
     /\ NoteClash(r, i)
     /\ UNCHANGED <<issued, begun, gone>>

\* The DELETE FROM of this table in Repository.Reset.
Reset ==
  /\ rows' = [i \in Ids |-> Absent]
  /\ gone' = gone \cup Live
  /\ UNCHANGED <<issued, req, reply, begun, clashed>>

Next ==
  \/ \E r \in Requests :
       \/ BadRequest(r)
       \/ \E i \in Ids, k \in Keys, s \in States : Create(r, i, k, s)
       \/ \E i \in Ids : Get(r, i) \/ Delete(r, i) \/ EraseRead(r, i)
       \/ \E i \in Ids, p \in Patch : UpdateRead(r, i, p)
       \/ UpdateWrite(r)
       \/ EraseWrite(r)
  \/ Reset

Spec == Init /\ [][Next]_vars

(***************************************************************************)
(* Safety.                                                                 *)
(***************************************************************************)

\* No two rows hold one value in the UNIQUE column, and where the UPDATE
\* writes that column no two bodies a GET returns show one key either: the
\* column and the body are written together and never drift apart, whatever
\* read each of them came from.
KeysDistinct ==
  \A i, j \in Live : i # j /\ Kind.unique =>
    /\ rows[i].keyCol # rows[j].keyCol
    /\ Kind.rekeys => rows[i].key # rows[j].key

\* The state column, which GET /users filters on, agrees with the state in
\* the body it returns.
StateColumnHonest == \A i \in Live : rows[i].stateCol = StateOr(rows[i].state)

\* A row that a DELETE removed never comes back, even though updates that had
\* read it before are still in flight and will be answered 200.
DeletedStaysGone == gone \cap Live = {}

\* A user that DELETE has set to deleted stays so in every GET ("Subsequent
\* GET returns 200 with state=deleted", docs/spec-notes/identity.md:16) until a
\* patch names another state, if no two requests on it have overlapped: the
\* merge of any other patch keeps the state it has read.
QuietDeletionSticks ==
  [][\A i \in Live \ clashed' :
       rows[i].state = Deleted /\ rows'[i] # Absent /\ rows'[i].state # Deleted
         => \E r \in Requests : UpdateWrite(r) /\ req[r].id = i /\ req[r].carries]_vars

\* Every change of a user that is acknowledged bumps its version: a PATCH
\* ("version (int, bumped on PATCH)", docs/spec-notes/identity.md:21) and a soft
\* delete ("flip state to "deleted" + bump version", handlers/user.go:175),
\* whatever was acknowledged between its read and its write.
ChangesBumpVersion ==
  [][\A r \in Requests :
       \/ UpdateWrite(r) /\ reply'[r] = 200
       \/ EraseWrite(r)
       => LET i == req[r].id
          IN Kind.versioned /\ i \in Live => rows'[i].version > rows[i].version]_vars
=============================================================================
