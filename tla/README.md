# fakegenesys in TLA+

fakegenesys is an HTTP server that imitates part of the Genesys Cloud API for
Terraform and SDK tests. It keeps its state in one SQLite file, in a few maps in
the process, and in a snapshot file next to the database. This directory holds
TLA+ modules translated from its Go source, the TLC configurations that check
them on small instances, and proofs that TLAPS checks for every instance.

Paths below are relative to `src/`.

## 1. Inventory

### Components, their state and their operations

| component | source | state | operations |
|---|---|---|---|
| opaque-JSON resources | `handlers/user.go`, `group.go`, `location.go`, `auth_role.go`, `oauth_client.go`, `routing_queue.go`, `routing_skill.go`, `routing_wrapupcode.go`, `routing_language.go`, `architect_user_prompt.go`, `architect_datatable.go`, `responsemanagement.go` | a table each: a few columns and a JSON body | create, list, get, update (SELECT, merge in memory, UPDATE), delete |
| flows and upload jobs | `handlers/flow.go`, `handlers/handlers.go` | table `flows`; the map `flowJobs` | CRUD, PUT (also multipart), checkout, checkin, publish, unlock, revert, deactivate; job create, upload, poll |
| queue members | `handlers/routing_queue.go` | table `routing_queue_members` with two foreign keys | POST (add or remove a batch), PATCH (replace the set in a transaction), list, count |
| datatable rows | `handlers/architect_datatable.go` | table `architect_datatable_rows`, foreign key with cascade | create, list, get, update, delete |
| in-process maps | `handlers/handlers.go`, `group.go`, `routing_queue.go`, `user_subresources.go`, `responsemanagement.go` | group members, queue wrap-up codes, user skills and languages, response libraries, each under its own mutex | add, remove, list, store |
| database lifecycle | `repository/repository.go`, `handlers/admin.go` | the database file, `.snapshot`, `.restore-tmp`, the handle `r.db` | open and migrate, reset, snapshot, restore |
| OAuth token store | `handlers/oauth.go`, `handlers/handlers.go` | token to expiry, under a mutex | issue, check (with lazy pruning), reset as a registered cache |
| state dump | `handlers/admin.go` | none | seventeen SELECTs, one after the other |
| paging | `handlers/crud.go` | none | page bounds of a list |
| singletons | `handlers/routing_utilization.go`, `idp_generic.go` | one row each | get, put, delete |
| canned endpoints | `handlers/organization.go`, `voicemail.go`, `user_subresources.go` (the search) | none | fixed answers, echoes, a user search |
| TLS interception | `handlers/tls_mitm.go` | two CA files, a leaf cache, one goroutine and one listener per connection | accept, CONNECT, handshake, serve, mint a leaf |
| start-up | `cmd/fakegenesys/main.go`, `handlers/handlers.go` | none | flags, listeners |

### How they interact

* net/http serves every request in a goroutine of its own. The handlers share
  `app.repo`, whose field `db` is read by every handler and written by Restore;
  nothing locks it.
* The pool has one connection (`SetMaxOpenConns(1)`, `repository.go:70-81`), so
  single SQL statements are serialised, and a transaction keeps everything else
  waiting. Nothing is held between two statements of a handler.
* Deleting a user, a queue or a datatable cascades to the rows that refer to it.
  Flows, jobs and the maps have no such link.
* `POST /mock/reset` runs one DELETE per table and then resets the registered
  caches. The token store is the only one registered; the maps are not.
* `POST /mock/snapshot` runs VACUUM INTO; `POST /mock/restore` copies, checks,
  closes, renames and reopens, with a way back for each step that fails.

* A connection to the TLS port passes CONNECT, a minted leaf and a handshake, is
  served by an `http.Server` of its own, and every request on it or on the plain
  port passes the bearer check before its first statement.

### What is hard here

Reads used after other requests have written (every update handler); statements
that write only some of a row's columns; rows deleted under a handler that
answers 200 all the same; the set replace failing half way while it holds the
only connection; reset, snapshot, restore and a crash meeting each other and
ordinary writes, also a statement that is running when Restore closes or replaces
the handle under it; error paths of Restore; maps that outlive the tables they refer
to; a crash between the two CA files; goroutines that wait for a client that has
left; page arithmetic at its bounds. `PROJECT.json` lists each hazard at its
line together with the properties that watch it.

### What makes each component correct

* resources: keys stay unique, columns that lists filter on agree with the body,
  deleted rows stay deleted, every acknowledged change bumps the version (it does
  not: see section 3);
* flows: lock and state agree, only the actions move the state, an answered
  action takes effect, a successful job leads to a flow (unless its INSERT met a
  closed handle);
* members: rows refer to queues and users that exist, a PATCH is all or nothing,
  the connection always comes back, every request is answered;
* lifecycle: acknowledged writes survive failing restores and crashes, a reset
  clears and revokes, a restore reinstates the snapshot, no staging file stays;
* datatable rows: callers see operations that take effect one at a time and whose
  status says what they found, rows belong to live datatables, and the pages of a
  listing tile it;
* in-process maps: a batch does what it was asked and no more, no id is listed
  twice, a new queue inherits no codes, a deleted library stays deleted;
* tokens: a token is accepted from its issue to the instant of its expiry or the
  next reset;
* TLS interception: the CA survives restarts and crashes, leaves verify against
  it, the socket of every client that has left is closed.

## 2. Modules

| module | what it is |
|---|---|
| `Records` | one resource table and its handlers; the constant `Kind` picks the resource by its traits |
| `Flows` | flows, lock actions and upload jobs |
| `QueueMembers` | queues, users and members, statement by statement |
| `MemberSets` | the abstract specification of the members endpoints |
| `Lifecycle` | database files, handle, tokens; reset, snapshot, restore, crash |
| `Paging` | `parsePagination` and `pagedList` as operators, with Go's wrapping integers |
| `DatatableRows` | datatables, their rows, paged listings and the state dump of both; extends `Paging` |
| `RowStore` | the abstract specification of the row endpoints |
| `SideMaps` | group members, queue wrap-up codes and response libraries beside the table of queues |
| `Tokens` | the OAuth token store under a clock |
| `FrontDoor` | start-up, CA files, intercepted connections and the bearer check; extends `Tokens` |
| `Records_proofs`, `Flows_proofs`, `QueueMembers_proofs`, `Lifecycle_proofs`, `DatatableRows_proofs`, `SideMaps_proofs`, `FrontDoor_proofs` | theorems and their proofs |
| `MCRecords`, `MCFlows`, `MCQueueMembers`, `MCLifecycle`, `MCDatatableRows`, `MCSideMaps` | symmetry sets, and constants too large for a configuration file |

Modelling conventions:

* One SQL statement, system call or mutex section is one step; between two of
  them the steps of other requests run. `req[r]` holds what goroutine `r`
  carries from one statement to the next.
* A handler that runs a single statement is one action. The status of an answer is
  kept where a property or a finding speaks of answers: per goroutine in `Records`
  (`reply[r]`), the one of the last step in `Flows` (`reply`, 0 for none).
* `newID()` is a UUID: `issued` (in `Lifecycle`, `used`) keeps ids from coming
  back.
* Variables marked "history" are read by properties only, never by a guard
  (apart from `begun` and `faults`, which carry a bound).
* Definitions whose comment begins with "Mutant" are not part of a
  specification: each is the definition below it with one bug, and
  `PROJECT.json` names the property that finds it.

### Records

Twelve resources have the same handlers up to seven traits: `versioned`, `soft`
(DELETE flips the state), `unique` (the schema's UNIQUE), `rekeys` (the UPDATE
writes the key column), `updates` (there is an update route), `conflicts` (the
update maps a UNIQUE failure to 409 rather than 500), `created` (status of a
create). A row has the key and state columns and the three body fields the
properties tell apart: key, version and state. `UpdateRead` is the SELECT with
the merge in memory, `UpdateWrite` the UPDATE and the answer, which is 200
whether or not the row was still there; `EraseRead` and `EraseWrite` are the two
halves of `handleUserDelete`. `Reset` is the DELETE FROM of this table. Fields
that only travel through (names of users, divisions, descriptions) are left out,
and a request without a required field is `BadRequest`. Only users have a state
in their body, so the other kinds keep it at "active".

### Flows

A row has the three columns `name`, `state`, `locked_user_id` and the body's
counterparts of them. `PutRead`/`PutWrite` and `ActionRead`/`ActionWrite` are the
halves of `handleFlowUpdate` and `flowAction`; `WrittenByPut` and
`WrittenByAction` say which columns each UPDATE leaves as they are. revert and
deactivate are aliases of unlock. `JobRecord` and `JobInsert` are the two effects
of `handleFlowJobCreate`, whose INSERT error the code drops. A PUT gives a name out
of `Edits`, or none (`Keep`); a client that creates a flow gives one out of `Names`.
`NamesAssumption` says that neither is the id of an upload job, a UUID that a
client cannot know beforehand.

Restore meets this component in three steps; its own are those of `Lifecycle`.
`TakeCopy` is the table as a snapshot or the old bytes keep it. `HandleCloses` is
`r.db.Close`: from then on every statement fails, and an error path may leave it so
for good. `HandleReopens` is `r.db` on a file again: on one of the copies when the
snapshot is in place or the old bytes were written back, or on the table as it was
when there was nothing to write back. None of them touches the job map. A job's
INSERT that meets the closed handle is noted in `dropped`. Close does not wait for
the statement that has the connection; if its file is replaced afterwards, the
statement is as good as one that ran after Close and changed nothing, except that
it is answered 200 (`WriteStranded`), and if its file stays it is a write before
Close. A Restore that overlaps a request counts as an overlap (`clashed`).

### QueueMembers and MemberSets

`Start` is `requireQueueExists` followed by the decoding of the body; then each
statement is an action, and `Begin` takes the one connection until `Commit` or
the deferred `Rollback`. `draft` is what the open transaction sees of the queue's
members. A reset is its three relevant DELETEs with the cascades. An item without
an id is skipped by the code and absent from the model; an item without a ring
number gets ring 1.

`MemberSets` knows no statements: POST puts or takes single members of a live
queue, PATCH installs a whole set in one step or leaves the set alone, deletes
and resets cascade. `QueueMembers` implements it under the mapping
`want[r]` = the set that a PATCH between its start and its commit was asked for.

### Lifecycle

Files are a database with rows, a file without tables, or absent. `handle` says
what `r.db` is open on: the file at the canonical path, a file that a rename has
unlinked (`stray`), or closed. Every call of Restore is a step of its own and may
fail where the code checks an error; VACUUM INTO is a start, during which the
connection is busy, and an end. `Insert`, `Erase` and `Issue` are the rest of the
server.

`sql.DB.Close` closes the pool and its idle connections, and a connection in use
when it is given back. Its documentation says that it waits for running queries; the
model does not rely on that, and a `Close` that does wait has fewer behaviours.
So a handle may be closed (`CloseOld`), or replaced (`Reopen`, after a race of
two Restores), with one statement running on its connection (`HandleGone`). That
statement runs on, on the file it was started on: the file at the path, or one that
the rename has unlinked, which no path leads to any more (`"lost"`). `late` says
where an INSERT or DELETE of another request may still land (`LateInsert`,
`LateErase`), and `on` where the DELETE of a reset (`ResetTableLate`) or a VACUUM
does; the next DELETE of the same reset runs on `r.db` again. A late write is
acknowledged like any other, so `owed` counts it, and `exposed` too.

Abstractions: opening the canonical path and assigning `r.db` are one step; a
file written half way counts as a file without tables, and so does what a write
back interrupted half way leaves; the change of a late statement is one step, so a
read of the old bytes never sees half a transaction, and no rollback journal stays
behind for the file that the rename puts in place; to a Restore the transaction of
a PATCH of members is some more of these statements; with `:memory:` Snapshot and
Restore answer 409 at once and are not modelled; the table `operations`, which
nothing writes, is not among the tables.

### DatatableRows, RowStore and Paging

A row request is the existence check of its datatable (`Start`), for PUT the
SELECT of the row (`RowSelect`), and its statement: `RowInsert`, `RowUpdate`,
`RowDelete` and the list are steps of their own, since nothing is held between
them. Creating and deleting a datatable and a reset (two DELETEs) run in between;
the foreign key refuses an INSERT and its cascade empties the rows. The status of
an answer stays in `req[r]` until `Return`, the step at which its client has it.

`RowStore` knows neither existence checks nor SELECTs: a pending create, update or
delete takes effect in one step, and the status it is answered says what that step
has found (201 and 409 for a free and a taken key, 404 for no row, 200 and 204 for
a row that was changed and deleted, 500 for a create whose datatable has gone). An
update that was pending when its row was deleted is late, and may be answered 200
as if it had come first; it can never bring the row back. The mapping takes the pc
of a request to the operation its caller is waiting for; an update is the same
operation before and after its SELECT, so a SELECT that finds its row is a stutter
and one that finds nothing is the step that answers 404.

A state dump reads datatables and rows with two statements; what another request
does between them is what `DumpOrphansAreNew` is about. A Restore between the two
is not modelled: the rows could then belong to datatables of the snapshot, older
than the dump.

`Paging` has no state. `Wrap` is what a Go `int` does with a result it cannot
hold; `Bounds` clamps from above only, as the code does, and a slice with bad
bounds is a panic. `Tiles` says that the pages of a list, in order, are the list;
it names as exception the page numbers whose product with the page size does not
fit an `int`.

### SideMaps

Each map has a mutex that is held for one id; a POST or DELETE of a batch is one
step per id, `AddOne` or `RemoveOne`. `maps` says which maps have been made:
removing from one that has not is the nil assignment of `handlers.go:163` and
`197`, which ends the request in a panic that the server recovers. The queue of a
wrap-up code is checked once, before the first id (`Present`), and may be deleted
or reset while the batch runs. Groups are not checked, as in the code. `LibGet`
and `LibStore` are the two mutex sections of a library update. Reset and restore
leave the maps alone and change the table of queues; a restart empties the maps
and leaves the table.

### Tokens and FrontDoor

`Tokens` is the map under its mutex: issue, the lookup that removes what it finds
expired, the reset. `granted` is the expiry that the issue promised.

`FrontDoor` composes it with what precedes a handler. `proc.pc` walks through
`newTLSMITMWithCADir`: load the pair, else generate and save; each WriteFile is a
truncation and a write, either of which may fail or be the last thing before a
crash. `conn[c].pc` walks through `handleConn`: CONNECT, leaf, handshake, Serve,
return. `http` is the goroutine that `net/http` starts for the connection; it may
end while `Serve` stays. `Request` is `bearerAuth`, which looks the token up anew
for every request. Certificates are modelled by the CA they belong to, so "the
leaf verifies" is an equality of names.

Two abstractions: a process uses its CA directory alone, and the TLS port is on
with a CA directory (the other modes drop steps and add none).

## 3. Runs

Symmetry is used in runs that check invariants and action properties only; all
the elements of the constants named below are interchangeable in them.

| run | instance | distinct states | what it shows |
|---|---|---|---|
| `records_users` | users; 2 requests, 2 ids, 2 emails, 2 updates | 541 000 | state column honest, deletions stick where requests do not overlap |
| `records_roles` | roles; 3 requests, 2 ids, 2 names, 3 updates | 54 000 | column and body names distinct, hard deletes stick |
| `flows` | 2 requests, 1 flow, 1 job, 1 name and another for PUTs, 1 copy of the table | 2 516 000 | lock, state and columns; deletes; jobs lead to flows; all with Restores in between |
| `members` | 2 requests, 1 queue, 2 users, 2 rings, bodies of 0 to 2 items | 110 000 | foreign keys, whole sets, connection; implements `MemberSets`; each step leaves a request less to do; every request is answered |
| `lifecycle` | 2 admin requests, 2 tables, 1 row id, 1 token, 2 faults | 3 382 000 | acknowledged writes, resets, restores that do not overlap, staging files; statements in progress across a Close |
| `rows` | 2 requests, 2 datatables, 2 keys, 2 bodies, `int` of -8 to 7, page sizes 2 and 3 | 107 000 | implements `RowStore`; foreign key, dumps, pages |
| `side_maps` | 2 requests, 1 group, 1 queue, 2 ids, batches of 1 and 2, 1 library | 1 415 000 | batches, lists, codes, libraries |
| `front_door` | 3 CAs, 2 connections, 1 host, 1 token with a life of 1, 1 failing file operation, any number of crashes | 791 000 | CA, leaves, tokens, sockets |

Why these bounds: every race in these handlers is between one request that has
read and one that writes, so two requests, and a second row for the constraints
that relate rows, reach them; `records_roles` has a third request so that two
stale updates meet a delete. Two updates exhaust the ways one update can be lost,
and `MaxUpdates` is needed only because versions grow. One copy of the flows table
is enough for a Restore that brings an older table back under a job, a read or an
answered action. Bodies of two items are the
shortest with a middle, where a batch can fail half way or name a user twice. Two
tables are the fewest between which something can run; two faults let the rename
and the way back from it both fail, or a failure precede a crash. An `int` that
ends at 7 has page numbers whose product wraps, and pages before, at and behind
the end of a list. Three CAs are what two interrupted starts and a third can
make. The `VIEW` of `lifecycle` merges states that differ only in `owed`, `exposed`
and `cleared` once two restores have overlapped, when no property reads those any
more and no other variable ever depends on them. A token with a life of 1 on a
clock of 2 has an instant before, at and after its expiry. The theorems of
section 5 remove these bounds for every property they state.

The remaining runs are disagreements between the code and what the repository
says of it. Each checks one property, and TLC finds it violated:

| run | the repository says | the code does |
|---|---|---|
| `users_change_keeps_version` | a soft delete bumps the version (`handlers/user.go:175`), as a PATCH does (`docs/spec-notes/identity.md:21`) | the body is written with the version that was read (`handlers/user.go:190`) |
| `flows_put_reverts` | only the actions change state (`CHANGELOG.md:173`) | a PUT writes back the state and lock it read before a checkout |
| `lifecycle_dead_handle` | no path leaves `r.db` closed (`docs/review-passes/pass2.md:42`) | a failing Close, or a failing last open, does |
| `front_door_serve_stays` | `Serve` returns when the connection closes (`handlers/tls_mitm.go:253`) | it stays in the second Accept of the one-connection listener, which nothing closes |

Disagreements that were met while modelling and have no run of their own (the
named exceptions of the properties are these):

* a PATCH that read a user before a DELETE writes the active body back
  (`handlers/user.go:162`), while `identity.md:16` has a GET show
  `state=deleted`; `QuietDeletionSticks` excludes rows whose requests overlapped;
* overlapping restores share one staging path (`repository/repository.go:165`):
  one may serve an empty file and answer 200;
* a page number whose product with the page size does not fit an `int` panics, or
  names a wrong page (`handlers/crud.go:39`);
* a CA pair that is there but cannot be read once is overwritten by a new one
  (`handlers/tls_mitm.go:86`), although the pair is meant to survive restarts;
* the list of rows of a datatable that is deleted during the request is an empty
  200 (`handlers/architect_datatable.go:206`);
* two overlapping PATCHes of a user are both answered 200 and bump the version
  once (`identity.md:21` says "bumped on PATCH"), and the change of one of them is
  lost (`handlers/user.go:162`); `ChangesBumpVersion` forbids this too, but TLC
  meets the soft delete first;
* the UPDATE at `handlers/user.go:163` leaves the UNIQUE email column alone, so a
  PATCH with the email of another user is answered 200 and both show it, while
  `identity.md:28` lists "409 — email duplicates an existing user";
* an action writes the name it read into the body but not into the UNIQUE column
  (`handlers/flow.go:331`), so after a rename two flows may show one name;
  `QuietFlowIsExact` excludes this for flows whose requests did not overlap;
* when the INSERT of a flow job fails its error is dropped (`handlers/flow.go:116`)
  and the job still reports Success, while the comment at line 102 has a GET find
  the row. Every Restore, also one that succeeds, closes the handle for a while
  (`repository/repository.go:183-206`), so the server may work and the flow be
  missing; `JobsFindTheirFlow` names these jobs (`dropped`) as its exception;
* a statement that is running when Restore closes the handle is acknowledged, and
  may be overwritten by the write back or have landed on the file that the rename
  has unlinked; `CHANGELOG.md:169` has the old database stay usable on any error
  path, and nothing says what becomes of such a write;
* a Restore that overlaps a Snapshot copies a file VACUUM INTO has not finished;
  `LoneRestoreReverses` names that case.

### Exceptions the properties name

* `exposed` (Lifecycle): rows written between Restore's reading of the old bytes
  and its closing of the handle are lost if the rename then fails; so are, or may
  be, those written by a statement that had the connection when Restore closed or
  replaced the handle; and if the write back of the old bytes fails as well, every
  row is. The properties hold for all other rows.
* `raced` (Lifecycle): once two restores have overlapped, which file is in place
  is not determined. `StagingCleanedUp` and `ResetRevokes` hold regardless.
* `clashed` (Records, Flows): rows written while another request held a read of
  them, and in `Flows` those that a Restore took over or stranded a write of while
  a request held a read. Exactness is claimed for the others, coherence for all.
* `dropped` (Flows): flows of jobs whose INSERT met a closed handle.
* `overtaken` (DatatableRows), `late` (RowStore): an update whose row was deleted
  while it was pending may be answered 200 though it has written nothing.
* `others` (SideMaps): ids that another request added or removed while a batch was
  under way; `buried` leaves out libraries deleted under an update.
* `spoiled` (FrontDoor): a whole CA pair could not be read.

## 4. Fairness

`members` assumes strong fairness of each request's next statement. A goroutine
that waits for the connection is not always able to step, since other goroutines
take it in between; `database/sql` hands a connection that is given back to a
waiting request in order, so one that keeps finding it free in turns is served.
Weak fairness would not express that. Nothing is assumed of clients: no request
need ever be sent. That being served is enough is `StatementsRunOut`: no step of a
request, on whatever path, puts it back.

`front_door` assumes weak fairness of the server's next step for a connection
whose client has left. Such a goroutine waits for nothing but the scheduler: a
read from a closed connection returns, and signing a leaf or answering a request
takes no lock that another goroutine keeps. Nothing is assumed while the client is
there, since it may stay silent for as long as it likes (the code sets no deadline
for CONNECT or the handshake), nor of starts, crashes and the clock. Under the
same assumption `front_door_serve_stays` finds the goroutine that never ends.

The other modules state no liveness: their handlers end by themselves, each
statement at most once, and a failing call in `Lifecycle` may simply end a request.

## 5. Proofs

All theorems hold for every value of the constants that the modules' ASSUMEs
admit: any number of requests, ids, keys, queues, users, any batch length, and in
`Records` any of the twelve kinds.

* `Records_proofs`. `IInv` is `TypeOK` with the state properties and what makes
  them inductive: only issued ids have rows (`IssuedFirst`), the key column equals
  the body's key where updates write it (`ColumnTracksBody`), a pending delete
  holds a deleted body (`ErasesToDeleted`), and a pending update whose patch names
  no state holds a deleted body if its row is deleted, unless the row has clashed
  (`DeletionSeen`). Without the last one such an update could write any state, and
  `QuietDeletionSticks` would not follow.
* `Flows_proofs`. Each step has one of six effects on the table (kept, read by a
  request, created, recorded by a job, written, restored); a lemma shows that
  every step of `Next` has one of them, and the invariants are proved from the
  effects. `ReadsLockedBodies` and `QuietReadsFresh` carry the two properties into
  the bodies that requests hold, `CopiesSound` into the copies a Restore may bring
  back; `InsertsAlone` keeps a job's pending id apart. `JobsLead` needs `NamesOwn`:
  a flow named like a job's id has that id, so the job's INSERT cannot fail on the
  UNIQUE name, and what is left is the closed handle. This rests on
  `NamesAssumption`; without it the dropped INSERT error would leave jobs without a
  flow even where no Restore ever ran.
* `QueueMembers_proofs`. `DraftOK` says that the draft of an open transaction
  consists of the items already inserted (`Follows`), all of them with live keys,
  which holds because no other statement runs while the connection is taken
  (`ConnectionHeldInTx`). `Implements` shows that `QueueMembers` implements
  `MemberSets`: initial states map to initial states, each step to a step or a
  stutter; the commit is the one step of a PATCH that is seen. `RequestsRunOut`
  proves `StatementsRunOut` for bodies of any length: `Left`, the statements and
  items a request has ahead of it, falls with each of its steps and no step of
  another request changes it, so every request that is served its turns ends. It
  needs nothing but the types; each step lowers `Left` at its pc, the loops by one
  item of `todo`.
* `Lifecycle_proofs`. `TokensUsed` makes `ResetRevokes` inductive: a token that is
  live, revoked or remembered by a running reset was handed out before, so
  `Issue` cannot revive it, and tokens are only ever issued or taken all at once.
  `StagedByOne` makes `StagingCleanedUp` inductive: a staging file exists only
  while some Restore stands between its copy and its rename. The restores share
  one path, so one may rename or remove the file of another; the invariant asks
  for some request, not for the one that made the file.
  `AckedWritesServed` and `ResetClears` follow from `RowInv`. Its first part,
  `RowsKnown`, says that every row in any file, in the bytes a Restore keeps or in
  a running reset has an id that was handed out, so an insert never brings a
  cleared row back. The second, `LoneInv`, holds while no two restores have
  overlapped: a Restore is alone, the handle is closed from its close to its end,
  and the bytes it keeps differ from the file in exposed rows only. Statements of
  handles that are gone may still write the file at any of these points, so the
  proof does not say that nothing does: it says that a write while the bytes are
  held, and every late write, exposes the rows it touches (`ExposedWrite`), and that
  closing, renaming and reopening change where a running statement ends but not what
  a request has promised (`Stays`, `HandleGone`). That is what makes the write back
  harmless.
  `LoneRestoreReverses` adds that the staging file is the snapshot or empty
  (`AllReverse`), for which a snapshot under way must have its file to itself
  (`OneVacuum`), and that a Restore on its way back has noted the 500.
* `DatatableRows_proofs`. `IInv` has the safety properties together with
  `TablesIssued`, `UpdatesHaveRow` (an update that has seen its row and was not
  overtaken still has it) and `DumpsSeeOldTables`. `Implements` is the refinement
  of `RowStore`. Its one hard step is the UPDATE, which answers 200 without
  looking: by `UpdatesHaveRow` either the row is there, and the step is `Updated`,
  or a delete, a cascade or a reset has come between, and the call is late, so
  that the step is `UpdatedBefore`. `PagesTile` holds by a lemma about `Bounds` for
  every list, page number and page size whose product an `int` of any width holds:
  consecutive pages meet, the last one ends the list, and those behind it are
  empty.
* `SideMaps_proofs`. `BatchesExact` generalises `QuietBatchExact` to a batch that
  is under way: the first `n` ids are dealt with, the others are as before unless
  another request touched them. `KnownIds` and `BuriedUnheld` carry the other two.
* `FrontDoor_proofs`. `FilesOK` says that until a first pair
  is whole the key file does not parse, since it is written last and truncated
  first: a start that dies before leads the next one to generate both files. Once
  a pair is whole a load finds it, so no start reaches the saving again, unless a
  read failed. `ConnsOK` keeps
  every connection in the handshake or in Serve under a CA that can sign.
  `SocketsRunDown` is about connections whose client has left: one is open exactly
  while `StepsToClose` is not zero (`SocketsOK`), that is while its handler has a
  step to take that needs nothing of the client, and every step that changes it
  lowers that number (`RunsDown`), which is two at most (`CloseIsNear`).

Only model-checked: the two liveness properties, `EveryRequestAnswered` and
`SocketsClosed`, for fairness and ENABLED are out of TLAPS's reach here. What is
proved of them is the half without fairness: the number that falls with every
step (`RequestsRunOut`, `SocketsRunDown`). Every other property of a passing run
is proved. No operator of the project is recursive.

## 6. Not modelled

* The maps of a user's skills, languages and queues (`user_subresources.go`): a
  request is one assignment under one mutex, with no check before it and nothing
  held after, so no interleaving can go wrong in them; their staleness after a
  reset is that of the maps in `SideMaps`.
* The other fifteen reads of the state dump: queue members are read after queues
  and users exactly as rows are read after datatables, and no other two tables are
  related.
* The singletons (routing utilization and IDP): one upsert, one SELECT and one
  DELETE of one row each.
* The canned endpoints (organization, voicemail, the user search): fixed answers,
  echoes, or a SELECT; no state of their own.
* Start-up beyond the CA and the database file: flag parsing, echo mode, a TLS
  port of 0, a start without a CA directory.
* Two processes on one CA directory, which nothing in the repository provides for.
* Certificate generation, the formatting of answers, the Go models and the test
  helpers.
