----------------------------- MODULE Lifecycle -----------------------------
(***************************************************************************)
(* The life of the database file: Repository.Reset, Snapshot and Restore   *)
(* (repository/repository.go) behind POST /mock/reset, /mock/snapshot and  *)
(* /mock/restore, with the OAuth token store that rides along and the      *)
(* statements other requests run on whatever handle r.db holds.            *)
(*                                                                         *)
(* Each system call of Restore is one step; admin requests run in their    *)
(* own goroutines and nothing locks r.db.  The handle follows the file it  *)
(* was opened on, not the path: a rename over the path leaves it on the    *)
(* old file, which only it can see (stray).  A statement that has the      *)
(* handle's connection when the handle is closed or replaced runs on, on   *)
(* the file it was started on; its change is one step.  Opening the        *)
(* canonical path and assigning r.db is one step.  The database is on disk *)
(* (with :memory: Snapshot and Restore answer 409 at once).                *)
(***************************************************************************)
EXTENDS Naturals

CONSTANTS
  Requests,   \* goroutines serving admin requests at the same time
  Ids,        \* row ids newID() may hand out
  LastTable,  \* number of managed tables
  Tokens,     \* tokens Issue() may mint
  MaxFaults   \* bound: failing system calls and crashes in a behaviour

ASSUME TableAssumption == LastTable \in Nat \ {0}
ASSUME FaultAssumption == MaxFaults \in Nat

Row == (1..LastTable) \X Ids
Content == SUBSET Row

\* A database and its rows, a file without tables, or no file at the path.
File == [kind: {"db"}, rows: Content] \cup [kind: {"blank", "none"}, rows: {{}}]
DB(rows) == [kind |-> "db", rows |-> rows]
Blank == [kind |-> "blank", rows |-> {}]
NoFile == [kind |-> "none", rows |-> {}]

VARIABLES
  main,    \* the file at dbPath
  snap,    \* the file at dbPath.snapshot
  tmp,     \* the file at dbPath.restore-tmp
  stray,   \* the unlinked file an outdated handle is still open on
  handle,  \* what r.db is open on: "main", "stray", or "closed"
  late,    \* files that an INSERT or DELETE on a handle now gone may still
           \* write: "main", or "lost" for one that no path leads to
  tokens,  \* live tokens of the token store
  req,     \* the admin request each goroutine is serving
  used,    \* row ids and tokens handed out
  faults,  \* faults so far, what MaxFaults bounds
  crashed, \* history: the server has crashed and was started again
  owed,    \* history: the rows that acknowledged writes and restores have left
  exposed, \* history: rows written while a Restore held the old bytes or by a
           \* statement whose handle was gone, and those a write back of them
           \* that failed has lost
  cleared, \* history: rows that an acknowledged reset has removed
  revoked, \* history: tokens that were live when an acknowledged reset began
  raced    \* history: two Restores have been under way at the same time

files == <<main, snap, tmp, stray>>
ghosts == <<owed, exposed, cleared, revoked, raced>>
vars == <<files, handle, late, tokens, req, used, faults, crashed, ghosts>>

Idle == [pc |-> "idle"]

\* Where the statement of a reset or a snapshot runs: on r.db, or on a file that
\* was r.db's when it started.
Places == {"handle", "main", "lost"}

Resetting == [pc: {"reset"}, on: Places, next: 1..(LastTable + 1),
              doomed: Content, live: SUBSET Tokens]
Vacuuming == [pc: {"vacuum"}, on: Places, copy: File]
Restoring == [pc: {"copy", "verify", "read", "close", "rename", "undo", "open"},
              old: File, status: {200, 500}]

TypeOK ==
  /\ {main, snap, tmp, stray} \subseteq File
  /\ handle \in {"main", "stray", "closed"}
  /\ late \subseteq {"main", "lost"}
  /\ tokens \subseteq Tokens
  /\ req \in [Requests -> Resetting \cup Vacuuming \cup Restoring \cup {Idle}]
  /\ used \subseteq Ids \cup Tokens
  /\ faults \in 0..MaxFaults
  /\ crashed \in BOOLEAN
  /\ {owed, exposed, cleared} \subseteq Content
  /\ revoked \subseteq Tokens
  /\ raced \in BOOLEAN

Init ==
  /\ main = DB({})
  /\ snap = NoFile
  /\ tmp = NoFile
  /\ stray = NoFile
  /\ handle = "main"
  /\ late = {}
  /\ tokens = {}
  /\ req = [r \in Requests |-> Idle]
  /\ used = {}
  /\ faults = 0
  /\ crashed = FALSE
  /\ owed = {}
  /\ exposed = {}
  /\ cleared = {}
  /\ revoked = {}
  /\ raced = FALSE

(***************************************************************************)
(* The file the handle is open on.                                         *)
(***************************************************************************)
Served == IF handle = "main" THEN main ELSE stray

VacuumBy(r) == req[r].pc = "vacuum" /\ req[r].on = "handle"

\* A statement runs: the handle is open, has its one connection free and
\* finds its tables.
Usable ==
  /\ handle # "closed"
  /\ Served.kind = "db"
  /\ \A r \in Requests : ~VacuumBy(r)

Store(rows) ==
  IF handle = "main" THEN main' = DB(rows) /\ UNCHANGED stray
                     ELSE stray' = DB(rows) /\ UNCHANGED main

Fault == faults < MaxFaults /\ faults' = faults + 1

Goto(r, pc) == req' = [req EXCEPT ![r].pc = pc]
\* Operators whose comment begins with Mutant are never used by the
\* specification: each is one bug in the definition below it.

\* Mutant: the fields of an answered request are left behind.
DoneKeepingFields(r) == req' = [req EXCEPT ![r].pc = "idle"]

Done(r) == req' = [req EXCEPT ![r] = Idle]

InRestore(r) == req[r].pc \in {"copy", "verify", "read", "close", "rename", "undo", "open"}

\* Some Restore has read the old bytes and not yet closed the handle.
BytesHeld == \E r \in Requests : req[r].pc = "close"

(***************************************************************************)
(* Other requests: one INSERT or DELETE each, and POST /oauth/token.  A    *)
(* statement that fails changes nothing and is no step.                    *)
(***************************************************************************)
Insert(t, i) ==
  /\ Usable
  /\ i \notin used
  /\ used' = used \cup {i}
  /\ Store(Served.rows \cup {<<t, i>>})
  /\ owed' = owed \cup {<<t, i>>}
  /\ exposed' = IF BytesHeld THEN exposed \cup {<<t, i>>} ELSE exposed
  /\ UNCHANGED <<snap, tmp, handle, late, tokens, req, faults, crashed, cleared, revoked, raced>>

Erase(x) ==
  /\ Usable
  /\ x \in Served.rows
  /\ Store(Served.rows \ {x})
  /\ owed' = owed \ {x}
  /\ exposed' = IF BytesHeld THEN exposed \cup {x} ELSE exposed
  /\ UNCHANGED <<snap, tmp, handle, late, tokens, req, used, faults, crashed, cleared,
                 revoked, raced>>

\* The same on a handle that is gone: no statement of r.db sees the connection,
\* and any number of handles may have left one.
LateWrite(f, rows, x) ==
  /\ f \in late
  /\ late' \in {late, late \ {f}}
  /\ IF f = "main" THEN main.kind = "db" /\ main' = DB(rows) ELSE UNCHANGED main
  /\ exposed' = exposed \cup {x}
  /\ UNCHANGED <<snap, tmp, stray, handle, tokens, req, faults, crashed, cleared, revoked, raced>>

LateInsert(f, t, i) ==
  /\ i \notin used
  /\ used' = used \cup {i}
  /\ LateWrite(f, main.rows \cup {<<t, i>>}, <<t, i>>)
  /\ owed' = owed \cup {<<t, i>>}

LateErase(f, x) ==
  /\ x[2] \in used
  /\ f = "main" => x \in main.rows
  /\ LateWrite(f, main.rows \ {x}, x)
  /\ owed' = owed \ {x}
  /\ UNCHANGED used

Issue(k) ==
  /\ k \notin used
  /\ used' = used \cup {k}
  /\ tokens' = tokens \cup {k}
  /\ UNCHANGED <<files, handle, late, req, faults, crashed, ghosts>>

(***************************************************************************)
(* Reset: DELETE FROM table after table, then the caches.                  *)
(***************************************************************************)
ResetStart(r) ==
  /\ req[r] = Idle
  /\ \A q \in Requests : ~VacuumBy(q)
  /\ req' = [req EXCEPT ![r] =
       [pc |-> "reset", on |-> "handle", next |-> 1, live |-> tokens,
        doomed |-> IF Usable THEN Served.rows ELSE {}]]
  /\ UNCHANGED <<files, handle, late, tokens, used, faults, crashed, ghosts>>

\* Mutant: managedTables is walked from its second entry.
RowsOfNext(t) == {t + 1} \X Ids

RowsOf(t) == {t} \X Ids

NextTable(c) == [c EXCEPT !.on = "handle", !.next = @ + 1]

ResetTable(r) ==
  LET table == RowsOf(req[r].next)
  IN /\ req[r].pc = "reset"
     /\ req[r].on = "handle"
     /\ req[r].next <= LastTable
     /\ Usable
     /\ Store(Served.rows \ table)
     /\ owed' = owed \ table
     /\ exposed' = IF BytesHeld THEN exposed \cup (Served.rows \cap table) ELSE exposed
     /\ req' = [req EXCEPT ![r] = NextTable(@)]
     /\ UNCHANGED <<snap, tmp, handle, late, tokens, used, faults, crashed, cleared,
                    revoked, raced>>

\* The DELETE that was running when the handle went; the next one runs on r.db.
ResetTableLate(r) ==
  LET table == RowsOf(req[r].next)
  IN /\ req[r].pc = "reset"
     /\ req[r].on \in {"main", "lost"}
     /\ req[r].next <= LastTable
     /\ IF req[r].on = "main"
          THEN main.kind = "db" /\ main' = DB(main.rows \ table)
          ELSE UNCHANGED main
     /\ owed' = owed \ table
     /\ exposed' = exposed \cup (main.rows \cap table)
     /\ req' = [req EXCEPT ![r] = NextTable(@)]
     /\ UNCHANGED <<snap, tmp, stray, handle, late, tokens, used, faults, crashed,
                    cleared, revoked, raced>>

\* A DELETE fails: the tables so far stay empty, the tokens stay live.
ResetFail(r) ==
  /\ req[r].pc = "reset"
  /\ req[r].next <= LastTable
  /\ req[r].on # "handle" \/ handle = "closed" \/ Served.kind # "db"
  /\ Done(r)
  /\ UNCHANGED <<files, handle, late, tokens, used, faults, crashed, ghosts>>

\* Mutant: the token store is not registered as a cache.
ResetWithoutCaches(r) ==
  /\ req[r].pc = "reset"
  /\ req[r].next = LastTable + 1
  /\ cleared' = cleared \cup req[r].doomed
  /\ revoked' = revoked \cup req[r].live
  /\ Done(r)
  /\ UNCHANGED <<files, handle, late, tokens, used, faults, crashed, owed, exposed, raced>>

ResetCaches(r) ==
  /\ req[r].pc = "reset"
  /\ req[r].next = LastTable + 1
  /\ tokens' = {}
  /\ cleared' = cleared \cup req[r].doomed
  /\ revoked' = revoked \cup req[r].live
  /\ Done(r)
  /\ UNCHANGED <<files, handle, late, used, faults, crashed, owed, exposed, raced>>

(***************************************************************************)
(* Snapshot: VACUUM INTO, which refuses a file that exists and holds       *)
(* anything, and leaves an unfinished file behind when it fails.           *)
(***************************************************************************)
SnapshotStart(r) ==
  /\ req[r] = Idle
  /\ Usable
  /\ snap \in {NoFile, Blank}
  /\ \A q \in Requests : req[q].pc # "vacuum"
  /\ req' = [req EXCEPT ![r] = [pc |-> "vacuum", on |-> "handle", copy |-> Served]]
  /\ snap' = Blank
  /\ UNCHANGED <<main, tmp, stray, handle, late, tokens, used, faults, crashed, ghosts>>

SnapshotEnd(r) ==
  /\ req[r].pc = "vacuum"
  /\ snap' = req[r].copy
  /\ Done(r)
  /\ UNCHANGED <<main, tmp, stray, handle, late, tokens, used, faults, crashed, ghosts>>

SnapshotFail(r) ==
  /\ req[r].pc = "vacuum"
  /\ Fault
  /\ Done(r)
  /\ UNCHANGED <<files, handle, late, tokens, used, crashed, ghosts>>

(***************************************************************************)
(* Restore.                                                                *)
(***************************************************************************)
\* os.Stat finds a snapshot (without one the answer is 404).
RestoreStart(r) ==
  /\ req[r] = Idle
  /\ snap # NoFile
  /\ req' = [req EXCEPT ![r] = [pc |-> "copy", old |-> NoFile, status |-> 200]]
  /\ raced' = (raced \/ \E q \in Requests \ {r} : InRestore(q))
  /\ UNCHANGED <<files, handle, late, tokens, used, faults, crashed, owed, exposed,
                 cleared, revoked>>

CopySnapshot(r) ==
  /\ req[r].pc = "copy"
  /\ tmp' = snap
  /\ Goto(r, "verify")
  /\ UNCHANGED <<main, snap, stray, handle, late, tokens, used, faults, crashed, ghosts>>

\* openDB on the staging path, which creates the file if it is missing.
VerifyStaging(r) ==
  /\ req[r].pc = "verify"
  /\ tmp' = IF tmp = NoFile THEN Blank ELSE tmp
  /\ Goto(r, "read")
  /\ UNCHANGED <<main, snap, stray, handle, late, tokens, used, faults, crashed, ghosts>>

\* Mutant: the staging file stays.
StagingFailsUntidy(r) ==
  /\ req[r].pc \in {"copy", "verify"}
  /\ Fault
  /\ Done(r)
  /\ UNCHANGED <<files, handle, late, tokens, used, crashed, ghosts>>

\* The copy or the open fails: os.Remove of the staging file.
StagingFails(r) ==
  /\ req[r].pc \in {"copy", "verify"}
  /\ Fault
  /\ tmp' = NoFile
  /\ Done(r)
  /\ UNCHANGED <<main, snap, stray, handle, late, tokens, used, crashed, ghosts>>

\* Mutant: the bytes kept for the way back are those of the staging file.
ReadStaging(r) ==
  /\ req[r].pc = "read"
  /\ req' = [req EXCEPT ![r] = [@ EXCEPT !.old = tmp, !.pc = "close"]]
  /\ UNCHANGED <<files, handle, late, tokens, used, faults, crashed, ghosts>>

\* os.ReadFile of the database; an error is remembered and Restore goes on.
ReadOld(r) ==
  /\ req[r].pc = "read"
  /\ \/ /\ req' = [req EXCEPT ![r] = [@ EXCEPT !.old = main, !.pc = "close"]]
        /\ UNCHANGED faults
     \/ Fault /\ Goto(r, "close")
  /\ UNCHANGED <<files, handle, late, tokens, used, crashed, ghosts>>

\* q has a statement on the one connection of the handle.
Running(q) ==
  \/ VacuumBy(q)
  \/ /\ req[q].pc = "reset" /\ req[q].on = "handle" /\ req[q].next <= LastTable
     /\ \A p \in Requests : ~VacuumBy(p)

\* The handle goes while at most one statement runs on it: one of a reset or a
\* snapshot, an INSERT or DELETE of another request, or none.  moved is what the
\* requests become otherwise.
HandleGone(moved) ==
  LET file == IF handle = "main" THEN "main" ELSE "lost"
  IN \/ /\ handle # "closed"
        /\ \E q \in Requests : Running(q) /\ req' = [moved EXCEPT ![q].on = file]
        /\ UNCHANGED late
     \/ /\ \A q \in Requests : ~VacuumBy(q)
        /\ req' = moved
        /\ late' \in {late} \cup (IF handle = "closed" THEN {} ELSE {late \cup {file}})

\* r.db.Close, which closes the pool and waits for no connection in use; on an
\* error the handle is closed as well, and Restore gives up.
CloseOld(r) ==
  /\ req[r].pc = "close"
  /\ handle' = "closed"
  /\ stray' = NoFile
  /\ \/ /\ HandleGone([req EXCEPT ![r].pc = "rename"])
        /\ UNCHANGED <<tmp, faults>>
     \/ /\ Fault
        /\ tmp' = NoFile
        /\ HandleGone([req EXCEPT ![r] = Idle])
  /\ UNCHANGED <<main, snap, tokens, used, crashed, ghosts>>

\* The rename unlinks the file under statements that still run on it.
Unlinked(q, staged) ==
  CASE req[q].pc = "reset" ->
         [req[q] EXCEPT !.doomed = @ \ staged, !.on = IF @ = "main" THEN "lost" ELSE @]
    [] req[q].pc = "vacuum" -> [req[q] EXCEPT !.on = IF @ = "main" THEN "lost" ELSE @]
    [] OTHER -> req[q]

\* The old bytes are no longer read once the file at the path is settled.
Opening(c) == [c EXCEPT !.pc = "open", !.old = NoFile]

\* os.Rename of the staging file over the database.
SwapIn(r) ==
  /\ req[r].pc = "rename"
  /\ tmp # NoFile
  /\ main' = tmp
  /\ tmp' = NoFile
  /\ IF handle = "main" THEN handle' = "stray" /\ stray' = main
                        ELSE UNCHANGED <<handle, stray>>
  /\ req' = [q \in Requests |->
       IF q = r THEN Opening(req[r]) ELSE Unlinked(q, tmp.rows)]
  /\ late' = IF "main" \in late THEN {"lost"} ELSE late
  /\ owed' = tmp.rows
  /\ cleared' = cleared \ tmp.rows
  /\ UNCHANGED <<snap, tokens, used, faults, crashed, exposed, revoked, raced>>

\* Mutant: the error of the rename is lost on the way back.
SwapErrorLost(r) ==
  /\ req[r].pc = "rename"
  /\ \/ tmp = NoFile /\ UNCHANGED faults
     \/ Fault
  /\ tmp' = NoFile
  /\ Goto(r, "undo")
  /\ UNCHANGED <<main, snap, stray, handle, late, tokens, used, crashed, ghosts>>

SwapFails(r) ==
  /\ req[r].pc = "rename"
  /\ \/ tmp = NoFile /\ UNCHANGED faults
     \/ Fault
  /\ tmp' = NoFile
  /\ req' = [req EXCEPT ![r] = [@ EXCEPT !.pc = "undo", !.status = 500]]
  /\ UNCHANGED <<main, snap, stray, handle, late, tokens, used, crashed, ghosts>>

\* os.WriteFile of the old bytes if they were read; it may fail half way, and
\* then everything is lost.
WriteBack(r) ==
  /\ req[r].pc = "undo"
  /\ \/ /\ main' = IF req[r].old = NoFile THEN main ELSE req[r].old
        /\ UNCHANGED <<faults, exposed>>
     \/ /\ Fault
        /\ req[r].old # NoFile
        /\ main' = Blank
        /\ exposed' = exposed \cup owed
  /\ req' = [req EXCEPT ![r] = Opening(@)]
  /\ UNCHANGED <<snap, tmp, stray, handle, late, tokens, used, crashed, owed, cleared,
                 revoked, raced>>

\* openDB on the canonical path; on an error r.db stays as it was.
Reopen(r) ==
  /\ req[r].pc = "open"
  /\ \/ handle' = "main" /\ stray' = NoFile /\ HandleGone([req EXCEPT ![r] = Idle])
        /\ UNCHANGED faults
     \/ Fault /\ Done(r) /\ UNCHANGED <<handle, stray, late>>
  /\ UNCHANGED <<main, snap, tmp, tokens, used, crashed, ghosts>>

(***************************************************************************)
(* A crash, and New on the files that are left: tables are created in a    *)
(* file that has none, the token store starts empty.                       *)
(***************************************************************************)
Restart ==
  /\ Fault
  /\ main' = DB(main.rows)
  /\ handle' = "main"
  /\ stray' = NoFile
  /\ late' = {}
  /\ tokens' = {}
  /\ req' = [r \in Requests |-> Idle]
  /\ crashed' = TRUE
  /\ UNCHANGED <<snap, tmp, used, ghosts>>

Next ==
  \/ \E t \in 1..LastTable, i \in Ids : Insert(t, i) \/ Erase(<<t, i>>)
  \/ \E f \in {"main", "lost"}, t \in 1..LastTable, i \in Ids :
       LateInsert(f, t, i) \/ LateErase(f, <<t, i>>)
  \/ \E k \in Tokens : Issue(k)
  \/ \E r \in Requests :
       \/ ResetStart(r) \/ ResetTable(r) \/ ResetTableLate(r) \/ ResetFail(r) \/ ResetCaches(r)
       \/ SnapshotStart(r) \/ SnapshotEnd(r) \/ SnapshotFail(r)
       \/ RestoreStart(r) \/ CopySnapshot(r) \/ VerifyStaging(r) \/ StagingFails(r)
       \/ ReadOld(r) \/ CloseOld(r) \/ SwapIn(r) \/ SwapFails(r) \/ WriteBack(r)
       \/ Reopen(r)
  \/ Restart

Spec == Init /\ [][Next]_vars

(***************************************************************************)
(* Safety.                                                                 *)
(***************************************************************************)
NoRestore == \A r \in Requests : ~InRestore(r)
Quiet == \A r \in Requests : req[r] = Idle

\* At every instant, also between two calls of a Restore, a server that crashed
\* and came back would find exactly what acknowledged writes and restores have
\* left, wherever calls failed, if no two Restores overlapped.  Only these rows may
\* differ: those written between reading the old bytes and closing the handle,
\* those written by a statement that had the connection when Restore closed or
\* replaced its handle, whenever that statement ends, and those lost when both the
\* rename and the write back of the old bytes failed.
AckedWritesServed == ~raced => main.rows \ exposed = owed \ exposed

\* No staging file is left behind by a Restore, failed or not, alone or
\* racing others, unless the server crashed.
StagingCleanedUp == Quiet /\ ~crashed => tmp = NoFile

\* A row that was there when a reset began is gone once it is acknowledged,
\* and only a snapshot that holds it brings it back: neither a failed Restore
\* nor a crash does.  Only rows deleted while a Restore held the old bytes, or by a
\* statement that ran on across its Close, may come back.
ResetClears == ~raced => (cleared \ exposed) \cap main.rows = {}

\* A token that was live when a reset began is refused for ever once the
\* reset is acknowledged: no Restore, crash or second reset revives it.
ResetRevokes == revoked \cap tokens = {}

\* While no two Restores have overlapped an answer of 200 means that the
\* database is the snapshot ("Restore reverses a Snapshot",
\* repository/repository.go:148), whatever failed on the way (or the empty file
\* of a snapshot that VACUUM INTO had not finished when it was copied).
LoneRestoreReverses ==
  [][\A r \in Requests :
       Reopen(r) /\ handle' = "main" /\ req[r].status = 200 /\ ~raced
         => main' \in {snap, Blank}]_vars

\* docs/review-passes/pass2.md:42: no code path leaves r.db on a closed handle.
NoDeadHandle == NoRestore => handle # "closed"
=============================================================================
