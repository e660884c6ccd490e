-------------------------- MODULE Lifecycle_proofs --------------------------
(***************************************************************************)
(* Proofs about Lifecycle, for any number of admin requests, row ids,      *)
(* tables, tokens and faults.                                              *)
(***************************************************************************)
EXTENDS Lifecycle, TLAPS

(***************************************************************************)
(* Types.                                                                  *)
(***************************************************************************)
Admin == Resetting \cup Vacuuming \cup Restoring \cup {Idle}

RestoreSteps == {"copy", "verify", "read", "close", "rename", "undo", "open"}

LEMMA FileFacts ==
  /\ NoFile \in File /\ Blank \in File
  /\ \A rows \in Content : DB(rows) \in File
  /\ \A f \in File : f.rows \in Content /\ f.kind \in {"db", "blank", "none"}
  /\ NoFile # Blank
BY DEF File, NoFile, Blank, DB, Content

LEMMA RequestType ==
  ASSUME TypeOK, NEW r \in Requests
  PROVE  /\ req[r] \in Admin
         /\ req[r].pc \in {"idle", "reset", "vacuum"} \cup RestoreSteps
         /\ req[r].pc = "idle" => req[r] = Idle
         /\ req[r].pc = "reset" => req[r] \in Resetting
         /\ req[r].pc = "vacuum" => req[r] \in Vacuuming
         /\ req[r].pc \in RestoreSteps => req[r] \in Restoring
BY DEF TypeOK, Admin, Resetting, Vacuuming, Restoring, RestoreSteps, Idle

LEMMA ServedType == TypeOK => Served \in File /\ Served.rows \in Content
BY FileFacts DEF TypeOK, Served

LEMMA StoreType ==
  ASSUME TypeOK, NEW rows \in Content, Store(rows)
  PROVE  main' \in File /\ stray' \in File
BY FileFacts DEF TypeOK, Store

LEMMA DoneType ==
  ASSUME TypeOK, NEW r \in Requests, Done(r)
  PROVE  req' \in [Requests -> Admin] /\ req'[r] = Idle /\ \A q \in Requests \ {r} : req'[q] = req[q]
BY DEF TypeOK, Done, Admin

\* A restore goes on to its next call.
LEMMA RestoreGoes ==
  ASSUME TypeOK, NEW r \in Requests, req[r].pc \in RestoreSteps, NEW pc \in RestoreSteps,
         Goto(r, pc)
  PROVE  /\ req' \in [Requests -> Admin]
         /\ req'[r].pc = pc /\ req'[r].old = req[r].old /\ req'[r].status = req[r].status
         /\ \A q \in Requests \ {r} : req'[q] = req[q]
<1>1. req[r] \in Restoring
  BY RequestType
<1>2. /\ [req[r] EXCEPT !.pc = pc] \in Restoring
      /\ [req[r] EXCEPT !.pc = pc].pc = pc
      /\ [req[r] EXCEPT !.pc = pc].old = req[r].old
      /\ [req[r] EXCEPT !.pc = pc].status = req[r].status
  BY <1>1 DEF Restoring, RestoreSteps
<1>3. req' = [req EXCEPT ![r] = [req[r] EXCEPT !.pc = pc]]
  BY DEF Goto
<1> QED BY <1>2, <1>3 DEF TypeOK, Admin

\* A restore whose rename failed goes on to write the old bytes back.
LEMMA SwapFailsGoes ==
  ASSUME TypeOK, NEW r \in Requests, SwapFails(r)
  PROVE  /\ req' \in [Requests -> Admin]
         /\ req'[r].pc = "undo" /\ req'[r].old = req[r].old /\ req'[r].status = 500
         /\ \A q \in Requests \ {r} : req'[q] = req[q]
<1>1. req[r] \in Restoring
  BY RequestType DEF SwapFails, RestoreSteps
<1> DEFINE marked == [req[r] EXCEPT !.pc = "undo"]
           failed == [marked EXCEPT !.status = 500]
<1>2. marked \in Restoring /\ marked.pc = "undo" /\ marked.old = req[r].old
  BY <1>1 DEF Restoring
<1>3. failed \in Restoring /\ failed.pc = "undo" /\ failed.old = req[r].old /\ failed.status = 500
  <2> HIDE DEF marked
  <2> QED BY <1>2 DEF Restoring
<1>4. req' = [req EXCEPT ![r] = failed]
  BY DEF SwapFails
<1> HIDE DEF failed
<1> QED BY <1>3, <1>4 DEF TypeOK, Admin

\* A restore that has read the old bytes goes on to close the handle.
LEMMA ReadOldGoes ==
  ASSUME TypeOK, NEW r \in Requests, ReadOld(r)
  PROVE  /\ req' \in [Requests -> Admin]
         /\ req'[r].pc = "close" /\ req'[r].old \in {main, req[r].old}
         /\ \A q \in Requests \ {r} : req'[q] = req[q]
<1>1. req[r] \in Restoring
  BY RequestType DEF ReadOld, RestoreSteps
<1> DEFINE read == [req[r] EXCEPT !.old = main, !.pc = "close"]
<1>2. read \in Restoring /\ read.pc = "close" /\ read.old = main
  <2> DEFINE kept == [req[r] EXCEPT !.old = main]
  <2>1. kept \in Restoring /\ kept.old = main
    BY <1>1 DEF Restoring, TypeOK
  <2>2. read = [kept EXCEPT !.pc = "close"]
    OBVIOUS
  <2> HIDE DEF kept, read
  <2> QED BY <2>1, <2>2 DEF Restoring
<1>3. ASSUME Goto(r, "close")
      PROVE  /\ req' \in [Requests -> Admin]
             /\ req'[r].pc = "close" /\ req'[r].old = req[r].old
             /\ \A q \in Requests \ {r} : req'[q] = req[q]
  BY <1>3, RestoreGoes DEF ReadOld, RestoreSteps
<1>4. req' = [req EXCEPT ![r] = read] \/ Goto(r, "close")
  BY DEF ReadOld
<1> HIDE DEF read
<1> QED BY <1>2, <1>3, <1>4 DEF TypeOK, Admin

\* A restore whose file is settled opens the handle next.
LEMMA OpeningType ==
  ASSUME NEW c \in Restoring
  PROVE  /\ Opening(c) \in Restoring /\ Opening(c).pc = "open"
         /\ Opening(c).old = NoFile /\ Opening(c).status = c.status
<1> DEFINE marked == [c EXCEPT !.pc = "open"]
           back == [marked EXCEPT !.old = NoFile]
<1>1. marked \in Restoring /\ marked.pc = "open" /\ marked.status = c.status
  BY DEF Restoring
<1>2. Opening(c) = back
  BY DEF Opening
<1> HIDE DEF marked
<1>3. /\ back \in Restoring /\ back.pc = "open" /\ back.status = c.status
      /\ back.old = NoFile
  BY <1>1, FileFacts DEF Restoring
<1> HIDE DEF back
<1> QED BY <1>2, <1>3

LEMMA WriteBackGoes ==
  ASSUME TypeOK, NEW r \in Requests, WriteBack(r)
  PROVE  /\ req' \in [Requests -> Admin]
         /\ req'[r].pc = "open" /\ req'[r].status = req[r].status
         /\ req'[r].old = NoFile
         /\ \A q \in Requests \ {r} : req'[q] = req[q]
<1>1. req[r] \in Restoring
  BY RequestType DEF WriteBack, RestoreSteps
<1>2. req' = [req EXCEPT ![r] = Opening(req[r])]
  BY DEF WriteBack
<1> QED BY <1>1, <1>2, OpeningType DEF TypeOK, Admin

\* A reset goes on to its next table, on r.db.
LEMMA NextTableType ==
  ASSUME NEW c \in Resetting, c.next <= LastTable
  PROVE  /\ NextTable(c) \in Resetting /\ NextTable(c).pc = "reset"
         /\ NextTable(c).on = "handle" /\ NextTable(c).next = c.next + 1
         /\ NextTable(c).doomed = c.doomed /\ NextTable(c).live = c.live
<1> DEFINE next == c.next + 1
           here == [c EXCEPT !.on = "handle"]
           moved == [here EXCEPT !.next = next]
<1>1. next \in 1..(LastTable + 1)
  BY TableAssumption DEF Resetting
<1>2. /\ here \in Resetting /\ here.doomed = c.doomed /\ here.live = c.live
      /\ here.on = "handle"
  BY DEF Resetting, Places
<1>3. NextTable(c) = moved
  BY DEF NextTable, Resetting
<1> HIDE DEF here
<1>4. next = c.next + 1
  OBVIOUS
<1> HIDE DEF next
<1>5. /\ moved \in Resetting /\ moved.pc = "reset" /\ moved.next = next
      /\ moved.doomed = c.doomed /\ moved.live = c.live /\ moved.on = "handle"
  BY <1>1, <1>2 DEF Resetting
<1> HIDE DEF moved
<1> QED BY <1>3, <1>4, <1>5

LEMMA ResetGoes ==
  ASSUME TypeOK, NEW r \in Requests, ResetTable(r) \/ ResetTableLate(r)
  PROVE  /\ req' \in [Requests -> Admin]
         /\ req'[r].pc = "reset" /\ req'[r].next = req[r].next + 1
         /\ req'[r].doomed = req[r].doomed /\ req'[r].live = req[r].live
         /\ req'[r].on = "handle"
         /\ \A q \in Requests \ {r} : req'[q] = req[q]
<1>1. req[r] \in Resetting /\ req[r].next <= LastTable
  BY RequestType DEF ResetTable, ResetTableLate
<1>2. req' = [req EXCEPT ![r] = NextTable(req[r])]
  BY DEF ResetTable, ResetTableLate
<1> QED BY <1>1, <1>2, NextTableType DEF TypeOK, Admin

\* Another request keeps everything but where its statement runs.
Stays(q) ==
  \/ req'[q] = req[q]
  \/ /\ req[q].pc = "reset" /\ req'[q].pc = "reset"
     /\ req'[q].next = req[q].next /\ req'[q].doomed = req[q].doomed
     /\ req'[q].live = req[q].live
  \/ /\ req[q].pc = "vacuum" /\ req'[q].pc = "vacuum" /\ req'[q].copy = req[q].copy

\* Only the request whose statement is left behind on a handle that goes differs.
LEMMA HandleGoneType ==
  ASSUME TypeOK, NEW r \in Requests, req[r].pc \in RestoreSteps, NEW c \in Admin,
         HandleGone([req EXCEPT ![r] = c])
  PROVE  /\ req' \in [Requests -> Admin] /\ late' \subseteq {"main", "lost"}
         /\ req'[r] = c /\ \A q \in Requests \ {r} : Stays(q)
<1> DEFINE file == IF handle = "main" THEN "main" ELSE "lost"
           moved == [req EXCEPT ![r] = c]
<1>1. /\ moved \in [Requests -> Admin] /\ moved[r] = c
      /\ \A q \in Requests \ {r} : moved[q] = req[q]
  BY DEF TypeOK, Admin
<1>2. file \in {"main", "lost"}
  OBVIOUS
<1>3. CASE /\ req' = moved
           /\ late' \in {late} \cup (IF handle = "closed" THEN {} ELSE {late \cup {file}})
  BY <1>1, <1>2, <1>3 DEF Stays, TypeOK
<1>4. ASSUME NEW p \in Requests, Running(p), req' = [moved EXCEPT ![p].on = file],
             UNCHANGED late
      PROVE  /\ req' \in [Requests -> Admin] /\ late' \subseteq {"main", "lost"}
             /\ req'[r] = c /\ \A q \in Requests \ {r} : Stays(q)
  <2> DEFINE left == [req[p] EXCEPT !.on = file]
  <2> HIDE DEF file
  <2>1. req[p].pc \in {"reset", "vacuum"}
    BY <1>4 DEF Running, VacuumBy
  <2>2. p # r
    BY <2>1 DEF RestoreSteps
  <2>3. /\ left \in Admin /\ left.pc = req[p].pc
        /\ req[p].pc = "reset" => /\ left.next = req[p].next /\ left.doomed = req[p].doomed
                                 /\ left.live = req[p].live
        /\ req[p].pc = "vacuum" => left.copy = req[p].copy
    <3>1. CASE req[p].pc = "reset"
      <4>1. req[p] \in Resetting
        BY <3>1, RequestType
      <4>2. left \in Resetting /\ left.pc = req[p].pc /\ left.next = req[p].next
            /\ left.doomed = req[p].doomed /\ left.live = req[p].live
        BY <1>2, <4>1 DEF Resetting, Places
      <4> QED BY <3>1, <4>2 DEF Admin
    <3>2. CASE req[p].pc = "vacuum"
      <4>1. req[p] \in Vacuuming
        BY <3>2, RequestType
      <4>2. left \in Vacuuming /\ left.pc = req[p].pc /\ left.copy = req[p].copy
        BY <1>2, <4>1 DEF Vacuuming, Places
      <4> QED BY <3>2, <4>2 DEF Admin
    <3> QED BY <2>1, <3>1, <3>2
  <2>4. req' = [moved EXCEPT ![p] = left]
    BY <1>1, <1>4, <2>2
  <2> HIDE DEF left, moved
  <2>5. /\ req' \in [Requests -> Admin] /\ req'[p] = left
        /\ \A q \in Requests \ {p} : req'[q] = moved[q]
    BY <1>1, <2>3, <2>4
  <2>6. Stays(p)
    BY <2>1, <2>3, <2>5 DEF Stays
  <2> QED BY <1>1, <1>4, <2>2, <2>5, <2>6 DEF Stays, TypeOK
<1> QED BY <1>3, <1>4 DEF HandleGone

LEMMA CloseOldGoes ==
  ASSUME TypeOK, NEW r \in Requests, CloseOld(r)
  PROVE  /\ req' \in [Requests -> Admin] /\ late' \subseteq {"main", "lost"}
         /\ \A q \in Requests \ {r} : Stays(q)
         /\ \/ /\ req'[r].pc = "rename" /\ req'[r].old = req[r].old
               /\ req'[r].status = req[r].status
               /\ UNCHANGED <<tmp, faults>>
            \/ req'[r] = Idle /\ Fault /\ tmp' = NoFile
<1>1. req[r] \in Restoring /\ req[r].pc \in RestoreSteps
  BY RequestType DEF CloseOld, RestoreSteps
<1> DEFINE next == [req[r] EXCEPT !.pc = "rename"]
<1>2. /\ next \in Restoring /\ next.pc = "rename" /\ next.old = req[r].old
      /\ next.status = req[r].status
  BY <1>1 DEF Restoring
<1>3. [req EXCEPT ![r].pc = "rename"] = [req EXCEPT ![r] = next]
  OBVIOUS
<1> HIDE DEF next
<1>4. CASE HandleGone([req EXCEPT ![r] = next]) /\ UNCHANGED <<tmp, faults>>
  BY <1>1, <1>2, <1>4, HandleGoneType DEF Admin
<1>5. CASE HandleGone([req EXCEPT ![r] = Idle]) /\ Fault /\ tmp' = NoFile
  BY <1>1, <1>5, HandleGoneType DEF Admin
<1> QED BY <1>3, <1>4, <1>5 DEF CloseOld

LEMMA ReopenGoes ==
  ASSUME TypeOK, NEW r \in Requests, Reopen(r)
  PROVE  /\ req' \in [Requests -> Admin] /\ late' \subseteq {"main", "lost"}
         /\ req'[r] = Idle /\ \A q \in Requests \ {r} : Stays(q)
<1>1. req[r].pc \in RestoreSteps /\ Idle \in Admin
  BY DEF Reopen, RestoreSteps, Admin
<1>2. CASE HandleGone([req EXCEPT ![r] = Idle])
  BY <1>1, <1>2, HandleGoneType
<1>3. CASE Done(r) /\ UNCHANGED late
  BY <1>3, DoneType DEF Stays, TypeOK
<1> QED BY <1>2, <1>3 DEF Reopen

\* A statement that runs while the file is swapped is on a lost file from then on.
LEMMA UnlinkedType ==
  ASSUME TypeOK, NEW q \in Requests, NEW staged, NEW c, c = Unlinked(q, staged)
  PROVE  /\ c \in Admin
         /\ \/ c = req[q] /\ req[q].pc \notin {"reset", "vacuum"}
            \/ /\ req[q].pc = "reset" /\ c.pc = "reset" /\ c.on # "main"
               /\ c.next = req[q].next /\ c.live = req[q].live
               /\ c.doomed = req[q].doomed \ staged
            \/ req[q].pc = "vacuum" /\ c.pc = "vacuum" /\ c.copy = req[q].copy
<1> DEFINE on == IF req[q].on = "main" THEN "lost" ELSE req[q].on
<1>1. CASE req[q].pc = "reset"
  <2> DEFINE kept == [req[q] EXCEPT !.doomed = req[q].doomed \ staged]
             left == [kept EXCEPT !.on = on]
  <2>1. req[q] \in Resetting
    BY <1>1, RequestType
  <2>2. on \in Places /\ on # "main"
    BY <2>1 DEF Resetting, Places
  <2> HIDE DEF on
  <2>3. /\ kept \in Resetting /\ kept.pc = "reset" /\ kept.doomed = req[q].doomed \ staged
        /\ kept.next = req[q].next /\ kept.live = req[q].live /\ kept.on = req[q].on
    BY <1>1, <2>1 DEF Resetting, Content
  <2>4. c = left
    <3> USE DEF on
    <3>1. c = [req[q] EXCEPT !.doomed = @ \ staged, !.on = IF @ = "main" THEN "lost" ELSE @]
      BY <1>1 DEF Unlinked
    <3> QED BY <3>1, <2>1 DEF Resetting
  <2> HIDE DEF kept
  <2>5. /\ left \in Resetting /\ left.pc = "reset" /\ left.on = on
        /\ left.next = req[q].next /\ left.live = req[q].live
        /\ left.doomed = req[q].doomed \ staged
    BY <2>2, <2>3 DEF Resetting
  <2> HIDE DEF left
  <2> QED BY <1>1, <2>2, <2>4, <2>5 DEF Admin
<1>2. CASE req[q].pc = "vacuum"
  <2> DEFINE left == [req[q] EXCEPT !.on = on]
  <2>1. req[q] \in Vacuuming
    BY <1>2, RequestType
  <2>2. on \in Places
    BY <2>1 DEF Vacuuming, Places
  <2>3. c = left
    BY <1>2 DEF Unlinked
  <2> HIDE DEF on
  <2>4. left \in Vacuuming /\ left.pc = "vacuum" /\ left.copy = req[q].copy
    BY <1>2, <2>1, <2>2 DEF Vacuuming
  <2> HIDE DEF left
  <2> QED BY <1>2, <2>3, <2>4 DEF Admin
<1>3. CASE req[q].pc \notin {"reset", "vacuum"}
  BY <1>3, RequestType DEF Unlinked
<1> QED BY <1>1, <1>2, <1>3

LEMMA SwapInGoes ==
  ASSUME TypeOK, NEW r \in Requests, SwapIn(r)
  PROVE  /\ req' \in [Requests -> Admin] /\ late' \subseteq {"main", "lost"}
         /\ req'[r].pc = "open" /\ req'[r].old = NoFile
         /\ \A q \in Requests \ {r} :
              \/ req'[q] = req[q] /\ req[q].pc \notin {"reset", "vacuum"}
              \/ /\ req[q].pc = "reset" /\ req'[q].pc = "reset" /\ req'[q].on # "main"
                 /\ req'[q].next = req[q].next /\ req'[q].live = req[q].live
                 /\ req'[q].doomed = req[q].doomed \ tmp.rows
              \/ req[q].pc = "vacuum" /\ req'[q].pc = "vacuum" /\ req'[q].copy = req[q].copy
<1>1. req[r] \in Restoring
  BY RequestType DEF SwapIn, RestoreSteps
<1>2. Opening(req[r]) \in Admin /\ Opening(req[r]).pc = "open" /\ Opening(req[r]).old = NoFile
  BY <1>1, OpeningType DEF Admin
<1>3. /\ req' = [q \in Requests |-> IF q = r THEN Opening(req[r]) ELSE Unlinked(q, tmp.rows)]
      /\ late' = IF "main" \in late THEN {"lost"} ELSE late
  BY DEF SwapIn
<1>4. \A q \in Requests \ {r} : req'[q] = Unlinked(q, tmp.rows)
  BY <1>3
<1>5. \A q \in Requests \ {r} :
        /\ req'[q] \in Admin
        /\ \/ req'[q] = req[q] /\ req[q].pc \notin {"reset", "vacuum"}
           \/ /\ req[q].pc = "reset" /\ req'[q].pc = "reset" /\ req'[q].on # "main"
              /\ req'[q].next = req[q].next /\ req'[q].live = req[q].live
              /\ req'[q].doomed = req[q].doomed \ tmp.rows
           \/ req[q].pc = "vacuum" /\ req'[q].pc = "vacuum" /\ req'[q].copy = req[q].copy
  BY <1>4, UnlinkedType
<1>6. req'[r] = Opening(req[r])
  BY <1>3
<1>7. req' \in [Requests -> Admin]
  BY <1>2, <1>3, <1>5, <1>6
<1>8. late' \subseteq {"main", "lost"}
  BY <1>3 DEF TypeOK
<1> QED BY <1>2, <1>5, <1>6, <1>7, <1>8

LEMMA FaultType == TypeOK /\ Fault => faults' \in 0..MaxFaults
BY FaultAssumption DEF TypeOK, Fault

LEMMA TypeInit == Init => TypeOK
<1> SUFFICES ASSUME Init PROVE TypeOK
  OBVIOUS
<1>1. /\ main \in File /\ snap \in File /\ tmp \in File /\ stray \in File
      /\ {} \in Content
  BY FileFacts DEF Init, Content
<1>2. req \in [Requests -> Resetting \cup Vacuuming \cup Restoring \cup {Idle}]
  BY DEF Init
<1>3. faults \in 0..MaxFaults
  BY FaultAssumption DEF Init
<1> QED BY <1>1, <1>2, <1>3 DEF Init, TypeOK

LEMMA TypeStep == TypeOK /\ [Next]_vars => TypeOK'
<1> SUFFICES ASSUME TypeOK, [Next]_vars PROVE TypeOK'
  OBVIOUS
<1> USE DEF Admin
<1>1. ASSUME NEW t \in 1..LastTable, NEW i \in Ids, Insert(t, i) PROVE TypeOK'
  <2>1. {<<t, i>>} \in Content
    BY DEF Content, Row
  <2>2. Served.rows \cup {<<t, i>>} \in Content
    BY <2>1, ServedType DEF Content
  <2>3. main' \in File /\ stray' \in File
    BY <1>1, <2>2, StoreType DEF Insert
  <2>4. owed' \in Content /\ exposed' \in Content
    BY <1>1, <2>1 DEF Insert, TypeOK, Content
  <2> QED BY <1>1, <2>3, <2>4 DEF Insert, TypeOK, ghosts
<1>2. ASSUME NEW x \in Row, Erase(x) PROVE TypeOK'
  <2>1. Served.rows \ {x} \in Content
    BY ServedType DEF Content
  <2>2. main' \in File /\ stray' \in File
    BY <1>2, <2>1, StoreType DEF Erase
  <2>3. owed' \in Content /\ exposed' \in Content
    BY <1>2 DEF Erase, TypeOK, Content
  <2> QED BY <1>2, <2>2, <2>3 DEF Erase, TypeOK
<1>3. ASSUME NEW k \in Tokens, Issue(k) PROVE TypeOK'
  BY <1>3 DEF Issue, TypeOK, files, ghosts
<1>4. ASSUME NEW r \in Requests, ResetStart(r) PROVE TypeOK'
  <2> DEFINE new == [pc |-> "reset", on |-> "handle", next |-> 1, live |-> tokens,
                     doomed |-> IF Usable THEN Served.rows ELSE {}]
  <2>1. new \in Resetting
    BY ServedType, TableAssumption DEF Resetting, Places, TypeOK, Content
  <2>2. req' = [req EXCEPT ![r] = new]
    BY <1>4 DEF ResetStart
  <2> HIDE DEF new
  <2> QED BY <1>4, <2>1, <2>2 DEF ResetStart, TypeOK, files, ghosts
<1>5. ASSUME NEW r \in Requests, ResetTable(r) PROVE TypeOK'
  <2> DEFINE table == RowsOf(req[r].next)
  <2>1. Served.rows \ table \in Content
    BY ServedType DEF Content
  <2>2. main' \in File /\ stray' \in File
    BY <1>5, <2>1, StoreType DEF ResetTable
  <2>3. owed' \in Content /\ exposed' \in Content
    BY <1>5, ServedType DEF ResetTable, TypeOK, Content
  <2> QED BY <1>5, <2>2, <2>3, ResetGoes DEF ResetTable, TypeOK
<1>6. ASSUME NEW r \in Requests, ResetFail(r) PROVE TypeOK'
  BY <1>6, DoneType DEF ResetFail, TypeOK, files, ghosts
<1>7. ASSUME NEW r \in Requests, ResetCaches(r) PROVE TypeOK'
  <2>1. req[r].doomed \in Content /\ req[r].live \subseteq Tokens
    BY <1>7, RequestType DEF ResetCaches, Resetting
  <2>2. cleared' \in Content /\ revoked' \subseteq Tokens
    BY <1>7, <2>1 DEF ResetCaches, TypeOK, Content
  <2> QED BY <1>7, <2>2, DoneType DEF ResetCaches, TypeOK, files
<1>8. ASSUME NEW r \in Requests, SnapshotStart(r) PROVE TypeOK'
  <2>1. [pc |-> "vacuum", on |-> "handle", copy |-> Served] \in Vacuuming
    BY ServedType DEF Vacuuming, Places
  <2> QED BY <1>8, <2>1, FileFacts DEF SnapshotStart, TypeOK, ghosts
<1>9. ASSUME NEW r \in Requests, SnapshotEnd(r) PROVE TypeOK'
  <2>1. req[r].copy \in File
    BY <1>9, RequestType DEF SnapshotEnd, Vacuuming
  <2> QED BY <1>9, <2>1, DoneType DEF SnapshotEnd, TypeOK, ghosts
<1>10. ASSUME NEW r \in Requests, SnapshotFail(r) PROVE TypeOK'
  BY <1>10, DoneType, FaultType DEF SnapshotFail, TypeOK, files, ghosts
<1>11. ASSUME NEW r \in Requests, RestoreStart(r) PROVE TypeOK'
  <2>1. [pc |-> "copy", old |-> NoFile, status |-> 200] \in Restoring
    BY FileFacts DEF Restoring
  <2>2. raced' \in BOOLEAN
    BY <1>11 DEF RestoreStart, InRestore, TypeOK
  <2> QED BY <1>11, <2>1, <2>2 DEF RestoreStart, TypeOK, files
<1>12. ASSUME NEW r \in Requests, CopySnapshot(r) PROVE TypeOK'
  BY <1>12, RestoreGoes DEF CopySnapshot, TypeOK, ghosts, RestoreSteps
<1>13. ASSUME NEW r \in Requests, VerifyStaging(r) PROVE TypeOK'
  BY <1>13, RestoreGoes, FileFacts DEF VerifyStaging, TypeOK, ghosts, RestoreSteps
<1>14. ASSUME NEW r \in Requests, StagingFails(r) PROVE TypeOK'
  BY <1>14, DoneType, FaultType, FileFacts DEF StagingFails, TypeOK, ghosts
<1>15. ASSUME NEW r \in Requests, ReadOld(r) PROVE TypeOK'
  <2>1. req' \in [Requests -> Admin] /\ faults' \in 0..MaxFaults
    BY <1>15, ReadOldGoes, FaultType DEF ReadOld, TypeOK
  <2>2. UNCHANGED <<files, handle, late, tokens, used, crashed, ghosts>>
    BY <1>15 DEF ReadOld
  <2> QED BY <2>1, <2>2 DEF TypeOK, files, ghosts
<1>16. ASSUME NEW r \in Requests, CloseOld(r) PROVE TypeOK'
  <2>1. req' \in [Requests -> Admin] /\ late' \subseteq {"main", "lost"}
    BY <1>16, CloseOldGoes
  <2>2. tmp' \in File /\ faults' \in 0..MaxFaults
    BY <1>16, CloseOldGoes, FileFacts, FaultType DEF TypeOK
  <2> QED BY <1>16, <2>1, <2>2, FileFacts DEF CloseOld, TypeOK, ghosts
<1>17. ASSUME NEW r \in Requests, SwapIn(r) PROVE TypeOK'
  <2>1. req' \in [Requests -> Admin] /\ late' \subseteq {"main", "lost"}
    BY <1>17, SwapInGoes
  <2>2. tmp.rows \in Content /\ cleared' \in Content /\ owed' \in Content
    BY <1>17, FileFacts DEF SwapIn, TypeOK, Content
  <2>3. {main', tmp', stray'} \subseteq File /\ handle' \in {"main", "stray", "closed"}
    BY <1>17, FileFacts DEF SwapIn, TypeOK
  <2> QED BY <1>17, <2>1, <2>2, <2>3 DEF SwapIn, TypeOK
<1>18. ASSUME NEW r \in Requests, SwapFails(r) PROVE TypeOK'
  <2>1. req' \in [Requests -> Admin]
    BY <1>18, SwapFailsGoes
  <2>2. faults' \in 0..MaxFaults
    BY <1>18, FaultType DEF SwapFails, TypeOK
  <2> QED BY <1>18, <2>1, <2>2, FileFacts DEF SwapFails, TypeOK, ghosts
<1>19. ASSUME NEW r \in Requests, WriteBack(r) PROVE TypeOK'
  <2>1. req[r].old \in File
    BY <1>19, RequestType DEF WriteBack, Restoring, RestoreSteps
  <2>2. main' \in File /\ faults' \in 0..MaxFaults
    BY <1>19, <2>1, FileFacts, FaultType DEF WriteBack, TypeOK
  <2>3. exposed' \in Content
    BY <1>19 DEF WriteBack, TypeOK, Content
  <2>4. req' \in [Requests -> Admin]
    BY <1>19, WriteBackGoes
  <2> QED BY <1>19, <2>2, <2>3, <2>4 DEF WriteBack, TypeOK
<1>20. ASSUME NEW r \in Requests, Reopen(r) PROVE TypeOK'
  <2>1. stray' \in File /\ handle' \in {"main", "stray", "closed"} /\ faults' \in 0..MaxFaults
    BY <1>20, FileFacts, FaultType DEF Reopen, TypeOK
  <2>2. req' \in [Requests -> Admin] /\ late' \subseteq {"main", "lost"}
    BY <1>20, ReopenGoes
  <2> QED BY <1>20, <2>1, <2>2 DEF Reopen, TypeOK, ghosts
<1>21. CASE Restart
  BY <1>21, FileFacts, FaultType DEF Restart, TypeOK, ghosts
<1>22. CASE UNCHANGED vars
  BY <1>22 DEF vars, files, ghosts, TypeOK
<1>23. \A t \in 1..LastTable, i \in Ids : <<t, i>> \in Row
  BY DEF Row
<1>24. ASSUME NEW f \in {"main", "lost"}, NEW rows \in Content, NEW x \in Row,
              LateWrite(f, rows, x)
       PROVE  /\ main' \in File /\ exposed' \in Content /\ late' \subseteq {"main", "lost"}
              /\ UNCHANGED <<snap, tmp, stray, handle, tokens, req, faults, crashed, cleared,
                             revoked, raced>>
  BY <1>24, FileFacts DEF LateWrite, TypeOK, Content
<1>25. main.rows \in Content
  BY FileFacts DEF TypeOK
<1>26. ASSUME NEW f \in {"main", "lost"}, NEW t \in 1..LastTable, NEW i \in Ids,
              LateInsert(f, t, i)
       PROVE  TypeOK'
  <2>1. main.rows \cup {<<t, i>>} \in Content
    BY <1>23, <1>25 DEF Content
  <2>2. owed' \in Content
    BY <1>23, <1>26 DEF LateInsert, TypeOK, Content
  <2> QED BY <1>23, <1>24, <1>26, <2>1, <2>2 DEF LateInsert, TypeOK
<1>27. ASSUME NEW f \in {"main", "lost"}, NEW x \in Row, LateErase(f, x) PROVE TypeOK'
  <2>1. main.rows \ {x} \in Content
    BY <1>25 DEF Content
  <2>2. owed' \in Content
    BY <1>27 DEF LateErase, TypeOK, Content
  <2> QED BY <1>24, <1>27, <2>1, <2>2 DEF LateErase, TypeOK
<1>28. ASSUME NEW r \in Requests, ResetTableLate(r) PROVE TypeOK'
  <2>1. req' \in [Requests -> Admin]
    BY <1>28, ResetGoes
  <2>2. main.rows \ RowsOf(req[r].next) \in Content
    BY <1>25 DEF Content
  <2>3. main' \in File
    BY <1>28, <2>2, FileFacts DEF ResetTableLate, TypeOK
  <2>4. owed' \in Content /\ exposed' \in Content
    BY <1>25, <1>28 DEF ResetTableLate, TypeOK, Content
  <2> QED BY <1>28, <2>1, <2>3, <2>4 DEF ResetTableLate, TypeOK
<1> QED
  BY <1>1, <1>2, <1>3, <1>4, <1>5, <1>6, <1>7, <1>8, <1>9, <1>10, <1>11, <1>12, <1>13,
     <1>14, <1>15, <1>16, <1>17, <1>18, <1>19, <1>20, <1>21, <1>22, <1>23, <1>26, <1>27,
     <1>28 DEF Next

\* Every variable keeps its type, whatever requests race and whatever fails.
THEOREM TypeCorrect == Spec => []TypeOK
BY TypeInit, TypeStep, PTL DEF Spec

(***************************************************************************)
(* Tokens.                                                                 *)
(***************************************************************************)
\* A token that a reset has seen or revoked was handed out before, and one
\* that is handed out is not handed out again.
TokensUsed ==
  /\ tokens \subseteq used
  /\ revoked \subseteq used
  /\ \A r \in Requests : req[r].pc = "reset" => req[r].live \subseteq used

TokenInv == TypeOK /\ TokensUsed /\ ResetRevokes

\* Resets that are under way keep what they hold of tokens and used.
LiveKept ==
  \A r \in Requests : req'[r].pc = "reset" => req[r].pc = "reset" /\ req'[r].live = req[r].live

LEMMA LiveKeptStep ==
  TypeOK /\ [Next]_vars => LiveKept \/ \E r \in Requests : ResetStart(r)
<1> SUFFICES ASSUME TypeOK, [Next]_vars, ~ \E r \in Requests : ResetStart(r) PROVE LiveKept
  OBVIOUS
<1> USE DEF LiveKept, Idle
<1>1. ASSUME req' = req PROVE LiveKept
  BY <1>1
<1>2. ASSUME NEW r \in Requests, Done(r) PROVE LiveKept
  BY <1>2, DoneType
<1>3. ASSUME NEW r \in Requests, req[r].pc \in RestoreSteps, NEW pc \in RestoreSteps, Goto(r, pc)
      PROVE  LiveKept
  BY <1>3, RestoreGoes DEF RestoreSteps
<1>4. ASSUME NEW r \in Requests, ResetTable(r) \/ ResetTableLate(r) PROVE LiveKept
  <2>1. req[r].pc = "reset"
    BY <1>4 DEF ResetTable, ResetTableLate
  <2> QED BY <1>4, <2>1, ResetGoes
<1>5. ASSUME NEW r \in Requests, SnapshotStart(r) \/ RestoreStart(r) PROVE LiveKept
  BY <1>5 DEF SnapshotStart, RestoreStart, TypeOK
<1>6. ASSUME NEW r \in Requests, ReadOld(r) PROVE LiveKept
  BY <1>6, ReadOldGoes
<1>7. ASSUME NEW r \in Requests, SwapIn(r) PROVE LiveKept
  BY <1>7, SwapInGoes
<1>8. ASSUME NEW r \in Requests, SwapFails(r) PROVE LiveKept
  BY <1>8, SwapFailsGoes
<1>9. ASSUME NEW r \in Requests,
             CopySnapshot(r) \/ VerifyStaging(r) \/ CloseOld(r) \/ WriteBack(r) \/ Reopen(r)
      PROVE  LiveKept
  BY <1>3, <1>9, CloseOldGoes, ReopenGoes, WriteBackGoes
     DEF CopySnapshot, VerifyStaging, RestoreSteps, Stays
<1>10. ASSUME NEW r \in Requests,
              ResetFail(r) \/ ResetCaches(r) \/ SnapshotEnd(r) \/ SnapshotFail(r)
                \/ StagingFails(r)
       PROVE  LiveKept
  BY <1>2, <1>10 DEF ResetFail, ResetCaches, SnapshotEnd, SnapshotFail, StagingFails
<1>11. ASSUME NEW t \in 1..LastTable, NEW i \in Ids,
              \/ Insert(t, i) \/ Erase(<<t, i>>)
              \/ \E f \in {"main", "lost"} : LateInsert(f, t, i) \/ LateErase(f, <<t, i>>)
       PROVE  LiveKept
  BY <1>1, <1>11 DEF Insert, Erase, LateInsert, LateErase, LateWrite
<1>12. ASSUME NEW k \in Tokens, Issue(k) PROVE LiveKept
  BY <1>1, <1>12 DEF Issue
<1>13. CASE Restart
  BY <1>13 DEF Restart
<1>14. CASE UNCHANGED vars
  BY <1>1, <1>14 DEF vars
<1> QED
  BY <1>4, <1>5, <1>6, <1>7, <1>8, <1>9, <1>10, <1>11, <1>12, <1>13, <1>14 DEF Next

\* Four things happen to tokens: nothing, a token is issued, a reset or a
\* restart takes them all.
TokensKept == UNCHANGED tokens /\ used \subseteq used' /\ UNCHANGED revoked

LEMMA TokenEffect ==
  TypeOK /\ [Next]_vars =>
    \/ TokensKept
    \/ \E k \in Tokens : Issue(k)
    \/ \E r \in Requests : ResetCaches(r)
    \/ Restart
BY DEF Next, vars, files, ghosts, TokensKept, Insert, Erase, LateInsert, LateErase, LateWrite,
       ResetStart, ResetTable, ResetTableLate, ResetFail,
       SnapshotStart, SnapshotEnd, SnapshotFail, RestoreStart, CopySnapshot, VerifyStaging,
       StagingFails, ReadOld, CloseOld, SwapIn, SwapFails, WriteBack, Reopen

LEMMA TokenStep == TokenInv /\ [Next]_vars => TokenInv'
<1> SUFFICES ASSUME TokenInv, [Next]_vars PROVE TokenInv'
  OBVIOUS
<1>1. TypeOK /\ TypeOK'
  BY TypeStep DEF TokenInv
<1>2. used \subseteq used'
  BY <1>1, TokenEffect DEF TokensKept, Issue, ResetCaches, Restart
<1>3. \A r \in Requests : req'[r].pc = "reset" => req'[r].live \subseteq used
  <2>1. CASE LiveKept
    BY <2>1 DEF LiveKept, TokenInv, TokensUsed
  <2>2. ASSUME NEW r \in Requests, ResetStart(r)
        PROVE  \A q \in Requests : req'[q].pc = "reset" => req'[q].live \subseteq used
    BY <2>2, <1>1 DEF ResetStart, TokenInv, TokensUsed, TypeOK
  <2> QED BY <1>1, <2>1, <2>2, LiveKeptStep
<1>4. tokens' \subseteq used' /\ revoked' \subseteq used' /\ ResetRevokes'
  <2> USE DEF TokenInv, TokensUsed, ResetRevokes
  <2>1. CASE TokensKept
    BY <2>1 DEF TokensKept
  <2>2. ASSUME NEW k \in Tokens, Issue(k)
        PROVE  tokens' \subseteq used' /\ revoked' \subseteq used' /\ ResetRevokes'
    BY <2>2 DEF Issue, ghosts
  <2>3. ASSUME NEW r \in Requests, ResetCaches(r)
        PROVE  tokens' \subseteq used' /\ revoked' \subseteq used' /\ ResetRevokes'
    BY <2>3 DEF ResetCaches
  <2>4. CASE Restart
    BY <2>4 DEF Restart, ghosts
  <2> QED BY <1>1, <2>1, <2>2, <2>3, <2>4, TokenEffect
<1> QED BY <1>1, <1>2, <1>3, <1>4 DEF TokenInv, TokensUsed

\* An acknowledged reset revokes its tokens for good, whatever restores, crashes
\* and further resets do.
THEOREM ResetRevokesForGood == Spec => []ResetRevokes
<1>1. Init => TokenInv
  BY TypeInit DEF Init, TokenInv, TokensUsed, ResetRevokes, Idle
<1> QED BY <1>1, TokenStep, PTL DEF Spec, TokenInv

(***************************************************************************)
(* The staging file.                                                       *)
(***************************************************************************)
\* A restore that has made the staging file and will rename or remove it.
Stages(r) == req[r].pc \in {"verify", "read", "close", "rename"}

StagedByOne == ~crashed /\ tmp # NoFile => \E r \in Requests : Stages(r)

StagingInv == TypeOK /\ StagedByOne

\* What a step of another request leaves alone.
StagesKept == UNCHANGED tmp /\ \A r \in Requests : Stages(r) => Stages(r)'

LEMMA StagesKeptStep ==
  ASSUME TypeOK, [Next]_vars
  PROVE  \/ StagesKept
         \/ tmp' = NoFile
         \/ \E r \in Requests : Stages(r)'
         \/ crashed'
<1> USE DEF StagesKept, Stages
<1>1. ASSUME UNCHANGED <<tmp, req>> PROVE StagesKept
  BY <1>1
<1>2. ASSUME NEW r \in Requests, Done(r), ~Stages(r), UNCHANGED tmp PROVE StagesKept
  BY <1>2, DoneType
<1>3. ASSUME NEW r \in Requests, ResetStart(r) \/ SnapshotStart(r) \/ RestoreStart(r)
      PROVE  StagesKept
  BY <1>3 DEF ResetStart, SnapshotStart, RestoreStart, Idle, files, TypeOK
<1>4. ASSUME NEW r \in Requests, ResetTable(r) \/ ResetTableLate(r) PROVE StagesKept
  <2>1. req[r].pc = "reset" /\ UNCHANGED tmp
    BY <1>4 DEF ResetTable, ResetTableLate
  <2> QED BY <1>4, <2>1, ResetGoes
<1>5. ASSUME NEW r \in Requests,
             ResetFail(r) \/ ResetCaches(r) \/ SnapshotEnd(r) \/ SnapshotFail(r)
      PROVE  StagesKept
  BY <1>2, <1>5 DEF ResetFail, ResetCaches, SnapshotEnd, SnapshotFail, files
<1>6. ASSUME NEW r \in Requests,
             CopySnapshot(r) \/ VerifyStaging(r) \/ ReadOld(r)
      PROVE  Stages(r)'
  BY <1>6, RestoreGoes, ReadOldGoes DEF CopySnapshot, VerifyStaging, RestoreSteps
<1>7. ASSUME NEW r \in Requests, CloseOld(r) PROVE tmp' = NoFile \/ Stages(r)'
  BY <1>7, CloseOldGoes
<1>8. ASSUME NEW r \in Requests, StagingFails(r) \/ SwapIn(r) \/ SwapFails(r)
      PROVE  tmp' = NoFile
  BY <1>8 DEF StagingFails, SwapIn, SwapFails
<1>9. ASSUME NEW r \in Requests, WriteBack(r) \/ Reopen(r) PROVE StagesKept
  <2>1. req[r].pc \in {"undo", "open"} /\ UNCHANGED tmp
    BY <1>9 DEF WriteBack, Reopen
  <2> QED BY <1>9, <2>1, WriteBackGoes, ReopenGoes DEF Stays
<1>10. ASSUME NEW t \in 1..LastTable, NEW i \in Ids,
              \/ Insert(t, i) \/ Erase(<<t, i>>)
              \/ \E f \in {"main", "lost"} : LateInsert(f, t, i) \/ LateErase(f, <<t, i>>)
       PROVE  StagesKept
  BY <1>1, <1>10 DEF Insert, Erase, LateInsert, LateErase, LateWrite
<1>11. ASSUME NEW k \in Tokens, Issue(k) PROVE StagesKept
  BY <1>1, <1>11 DEF Issue, files
<1>12. CASE Restart
  BY <1>12 DEF Restart
<1>13. CASE UNCHANGED vars
  BY <1>1, <1>13 DEF vars, files
<1> HIDE DEF StagesKept, Stages
<1> QED
  BY <1>3, <1>4, <1>5, <1>6, <1>7, <1>8, <1>9, <1>10, <1>11, <1>12, <1>13 DEF Next

LEMMA StagingStep == StagingInv /\ [Next]_vars => StagingInv'
<1> SUFFICES ASSUME StagingInv, [Next]_vars PROVE StagingInv'
  OBVIOUS
<1>1. TypeOK /\ TypeOK'
  BY TypeStep DEF StagingInv
<1>2. ~crashed' => ~crashed
  BY <1>1 DEF TypeOK, Next, vars, ghosts, Insert, Erase, LateInsert, LateErase, LateWrite,
              Issue, ResetStart, ResetTable, ResetTableLate, ResetFail, ResetCaches,
              SnapshotStart, SnapshotEnd, SnapshotFail, RestoreStart, CopySnapshot,
              VerifyStaging, StagingFails, ReadOld, CloseOld, SwapIn, SwapFails,
              WriteBack, Reopen, Restart
<1>3. tmp' = NoFile \/ (\E r \in Requests : Stages(r)') \/ crashed' => StagedByOne'
  BY DEF StagedByOne, NoFile
<1>4. StagedByOne'
  <2>1. StagesKept => StagedByOne'
    BY <1>2 DEF StagesKept, StagingInv, StagedByOne
  <2> QED BY <1>1, <1>3, <2>1, StagesKeptStep
<1> QED BY <1>1, <1>4 DEF StagingInv

\* However many restores share the one staging path and wherever they fail,
\* the last of them leaves no staging file, unless the server crashed.
THEOREM StagingIsCleanedUp == Spec => []StagingCleanedUp
<1>1. Init => StagingInv
  BY TypeInit DEF Init, StagingInv, StagedByOne
<1>2. StagingInv => StagingCleanedUp
  BY DEF StagingInv, StagedByOne, StagingCleanedUp, Quiet, Stages, Idle
<1> QED BY <1>1, <1>2, StagingStep, PTL DEF Spec

(***************************************************************************)
(* Rows.                                                                   *)
(***************************************************************************)
\* Rows whose ids have been handed out.
Known == {x \in Row : x[2] \in used}

\* Nothing anywhere holds a row that was never inserted, so an insert revives
\* none.
FilesKnown ==
  /\ main.rows \subseteq Known /\ snap.rows \subseteq Known
  /\ tmp.rows \subseteq Known /\ stray.rows \subseteq Known
  /\ cleared \subseteq Known

HoldsKnown(c) ==
  /\ c.pc = "reset" => c.doomed \subseteq Known
  /\ c.pc = "vacuum" => c.copy.rows \subseteq Known
  /\ c.pc \in RestoreSteps => c.old.rows \subseteq Known

RequestsKnown == \A r \in Requests : HoldsKnown(req[r])

RowsKnown == FilesKnown /\ RequestsKnown

\* While no two Restores have overlapped, from its close on the handle is
\* closed, and the bytes a Restore has read differ from the file in exposed
\* rows only.
RestoreSound(c) ==
  /\ c.pc \in {"copy", "verify", "read"} => c.old = NoFile
  /\ c.pc \in {"close", "rename", "undo"} /\ c.old # NoFile
       => c.old.rows \ exposed = main.rows \ exposed
  /\ c.pc \in {"rename", "undo", "open"} => handle = "closed"

\* What a reset has deleted so far is gone from the database.
ResetSound(c) ==
  c.pc = "reset" => \A x \in c.doomed \cap main.rows : x[1] < c.next => x \in exposed

Sound(c) == RestoreSound(c) /\ ResetSound(c)

AllSound == \A r \in Requests : Sound(req[r])

OneRestore == \A q, r \in Requests : InRestore(q) /\ InRestore(r) => q = r

MainSound ==
  /\ handle # "stray"
  /\ cleared \cap main.rows \subseteq exposed
  /\ main.rows \ exposed = owed \ exposed

LoneInv == OneRestore /\ MainSound /\ AllSound

RowInv == TypeOK /\ RowsKnown /\ (~raced => LoneInv)

LEMMA KnownGrows == TypeOK /\ [Next]_vars => Known \subseteq Known'
BY TokenEffect DEF TokensKept, Issue, ResetCaches, Restart, Known

LEMMA RowsOfFiles ==
  /\ NoFile.rows = {} /\ Blank.rows = {}
  /\ \A rows : DB(rows).rows = rows
  /\ FilesKnown => Served.rows \subseteq Known
BY DEF NoFile, Blank, DB, FilesKnown, Served

LEMMA FilesKnownStep == TypeOK /\ RowsKnown /\ [Next]_vars => FilesKnown'
<1> SUFFICES ASSUME TypeOK, RowsKnown, [Next]_vars PROVE FilesKnown'
  OBVIOUS
<1>1. Known \subseteq Known' /\ Served.rows \subseteq Known /\ FilesKnown
  BY KnownGrows, RowsOfFiles DEF RowsKnown
<1>2. ASSUME NEW rows, rows \subseteq Known', Store(rows), UNCHANGED <<snap, tmp, cleared>>
      PROVE  FilesKnown'
  BY <1>1, <1>2, RowsOfFiles DEF Store, FilesKnown
<1>3. ASSUME NEW t \in 1..LastTable, NEW i \in Ids, Insert(t, i) PROVE FilesKnown'
  <2>1. <<t, i>> \in Known'
    BY <1>3 DEF Insert, Known, Row
  <2>2. Served.rows \cup {<<t, i>>} \subseteq Known'
    BY <1>1, <2>1
  <2> QED BY <1>2, <1>3, <2>2 DEF Insert
<1>4. ASSUME NEW x \in Row, Erase(x) PROVE FilesKnown'
  <2>1. Served.rows \ {x} \subseteq Known'
    BY <1>1
  <2> QED BY <1>2, <1>4, <2>1 DEF Erase
<1>5. ASSUME NEW r \in Requests, ResetTable(r) PROVE FilesKnown'
  <2>1. Served.rows \ RowsOf(req[r].next) \subseteq Known'
    BY <1>1
  <2> QED BY <1>2, <1>5, <2>1 DEF ResetTable
<1>6. ASSUME NEW r \in Requests, ResetCaches(r) PROVE FilesKnown'
  <2>1. req[r].doomed \subseteq Known
    BY <1>6 DEF ResetCaches, RowsKnown, RequestsKnown, HoldsKnown
  <2> QED BY <1>1, <1>6, <2>1 DEF ResetCaches, FilesKnown, files
<1>7. ASSUME NEW r \in Requests, SnapshotEnd(r) PROVE FilesKnown'
  <2>1. req[r].copy.rows \subseteq Known
    BY <1>7 DEF SnapshotEnd, RowsKnown, RequestsKnown, HoldsKnown
  <2> QED BY <1>1, <1>7, <2>1 DEF SnapshotEnd, FilesKnown, ghosts
<1>8. ASSUME NEW r \in Requests, WriteBack(r) PROVE FilesKnown'
  <2>1. req[r].old.rows \subseteq Known
    BY <1>8 DEF WriteBack, RowsKnown, RequestsKnown, HoldsKnown, RestoreSteps
  <2> QED BY <1>1, <1>8, <2>1, RowsOfFiles DEF WriteBack, FilesKnown
<1>9. ASSUME NEW r \in Requests, SwapIn(r) PROVE FilesKnown'
  BY <1>1, <1>9, RowsOfFiles DEF SwapIn, FilesKnown
<1>10. ASSUME UNCHANGED <<files, cleared>> PROVE FilesKnown'
  BY <1>1, <1>10 DEF FilesKnown, files
<1>11. ASSUME NEW r \in Requests,
              ResetStart(r) \/ ResetFail(r) \/ SnapshotFail(r) \/ RestoreStart(r) \/ ReadOld(r)
       PROVE  FilesKnown'
  BY <1>10, <1>11 DEF ResetStart, ResetFail, SnapshotFail, RestoreStart, ReadOld, ghosts
<1>12. ASSUME NEW r \in Requests,
              SnapshotStart(r) \/ CopySnapshot(r) \/ VerifyStaging(r) \/ StagingFails(r)
                \/ CloseOld(r) \/ SwapFails(r) \/ Reopen(r)
       PROVE  FilesKnown'
  BY <1>1, <1>12, RowsOfFiles
     DEF SnapshotStart, CopySnapshot, VerifyStaging, StagingFails, CloseOld, SwapFails, Reopen,
         ghosts, FilesKnown
<1>13. ASSUME NEW k \in Tokens, Issue(k) PROVE FilesKnown'
  BY <1>10, <1>13 DEF Issue, ghosts
<1>14. CASE Restart
  BY <1>1, <1>14, RowsOfFiles DEF Restart, ghosts, FilesKnown
<1>15. CASE UNCHANGED vars
  BY <1>10, <1>15 DEF vars, ghosts
<1>16. \A t \in 1..LastTable, i \in Ids : <<t, i>> \in Row
  BY DEF Row
<1>17. ASSUME NEW rows, rows \subseteq Known', main' = DB(rows) \/ UNCHANGED main,
              UNCHANGED <<snap, tmp, stray, cleared>>
       PROVE  FilesKnown'
  BY <1>1, <1>17, RowsOfFiles DEF FilesKnown
<1>18. ASSUME NEW f \in {"main", "lost"}, NEW t \in 1..LastTable, NEW i \in Ids,
              LateInsert(f, t, i)
       PROVE  FilesKnown'
  <2>1. <<t, i>> \in Known'
    BY <1>18 DEF LateInsert, Known, Row
  <2>2. main.rows \cup {<<t, i>>} \subseteq Known'
    BY <1>1, <2>1 DEF FilesKnown
  <2> QED BY <1>17, <1>18, <2>2 DEF LateInsert, LateWrite
<1>19. ASSUME NEW f \in {"main", "lost"}, NEW x \in Row, LateErase(f, x) PROVE FilesKnown'
  <2>1. main.rows \ {x} \subseteq Known'
    BY <1>1 DEF FilesKnown
  <2> QED BY <1>17, <1>19, <2>1 DEF LateErase, LateWrite
<1>20. ASSUME NEW r \in Requests, ResetTableLate(r) PROVE FilesKnown'
  <2>1. main.rows \ RowsOf(req[r].next) \subseteq Known'
    BY <1>1 DEF FilesKnown
  <2> QED BY <1>17, <1>20, <2>1 DEF ResetTableLate
<1> QED
  BY <1>3, <1>4, <1>5, <1>6, <1>7, <1>8, <1>9, <1>11, <1>12, <1>13, <1>14, <1>15, <1>16,
     <1>18, <1>19, <1>20 DEF Next

LEMMA RequestsKnownStep == TypeOK /\ RowsKnown /\ [Next]_vars => RequestsKnown'
<1> SUFFICES ASSUME TypeOK, RowsKnown, [Next]_vars PROVE RequestsKnown'
  OBVIOUS
<1>1. Known \subseteq Known' /\ Served.rows \subseteq Known
  BY KnownGrows, RowsOfFiles DEF RowsKnown
<1>2. ASSUME NEW q \in Requests, req'[q] = req[q] PROVE HoldsKnown(req[q])'
  BY <1>1, <1>2 DEF RowsKnown, RequestsKnown, HoldsKnown
<1>3. ASSUME NEW r \in Requests, HoldsKnown(req[r])', \A q \in Requests \ {r} : req'[q] = req[q]
      PROVE  RequestsKnown'
  BY <1>2, <1>3 DEF RequestsKnown
<1>4. ASSUME req' = req PROVE RequestsKnown'
  BY <1>2, <1>4 DEF RequestsKnown
<1>5. ASSUME NEW r \in Requests, Done(r) PROVE RequestsKnown'
  <2>1. HoldsKnown(req[r])'
    BY <1>5, DoneType DEF HoldsKnown, Idle, RestoreSteps
  <2> QED BY <1>3, <1>5, <2>1, DoneType
<1>6. ASSUME NEW r \in Requests, req[r].pc \in RestoreSteps, NEW pc \in RestoreSteps, Goto(r, pc)
      PROVE  RequestsKnown'
  <2>1. req[r].old.rows \subseteq Known
    BY <1>6 DEF RowsKnown, RequestsKnown, HoldsKnown
  <2>2. HoldsKnown(req[r])'
    BY <1>1, <1>6, <2>1, RestoreGoes DEF HoldsKnown, RestoreSteps
  <2> QED BY <1>3, <1>6, <2>2, RestoreGoes
<1>7. ASSUME NEW r \in Requests, SwapFails(r) PROVE RequestsKnown'
  <2>1. req[r].old.rows \subseteq Known
    BY <1>7 DEF SwapFails, RowsKnown, RequestsKnown, HoldsKnown, RestoreSteps
  <2>2. HoldsKnown(req[r])'
    BY <1>1, <1>7, <2>1, SwapFailsGoes DEF HoldsKnown
  <2> QED BY <1>3, <1>7, <2>2, SwapFailsGoes
<1>8. ASSUME NEW r \in Requests, ReadOld(r) PROVE RequestsKnown'
  <2>1. req[r].old.rows \subseteq Known /\ main.rows \subseteq Known
    BY <1>8 DEF ReadOld, RowsKnown, RequestsKnown, HoldsKnown, FilesKnown, RestoreSteps
  <2>2. HoldsKnown(req[r])'
    BY <1>1, <1>8, <2>1, ReadOldGoes DEF HoldsKnown
  <2> QED BY <1>3, <1>8, <2>2, ReadOldGoes
<1>9. ASSUME NEW r \in Requests, ResetStart(r) PROVE RequestsKnown'
  <2> DEFINE new == [pc |-> "reset", on |-> "handle", next |-> 1, live |-> tokens,
                     doomed |-> IF Usable THEN Served.rows ELSE {}]
  <2>1. new.pc = "reset" /\ new.doomed \subseteq Known
    BY <1>1
  <2>2. req' = [req EXCEPT ![r] = new]
    BY <1>9 DEF ResetStart
  <2> HIDE DEF new
  <2>3. HoldsKnown(req[r])'
    BY <1>1, <2>1, <2>2 DEF HoldsKnown, TypeOK, RestoreSteps
  <2> QED BY <1>3, <2>2, <2>3 DEF TypeOK
<1>10. ASSUME NEW r \in Requests, ResetTable(r) \/ ResetTableLate(r) PROVE RequestsKnown'
  <2>1. req[r].doomed \subseteq Known
    BY <1>10 DEF ResetTable, ResetTableLate, RowsKnown, RequestsKnown, HoldsKnown
  <2>2. HoldsKnown(req[r])'
    BY <1>1, <1>10, <2>1, ResetGoes DEF HoldsKnown, RestoreSteps
  <2> QED BY <1>3, <1>10, <2>2, ResetGoes
<1>11. ASSUME NEW r \in Requests, SnapshotStart(r) PROVE RequestsKnown'
  <2> DEFINE new == [pc |-> "vacuum", on |-> "handle", copy |-> Served]
  <2>1. new.pc = "vacuum" /\ new.copy.rows \subseteq Known
    BY <1>1
  <2>2. req' = [req EXCEPT ![r] = new]
    BY <1>11 DEF SnapshotStart
  <2> HIDE DEF new
  <2>3. HoldsKnown(req[r])'
    BY <1>1, <2>1, <2>2 DEF HoldsKnown, TypeOK, RestoreSteps
  <2> QED BY <1>3, <2>2, <2>3 DEF TypeOK
<1>12. ASSUME NEW r \in Requests, RestoreStart(r) PROVE RequestsKnown'
  <2> DEFINE new == [pc |-> "copy", old |-> NoFile, status |-> 200]
  <2>1. new.pc = "copy" /\ new.old.rows \subseteq Known
    BY RowsOfFiles
  <2>2. req' = [req EXCEPT ![r] = new]
    BY <1>12 DEF RestoreStart
  <2> HIDE DEF new
  <2>3. HoldsKnown(req[r])'
    BY <1>1, <2>1, <2>2 DEF HoldsKnown, TypeOK
  <2> QED BY <1>3, <2>2, <2>3 DEF TypeOK
<1>13. ASSUME NEW r \in Requests, SwapIn(r) PROVE RequestsKnown'
  <2> SUFFICES ASSUME NEW q \in Requests PROVE HoldsKnown(req[q])'
    BY DEF RequestsKnown
  <2>1. CASE q = r
    BY <1>13, <2>1, SwapInGoes, RowsOfFiles DEF HoldsKnown
  <2>2. CASE q # r
    <3>1. HoldsKnown(req[q])
      BY DEF RowsKnown, RequestsKnown
    <3> QED BY <1>1, <1>13, <2>2, <3>1, SwapInGoes DEF HoldsKnown, RestoreSteps
  <2> QED BY <2>1, <2>2
<1>14. ASSUME NEW q \in Requests, Stays(q) PROVE HoldsKnown(req[q])'
  <2>1. HoldsKnown(req[q])
    BY DEF RowsKnown, RequestsKnown
  <2> QED BY <1>1, <1>14, <2>1 DEF Stays, HoldsKnown, RestoreSteps
<1>15. ASSUME NEW r \in Requests,
              CopySnapshot(r) \/ VerifyStaging(r) \/ CloseOld(r) \/ WriteBack(r)
       PROVE  RequestsKnown'
  <2>1. ASSUME CloseOld(r) PROVE RequestsKnown'
    <3>1. req[r].old.rows \subseteq Known
      BY <2>1 DEF CloseOld, RowsKnown, RequestsKnown, HoldsKnown, RestoreSteps
    <3>2. HoldsKnown(req[r])'
      BY <1>1, <2>1, <3>1, CloseOldGoes DEF HoldsKnown, Idle, RestoreSteps
    <3> QED BY <1>14, <2>1, <3>2, CloseOldGoes DEF RequestsKnown
  <2>2. ASSUME WriteBack(r) PROVE RequestsKnown'
    <3>1. HoldsKnown(req[r])'
      BY <1>1, <2>2, WriteBackGoes, RowsOfFiles DEF HoldsKnown
    <3> QED BY <1>3, <2>2, <3>1, WriteBackGoes
  <2> QED BY <1>6, <1>15, <2>1, <2>2 DEF CopySnapshot, VerifyStaging, RestoreSteps
<1>16. ASSUME NEW r \in Requests, Reopen(r) PROVE RequestsKnown'
  <2>1. HoldsKnown(req[r])'
    BY <1>16, ReopenGoes DEF HoldsKnown, Idle, RestoreSteps
  <2> QED BY <1>14, <1>16, <2>1, ReopenGoes DEF RequestsKnown
<1>17. ASSUME NEW r \in Requests,
              ResetFail(r) \/ ResetCaches(r) \/ SnapshotEnd(r) \/ SnapshotFail(r)
                \/ StagingFails(r)
       PROVE  RequestsKnown'
  BY <1>5, <1>17 DEF ResetFail, ResetCaches, SnapshotEnd, SnapshotFail, StagingFails
<1>18. ASSUME NEW t \in 1..LastTable, NEW i \in Ids,
              \/ Insert(t, i) \/ Erase(<<t, i>>)
              \/ \E f \in {"main", "lost"} : LateInsert(f, t, i) \/ LateErase(f, <<t, i>>)
       PROVE  RequestsKnown'
  BY <1>4, <1>18 DEF Insert, Erase, LateInsert, LateErase, LateWrite
<1>19. ASSUME NEW k \in Tokens, Issue(k) PROVE RequestsKnown'
  BY <1>4, <1>19 DEF Issue
<1>20. CASE Restart
  BY <1>20 DEF Restart, RequestsKnown, HoldsKnown, Idle, RestoreSteps
<1>21. CASE UNCHANGED vars
  BY <1>4, <1>21 DEF vars
<1> QED
  BY <1>7, <1>8, <1>9, <1>10, <1>11, <1>12, <1>13, <1>15, <1>16, <1>17, <1>18, <1>19,
     <1>20, <1>21 DEF Next

\* A step of one request that leaves the database, the handle and what is owed
\* alone.
LEMMA FrameStep ==
  ASSUME LoneInv, NEW r \in Requests, UNCHANGED <<main, handle, owed, exposed, cleared>>,
         \A q \in Requests \ {r} : req'[q] = req[q],
         InRestore(r)' => InRestore(r) \/ \A q \in Requests \ {r} : ~InRestore(q),
         Sound(req[r])'
  PROVE  LoneInv'
<1>1. MainSound'
  BY DEF LoneInv, MainSound
<1>2. OneRestore'
  BY DEF LoneInv, OneRestore, InRestore
<1>3. AllSound'
  <2> SUFFICES ASSUME NEW q \in Requests PROVE Sound(req[q])'
    BY DEF AllSound
  <2>1. CASE q # r
    BY <2>1 DEF LoneInv, AllSound, Sound, RestoreSound, ResetSound
  <2> QED BY <2>1
<1> QED BY <1>1, <1>2, <1>3 DEF LoneInv

\* A request of which only the place of its statement changes stays sound while
\* the database does not change.
LEMMA StaysSound ==
  ASSUME LoneInv, NEW q \in Requests, ~InRestore(q), Stays(q), UNCHANGED <<main, exposed>>
  PROVE  ~InRestore(q)' /\ Sound(req[q])'
<1>1. Sound(req[q])
  BY DEF LoneInv, AllSound
<1>2. ~InRestore(q)'
  BY DEF Stays, InRestore
<1>3. RestoreSound(req[q])'
  BY <1>2 DEF InRestore, RestoreSound
<1>4. ResetSound(req[q])'
  BY <1>1 DEF Stays, Sound, ResetSound
<1> QED BY <1>2, <1>3, <1>4 DEF Sound

\* A write that exposes all it changes, in the database and in what is owed.
LEMMA ExposedWrite ==
  ASSUME LoneInv, UNCHANGED <<handle, cleared>>, exposed \subseteq exposed',
         main'.rows \ exposed' = main.rows \ exposed',
         owed' \ exposed' = owed \ exposed'
  PROVE  MainSound' /\ \A q \in Requests : req'[q] = req[q] => Sound(req[q])'
<1>1. MainSound'
  BY DEF LoneInv, MainSound
<1>2. ASSUME NEW q \in Requests, req'[q] = req[q] PROVE Sound(req[q])'
  <2>1. Sound(req[q])
    BY DEF LoneInv, AllSound
  <2>2. RestoreSound(req[q])'
    BY <1>2, <2>1 DEF Sound, RestoreSound
  <2>3. ResetSound(req[q])'
    BY <1>2, <2>1 DEF Sound, ResetSound
  <2> QED BY <2>2, <2>3 DEF Sound
<1> QED BY <1>1, <1>2

\* A step that ends a request, or changes none.
LEMMA OneRestoreKept ==
  ASSUME OneRestore, \A r \in Requests : InRestore(r)' => InRestore(r)
  PROVE  OneRestore'
BY DEF OneRestore

\* The rows of the database change while it is open: a Restore is at most
\* about to close it.
LEMMA WriteOpens ==
  ASSUME TypeOK, LoneInv, Usable
  PROVE  /\ handle = "main" /\ Served = main
         /\ \A r \in Requests : req[r].pc \notin {"rename", "undo", "open"}
BY DEF TypeOK, LoneInv, MainSound, AllSound, Sound, RestoreSound, Usable, Served

LEMMA InsertLone ==
  ASSUME TypeOK, RowsKnown, LoneInv, NEW t \in 1..LastTable, NEW i \in Ids, Insert(t, i)
  PROVE  LoneInv'
<1> DEFINE x == <<t, i>>
<1>1. /\ handle = "main" /\ Served = main
      /\ \A r \in Requests : req[r].pc \notin {"rename", "undo", "open"}
  BY WriteOpens DEF Insert
<1>2. /\ main'.rows = main.rows \cup {x} /\ UNCHANGED <<handle, req, cleared>>
      /\ owed' = owed \cup {x} /\ exposed \subseteq exposed'
      /\ exposed' \subseteq exposed \cup {x}
  BY <1>1, RowsOfFiles DEF Insert, Store
<1>3. x \notin Known
  BY DEF Insert, Known
<1> HIDE DEF x
<1>4. MainSound'
  BY <1>2, <1>3 DEF LoneInv, MainSound, RowsKnown, FilesKnown
<1>5. OneRestore'
  BY <1>2 DEF LoneInv, OneRestore, InRestore
<1>6. ASSUME NEW r \in Requests PROVE Sound(req[r])'
  <2>1. Sound(req[r]) /\ HoldsKnown(req[r])
    BY DEF LoneInv, AllSound, RowsKnown, RequestsKnown
  <2>2. req[r].pc = "close" => x \in exposed'
    BY DEF Insert, BytesHeld, x
  <2>3. RestoreSound(req[r])'
    BY <1>1, <1>2, <2>1, <2>2 DEF Sound, RestoreSound
  <2>4. ResetSound(req[r])'
    BY <1>2, <1>3, <2>1 DEF Sound, ResetSound, HoldsKnown
  <2> QED BY <2>3, <2>4 DEF Sound
<1> QED BY <1>4, <1>5, <1>6 DEF LoneInv, AllSound

LEMMA EraseLone ==
  ASSUME TypeOK, LoneInv, NEW x \in Row, Erase(x)
  PROVE  LoneInv'
<1>1. /\ handle = "main" /\ Served = main
      /\ \A r \in Requests : req[r].pc \notin {"rename", "undo", "open"}
  BY WriteOpens DEF Erase
<1>2. /\ main'.rows = main.rows \ {x} /\ UNCHANGED <<handle, req, cleared>>
      /\ owed' = owed \ {x} /\ exposed \subseteq exposed'
  BY <1>1, RowsOfFiles DEF Erase, Store
<1>3. MainSound'
  BY <1>2 DEF LoneInv, MainSound
<1>4. OneRestore'
  BY <1>2 DEF LoneInv, OneRestore, InRestore
<1>5. ASSUME NEW r \in Requests PROVE Sound(req[r])'
  <2>1. Sound(req[r])
    BY DEF LoneInv, AllSound
  <2>2. req[r].pc = "close" => x \in exposed'
    BY DEF Erase, BytesHeld
  <2>3. RestoreSound(req[r])'
    BY <1>1, <1>2, <2>1, <2>2 DEF Sound, RestoreSound
  <2>4. ResetSound(req[r])'
    BY <1>2, <2>1 DEF Sound, ResetSound
  <2> QED BY <2>3, <2>4 DEF Sound
<1> QED BY <1>3, <1>4, <1>5 DEF LoneInv, AllSound

LEMMA ResetTableLone ==
  ASSUME TypeOK, LoneInv, NEW r \in Requests, ResetTable(r)
  PROVE  LoneInv'
<1> DEFINE table == RowsOf(req[r].next)
           new == req'[r]
<1>1. /\ handle = "main" /\ Served = main
      /\ \A q \in Requests : req[q].pc \notin {"rename", "undo", "open"}
  BY WriteOpens DEF ResetTable
<1>2. /\ main'.rows = main.rows \ table /\ UNCHANGED <<handle, cleared>>
      /\ owed' = owed \ table /\ exposed \subseteq exposed'
  BY <1>1, RowsOfFiles DEF ResetTable, Store
<1>3. req[r] \in Resetting /\ req[r].pc = "reset" /\ req[r].next \in Nat
  BY RequestType, TableAssumption DEF ResetTable, Resetting
<1>4. new.pc = "reset" /\ new.doomed = req[r].doomed /\ new.next = req[r].next + 1
  BY ResetGoes
<1>5. req'[r] = new /\ \A q \in Requests \ {r} : req'[q] = req[q]
  BY ResetGoes
<1>6. \A x \in Row : x[1] = req[r].next => x \in table
  BY DEF Row, RowsOf
<1>7. main.rows \in Content
  BY FileFacts DEF TypeOK
<1>8. BytesHeld => main.rows \ main'.rows \subseteq exposed'
  BY <1>1, <1>2 DEF ResetTable
<1> HIDE DEF table, new
<1>9. MainSound'
  BY <1>2 DEF LoneInv, MainSound
<1>10. OneRestore'
  <2>1. \A q \in Requests : InRestore(q)' => InRestore(q)
    BY <1>4, <1>5 DEF InRestore
  <2> QED BY <2>1, OneRestoreKept DEF LoneInv
<1>11. ASSUME NEW q \in Requests PROVE Sound(req[q])'
  <2>1. Sound(req[q])
    BY DEF LoneInv, AllSound
  <2>2. CASE q = r
    <3>1. RestoreSound(req[q])'
      BY <2>2, <1>4, <1>5 DEF RestoreSound
    <3>2. ASSUME NEW x \in new.doomed \cap main'.rows, x[1] < new.next PROVE x \in exposed'
      <4>1. x \in Row /\ x[1] \in Nat
        BY <1>2, <1>7 DEF Content, Row
      <4>2. x[1] # req[r].next
        BY <1>2, <1>6, <4>1
      <4>3. x[1] < req[r].next
        BY <1>3, <1>4, <3>2, <4>1, <4>2
      <4>4. x \in exposed
        BY <1>2, <1>3, <1>4, <2>1, <2>2, <4>3 DEF Sound, ResetSound
      <4> QED BY <1>2, <4>4
    <3>3. ResetSound(req[q])'
      BY <2>2, <1>5, <3>2 DEF ResetSound
    <3> QED BY <3>1, <3>3 DEF Sound
  <2>3. CASE q # r
    <3>1. req'[q] = req[q]
      BY <1>5, <2>3
    <3>2. req[q].pc = "close" => BytesHeld
      BY DEF BytesHeld
    <3>3. RestoreSound(req[q])'
      BY <1>1, <1>2, <1>8, <2>1, <3>1, <3>2 DEF Sound, RestoreSound
    <3>4. ResetSound(req[q])'
      BY <1>2, <2>1, <3>1 DEF Sound, ResetSound
    <3> QED BY <3>3, <3>4 DEF Sound
  <2> QED BY <2>2, <2>3
<1> QED BY <1>9, <1>10, <1>11 DEF LoneInv, AllSound

\* A statement on a handle that is gone exposes the row it writes.
LEMMA LateWriteLone ==
  ASSUME TypeOK, RowsKnown, LoneInv, NEW f \in {"main", "lost"}, NEW t \in 1..LastTable,
         NEW i \in Ids, LateInsert(f, t, i) \/ LateErase(f, <<t, i>>)
  PROVE  LoneInv'
<1> DEFINE x == <<t, i>>
<1>1. /\ UNCHANGED <<handle, cleared, req>> /\ exposed' = exposed \cup {x}
      /\ owed' \in {owed \cup {x}, owed \ {x}}
      /\ main'.rows \in {main.rows, main.rows \cup {x}, main.rows \ {x}}
  BY RowsOfFiles DEF LateInsert, LateErase, LateWrite
<1> HIDE DEF x
<1>2. MainSound' /\ \A q \in Requests : Sound(req[q])'
  BY <1>1, ExposedWrite
<1>3. OneRestore'
  BY <1>1 DEF LoneInv, OneRestore, InRestore
<1> QED BY <1>2, <1>3 DEF LoneInv, AllSound

LEMMA ResetTableLateLone ==
  ASSUME TypeOK, LoneInv, NEW r \in Requests, ResetTableLate(r)
  PROVE  LoneInv'
<1> DEFINE table == RowsOf(req[r].next)
           new == req'[r]
<1>1. /\ UNCHANGED <<handle, cleared>> /\ exposed' = exposed \cup (main.rows \cap table)
      /\ owed' = owed \ table /\ main'.rows \in {main.rows, main.rows \ table}
  BY RowsOfFiles DEF ResetTableLate
<1>2. req[r] \in Resetting /\ req[r].pc = "reset" /\ req[r].next \in Nat
  BY RequestType, TableAssumption DEF ResetTableLate, Resetting
<1>3. new.pc = "reset" /\ new.doomed = req[r].doomed /\ new.next = req[r].next + 1
  BY ResetGoes
<1>4. req'[r] = new /\ \A q \in Requests \ {r} : req'[q] = req[q]
  BY ResetGoes
<1>5. \A x \in Row : x[1] = req[r].next => x \in table
  BY DEF Row, RowsOf
<1>6. main.rows \in Content
  BY FileFacts DEF TypeOK
<1> HIDE DEF table, new
<1>7. owed' \ exposed' = owed \ exposed'
  BY <1>1 DEF LoneInv, MainSound
<1>8. MainSound' /\ \A q \in Requests : req'[q] = req[q] => Sound(req[q])'
  BY <1>1, <1>7, ExposedWrite
<1>9. OneRestore'
  <2>1. \A q \in Requests : InRestore(q)' => InRestore(q)
    BY <1>3, <1>4 DEF InRestore
  <2> QED BY <2>1, OneRestoreKept DEF LoneInv
<1>10. Sound(req[r])'
  <2>1. RestoreSound(req[r])'
    BY <1>3, <1>4 DEF RestoreSound
  <2>2. ASSUME NEW x \in new.doomed \cap main'.rows, x[1] < new.next PROVE x \in exposed'
    <3>1. x \in main.rows /\ x \in Row /\ x[1] \in Nat
      BY <1>1, <1>6 DEF Content, Row
    <3>2. CASE x \in table
      BY <1>1, <3>1, <3>2
    <3>3. CASE x \notin table
      <4>1. x[1] # req[r].next
        BY <1>5, <3>1, <3>3
      <4>2. x[1] < req[r].next
        BY <1>2, <1>3, <2>2, <3>1, <4>1
      <4>3. x \in exposed
        BY <1>2, <1>3, <3>1, <4>2 DEF LoneInv, AllSound, Sound, ResetSound
      <4> QED BY <1>1, <4>3
    <3> QED BY <3>2, <3>3
  <2>3. ResetSound(req[r])'
    BY <1>4, <2>2 DEF ResetSound
  <2> QED BY <2>1, <2>3 DEF Sound
<1> QED BY <1>4, <1>8, <1>9, <1>10 DEF LoneInv, AllSound

\* A request that is answered holds nothing to be sound about.
LEMMA DoneLone ==
  ASSUME TypeOK, LoneInv, NEW r \in Requests, Done(r),
         UNCHANGED <<main, handle, owed, exposed, cleared>>
  PROVE  LoneInv'
<1>1. req'[r] = Idle /\ \A q \in Requests \ {r} : req'[q] = req[q]
  BY DoneType
<1>2. ~InRestore(r)' /\ Sound(req[r])'
  BY <1>1 DEF InRestore, Sound, RestoreSound, ResetSound, Idle
<1> QED BY <1>1, <1>2, FrameStep

LEMMA ResetStartLone ==
  ASSUME TypeOK, LoneInv, NEW r \in Requests, ResetStart(r)
  PROVE  LoneInv'
<1> DEFINE new == [pc |-> "reset", on |-> "handle", next |-> 1, live |-> tokens,
                   doomed |-> IF Usable THEN Served.rows ELSE {}]
<1>1. new.pc = "reset" /\ new.next = 1 /\ new.doomed \in Content
  BY ServedType DEF Content
<1>2. req' = [req EXCEPT ![r] = new]
  BY DEF ResetStart
<1> HIDE DEF new
<1>3. req'[r] = new /\ \A q \in Requests \ {r} : req'[q] = req[q]
  BY <1>2 DEF TypeOK
<1>4. \A x \in new.doomed : ~(x[1] < new.next)
  BY <1>1 DEF Content, Row
<1>5. ~InRestore(r)' /\ Sound(req[r])'
  BY <1>1, <1>3, <1>4 DEF InRestore, Sound, RestoreSound, ResetSound
<1> QED BY <1>3, <1>5, FrameStep DEF ResetStart, files, ghosts

LEMMA ResetCachesLone ==
  ASSUME TypeOK, LoneInv, NEW r \in Requests, ResetCaches(r)
  PROVE  LoneInv'
<1>1. req[r] \in Resetting /\ req[r].pc = "reset" /\ req[r].next = LastTable + 1
  BY RequestType DEF ResetCaches
<1>2. req'[r] = Idle /\ \A q \in Requests \ {r} : req'[q] = req[q]
  BY DoneType DEF ResetCaches
<1>3. UNCHANGED <<main, handle, owed, exposed>> /\ cleared' = cleared \cup req[r].doomed
  BY DEF ResetCaches, files
<1>4. req[r].doomed \cap main.rows \subseteq exposed
  <2>1. \A x \in req[r].doomed : x[1] < req[r].next
    BY <1>1, TableAssumption DEF Resetting, Content, Row
  <2> QED BY <1>1, <2>1 DEF LoneInv, AllSound, Sound, ResetSound
<1>5. MainSound'
  BY <1>3, <1>4 DEF LoneInv, MainSound
<1>6. OneRestore'
  <2>1. \A q \in Requests : InRestore(q)' => InRestore(q)
    BY <1>2 DEF InRestore, Idle
  <2> QED BY <2>1, OneRestoreKept DEF LoneInv
<1>7. ASSUME NEW q \in Requests PROVE Sound(req[q])'
  BY <1>2, <1>3 DEF LoneInv, AllSound, Sound, RestoreSound, ResetSound, Idle
<1> QED BY <1>5, <1>6, <1>7 DEF LoneInv, AllSound

LEMMA RestoreStartLone ==
  ASSUME TypeOK, LoneInv, NEW r \in Requests, RestoreStart(r), ~raced'
  PROVE  LoneInv'
<1> DEFINE new == [pc |-> "copy", old |-> NoFile, status |-> 200]
<1>1. new.pc = "copy" /\ new.old = NoFile
  OBVIOUS
<1>2. req' = [req EXCEPT ![r] = new]
  BY DEF RestoreStart
<1> HIDE DEF new
<1>3. req'[r] = new /\ \A q \in Requests \ {r} : req'[q] = req[q]
  BY <1>2 DEF TypeOK
<1>4. \A q \in Requests \ {r} : ~InRestore(q)
  BY DEF RestoreStart
<1>5. Sound(req[r])'
  BY <1>1, <1>3 DEF Sound, RestoreSound, ResetSound
<1> QED BY <1>3, <1>4, <1>5, FrameStep DEF RestoreStart, files

\* The calls of Restore that only move on.
LEMMA MoveOnLone ==
  ASSUME TypeOK, LoneInv, NEW r \in Requests,
         CopySnapshot(r) \/ VerifyStaging(r) \/ ReadOld(r) \/ SwapFails(r)
  PROVE  LoneInv'
<1>1. Sound(req[r])
  BY DEF LoneInv, AllSound
<1>2. UNCHANGED <<main, handle, owed, exposed, cleared>> /\ InRestore(r)
  BY DEF CopySnapshot, VerifyStaging, ReadOld, SwapFails, files, ghosts, InRestore
<1>3. ASSUME CopySnapshot(r) \/ VerifyStaging(r)
      PROVE  Sound(req[r])' /\ \A q \in Requests \ {r} : req'[q] = req[q]
  <2>1. /\ req'[r].pc \in {"verify", "read"} /\ req'[r].old = req[r].old
        /\ \A q \in Requests \ {r} : req'[q] = req[q]
    BY <1>3, RestoreGoes DEF CopySnapshot, VerifyStaging, RestoreSteps
  <2>2. req[r].old = NoFile
    BY <1>1, <1>3 DEF CopySnapshot, VerifyStaging, Sound, RestoreSound
  <2> QED BY <2>1, <2>2 DEF Sound, RestoreSound, ResetSound
<1>4. ASSUME ReadOld(r)
      PROVE  Sound(req[r])' /\ \A q \in Requests \ {r} : req'[q] = req[q]
  <2>1. req[r].old = NoFile
    BY <1>1, <1>4 DEF ReadOld, Sound, RestoreSound
  <2> QED BY <1>2, <1>4, <2>1, ReadOldGoes DEF Sound, RestoreSound, ResetSound
<1>5. ASSUME SwapFails(r)
      PROVE  Sound(req[r])' /\ \A q \in Requests \ {r} : req'[q] = req[q]
  <2>1. /\ req'[r].pc = "undo" /\ req'[r].old = req[r].old
        /\ \A q \in Requests \ {r} : req'[q] = req[q]
    BY <1>5, SwapFailsGoes
  <2>2. req[r].pc = "rename"
    BY <1>5 DEF SwapFails
  <2> QED BY <1>1, <1>2, <2>1, <2>2 DEF Sound, RestoreSound, ResetSound
<1>6. Sound(req[r])' /\ \A q \in Requests \ {r} : req'[q] = req[q]
  BY <1>3, <1>4, <1>5
<1> QED BY <1>2, <1>6, FrameStep

LEMMA CloseOldLone ==
  ASSUME TypeOK, LoneInv, NEW r \in Requests, CloseOld(r)
  PROVE  LoneInv'
<1>1. UNCHANGED <<main, owed, exposed, cleared>> /\ handle' = "closed" /\ InRestore(r)
  BY DEF CloseOld, ghosts, InRestore
<1>2. MainSound'
  BY <1>1 DEF LoneInv, MainSound
<1>3. ASSUME NEW q \in Requests \ {r} PROVE ~InRestore(q)' /\ Sound(req[q])'
  <2>1. ~InRestore(q) /\ Stays(q)
    BY <1>1, CloseOldGoes DEF LoneInv, OneRestore
  <2> QED BY <1>1, <2>1, StaysSound
<1>4. Sound(req[r])'
  <2>1. CASE req'[r] = Idle
    BY <2>1 DEF Sound, RestoreSound, ResetSound, Idle
  <2>2. CASE req'[r].pc = "rename" /\ req'[r].old = req[r].old
    BY <1>1, <2>2 DEF CloseOld, LoneInv, AllSound, Sound, RestoreSound, ResetSound
  <2> QED BY <2>1, <2>2, CloseOldGoes
<1>5. OneRestore'
  BY <1>3 DEF OneRestore
<1> QED BY <1>2, <1>3, <1>4, <1>5 DEF LoneInv, AllSound

LEMMA SwapInLone ==
  ASSUME TypeOK, LoneInv, NEW r \in Requests, SwapIn(r)
  PROVE  LoneInv'
<1>1. handle = "closed" /\ InRestore(r)
  BY DEF SwapIn, LoneInv, AllSound, Sound, RestoreSound, InRestore
<1>2. /\ main' = tmp /\ owed' = tmp.rows /\ cleared' = cleared \ tmp.rows
      /\ UNCHANGED <<handle, exposed>>
  BY <1>1 DEF SwapIn
<1>3. MainSound'
  BY <1>1, <1>2 DEF LoneInv, MainSound
<1>4. req'[r].pc = "open" /\ req'[r].old = NoFile
  BY SwapInGoes
<1>5. ASSUME NEW q \in Requests \ {r} PROVE ~InRestore(q)' /\ Sound(req[q])'
  <2>1. ~InRestore(q)
    BY <1>1 DEF LoneInv, OneRestore
  <2>2. /\ ~InRestore(q)'
        /\ req'[q].pc = "reset" => req'[q].doomed \cap tmp.rows = {}
    BY <2>1, SwapInGoes DEF InRestore
  <2>3. RestoreSound(req[q])'
    BY <2>2 DEF InRestore, RestoreSound
  <2>4. ResetSound(req[q])'
    BY <1>2, <2>2 DEF ResetSound
  <2> QED BY <2>2, <2>3, <2>4 DEF Sound
<1>6. OneRestore'
  BY <1>5 DEF OneRestore
<1>7. Sound(req[r])'
  BY <1>1, <1>2, <1>4 DEF Sound, RestoreSound, ResetSound
<1> QED BY <1>3, <1>5, <1>6, <1>7 DEF LoneInv, AllSound

LEMMA WriteBackLone ==
  ASSUME TypeOK, LoneInv, NEW r \in Requests, WriteBack(r)
  PROVE  LoneInv'
<1>1. handle = "closed" /\ InRestore(r) /\ Sound(req[r])
  BY DEF WriteBack, LoneInv, AllSound, Sound, RestoreSound, InRestore
<1>2. UNCHANGED <<handle, owed, cleared>>
  BY DEF WriteBack
<1>3. req'[r].pc = "open" /\ \A q \in Requests \ {r} : req'[q] = req[q]
  BY WriteBackGoes
\* What is no longer hidden behind exposed is the same as before, or nothing.
<1>4. /\ exposed \subseteq exposed'
      /\ main'.rows \ exposed' \subseteq main.rows \ exposed
      /\ main'.rows \ exposed' = owed \ exposed'
  <2>1. main.rows \ exposed = owed \ exposed
    BY DEF LoneInv, MainSound
  <2>2. CASE UNCHANGED <<main, exposed>>
    BY <2>1, <2>2
  <2>3. CASE req[r].old # NoFile /\ main' = req[r].old /\ UNCHANGED exposed
    BY <1>1, <2>1, <2>3 DEF WriteBack, Sound, RestoreSound
  <2>4. CASE main' = Blank /\ exposed' = exposed \cup owed
    BY <2>1, <2>4, RowsOfFiles
  <2> QED BY <2>2, <2>3, <2>4 DEF WriteBack
<1>5. MainSound'
  BY <1>1, <1>2, <1>4 DEF LoneInv, MainSound
<1>6. OneRestore'
  <2>1. \A q \in Requests : InRestore(q)' => InRestore(q)
    BY <1>1, <1>3 DEF InRestore
  <2> QED BY <2>1, OneRestoreKept DEF LoneInv
<1>7. Sound(req[r])'
  BY <1>1, <1>2, <1>3 DEF Sound, RestoreSound, ResetSound
<1>8. ASSUME NEW q \in Requests \ {r} PROVE Sound(req[q])'
  <2>1. ~InRestore(q) /\ Sound(req[q]) /\ req'[q] = req[q]
    BY <1>1, <1>3 DEF LoneInv, OneRestore, AllSound
  <2>2. RestoreSound(req[q])'
    BY <2>1 DEF InRestore, RestoreSound
  <2>3. ResetSound(req[q])'
    BY <1>4, <2>1 DEF Sound, ResetSound
  <2> QED BY <2>2, <2>3 DEF Sound
<1> QED BY <1>5, <1>6, <1>7, <1>8 DEF LoneInv, AllSound

LEMMA ReopenLone ==
  ASSUME TypeOK, LoneInv, NEW r \in Requests, Reopen(r)
  PROVE  LoneInv'
<1>1. UNCHANGED <<main, owed, exposed, cleared>> /\ handle' # "stray" /\ InRestore(r)
  BY DEF Reopen, ghosts, InRestore, LoneInv, MainSound
<1>2. MainSound'
  BY <1>1 DEF LoneInv, MainSound
<1>3. ASSUME NEW q \in Requests \ {r} PROVE ~InRestore(q)' /\ Sound(req[q])'
  <2>1. ~InRestore(q) /\ Stays(q)
    BY <1>1, ReopenGoes DEF LoneInv, OneRestore
  <2> QED BY <1>1, <2>1, StaysSound
<1>4. Sound(req[r])'
  BY ReopenGoes DEF Sound, RestoreSound, ResetSound, Idle
<1>5. OneRestore'
  BY <1>3 DEF OneRestore
<1> QED BY <1>2, <1>3, <1>4, <1>5 DEF LoneInv, AllSound

LEMMA RestartLone ==
  ASSUME TypeOK, LoneInv, Restart
  PROVE  LoneInv'
<1>1. /\ main'.rows = main.rows /\ handle' = "main" /\ UNCHANGED <<owed, exposed, cleared>>
      /\ \A r \in Requests : req'[r] = Idle
  BY RowsOfFiles DEF Restart, ghosts
<1>2. MainSound'
  BY <1>1 DEF LoneInv, MainSound
<1>3. OneRestore'
  BY <1>1 DEF OneRestore, InRestore, Idle
<1>4. AllSound'
  BY <1>1 DEF AllSound, Sound, RestoreSound, ResetSound, Idle
<1> QED BY <1>2, <1>3, <1>4 DEF LoneInv

\* Once two Restores have overlapped the history says so for good.
LEMMA RacedStays == TypeOK /\ [Next]_vars /\ raced => raced'
BY DEF Next, vars, ghosts, Insert, Erase, LateInsert, LateErase, LateWrite, Issue, ResetStart,
       ResetTable, ResetTableLate, ResetFail, ResetCaches, SnapshotStart, SnapshotEnd,
       SnapshotFail, RestoreStart, CopySnapshot,
       VerifyStaging, StagingFails, ReadOld, CloseOld, SwapIn, SwapFails, WriteBack, Reopen,
       Restart

LEMMA LoneStep ==
  ASSUME RowInv, [Next]_vars, ~raced'
  PROVE  LoneInv'
<1>1. ~raced
  BY RacedStays DEF RowInv
<1>2. TypeOK /\ RowsKnown /\ LoneInv
  BY <1>1 DEF RowInv
<1>3. ASSUME NEW r \in Requests,
             ResetFail(r) \/ SnapshotEnd(r) \/ SnapshotFail(r) \/ StagingFails(r)
      PROVE  LoneInv'
  BY <1>2, <1>3, DoneLone DEF ResetFail, SnapshotEnd, SnapshotFail, StagingFails, files, ghosts
<1>4. ASSUME NEW r \in Requests, SnapshotStart(r) PROVE LoneInv'
  <2>1. /\ req'[r].pc = "vacuum" /\ \A q \in Requests \ {r} : req'[q] = req[q]
        /\ UNCHANGED <<main, handle, owed, exposed, cleared>>
    BY <1>2, <1>4 DEF SnapshotStart, TypeOK, ghosts
  <2>2. ~InRestore(r)' /\ Sound(req[r])'
    BY <2>1 DEF InRestore, Sound, RestoreSound, ResetSound
  <2> QED BY <1>2, <2>1, <2>2, FrameStep
<1>5. ASSUME UNCHANGED <<main, handle, owed, exposed, cleared, req>> PROVE LoneInv'
  BY <1>2, <1>5
     DEF LoneInv, OneRestore, MainSound, AllSound, InRestore, Sound, RestoreSound, ResetSound
<1>6. (\E k \in Tokens : Issue(k)) \/ UNCHANGED vars => LoneInv'
  BY <1>5 DEF Issue, vars, files, ghosts
<1>7. \A t \in 1..LastTable, i \in Ids : <<t, i>> \in Row
  BY DEF Row
<1> QED
  BY <1>2, <1>3, <1>4, <1>6, <1>7, InsertLone, EraseLone, LateWriteLone, ResetStartLone,
     ResetTableLone, ResetTableLateLone,
     ResetCachesLone, RestoreStartLone, MoveOnLone, CloseOldLone, SwapInLone, WriteBackLone,
     ReopenLone, RestartLone
     DEF Next

LEMMA RowInvInductive == (Init => RowInv) /\ (RowInv /\ [Next]_vars => RowInv')
<1>1. Init => RowInv
  BY TypeInit, RowsOfFiles
     DEF Init, RowInv, RowsKnown, FilesKnown, RequestsKnown, HoldsKnown, LoneInv, OneRestore,
         InRestore, MainSound, AllSound, Sound, RestoreSound, ResetSound, RestoreSteps, Idle
<1>2. RowInv /\ [Next]_vars => RowInv'
  BY TypeStep, FilesKnownStep, RequestsKnownStep, LoneStep DEF RowInv, RowsKnown
<1> QED BY <1>1, <1>2

\* At every instant the database file holds what acknowledged writes and restores
\* have left, whatever failed and wherever the server crashed, if no two Restores
\* overlapped: but for the rows written between reading the old bytes and closing
\* the handle, those written by a statement that ran on across the close, and
\* those a failed write back has lost.
THEOREM AckedWritesStayServed == Spec => []AckedWritesServed
<1>1. RowInv => AckedWritesServed
  BY DEF RowInv, LoneInv, MainSound, AckedWritesServed
<1> QED BY <1>1, RowInvInductive, PTL DEF Spec

\* What an acknowledged reset has removed stays removed until a snapshot that
\* holds it is restored, with the same exceptions.
THEOREM ResetsStayCleared == Spec => []ResetClears
<1>1. RowInv => ResetClears
  BY DEF RowInv, LoneInv, MainSound, ResetClears
<1> QED BY <1>1, RowInvInductive, PTL DEF Spec

(***************************************************************************)
(* A Restore that answers 200.                                             *)
(***************************************************************************)
\* A snapshot under way has the file to itself, so the file only changes while
\* it is empty or missing.
OneVacuum ==
  /\ \A q, r \in Requests : req[q].pc = "vacuum" /\ req[r].pc = "vacuum" => q = r
  /\ \A r \in Requests : req[r].pc = "vacuum" => snap = Blank

SnapFixed == UNCHANGED snap \/ snap \in {NoFile, Blank}

LEMMA OneVacuumStep ==
  TypeOK /\ OneVacuum /\ [Next]_vars => OneVacuum' /\ SnapFixed
<1> SUFFICES ASSUME TypeOK, OneVacuum, [Next]_vars PROVE OneVacuum' /\ SnapFixed
  OBVIOUS
<1>1. ASSUME UNCHANGED snap, \A r \in Requests : req'[r].pc = "vacuum" => req[r].pc = "vacuum"
      PROVE  OneVacuum' /\ SnapFixed
  BY <1>1 DEF OneVacuum, SnapFixed
<1>2. ASSUME UNCHANGED <<snap, req>> PROVE OneVacuum' /\ SnapFixed
  BY <1>1, <1>2
<1>3. ASSUME NEW r \in Requests, req'[r].pc # "vacuum", UNCHANGED snap,
             \A q \in Requests \ {r} : req'[q] = req[q]
      PROVE  OneVacuum' /\ SnapFixed
  BY <1>1, <1>3
<1>4. ASSUME NEW r \in Requests, Done(r), UNCHANGED snap PROVE OneVacuum' /\ SnapFixed
  BY <1>3, <1>4, DoneType DEF Idle
<1>5. ASSUME NEW r \in Requests, req[r].pc \in RestoreSteps, NEW pc \in RestoreSteps,
             Goto(r, pc), UNCHANGED snap
      PROVE  OneVacuum' /\ SnapFixed
  BY <1>3, <1>5, RestoreGoes DEF RestoreSteps
<1>6. ASSUME NEW r \in Requests, SnapshotStart(r) PROVE OneVacuum' /\ SnapFixed
  <2>1. \A q \in Requests \ {r} : req'[q] = req[q] /\ req[q].pc # "vacuum"
    BY <1>6 DEF SnapshotStart, TypeOK, Usable
  <2> QED BY <1>6, <2>1 DEF SnapshotStart, OneVacuum, SnapFixed
<1>7. ASSUME NEW r \in Requests, SnapshotEnd(r) PROVE OneVacuum' /\ SnapFixed
  <2>1. req'[r] = Idle /\ \A q \in Requests \ {r} : req'[q] = req[q]
    BY <1>7, DoneType DEF SnapshotEnd
  <2>2. snap = Blank /\ \A q \in Requests \ {r} : req[q].pc # "vacuum"
    BY <1>7 DEF SnapshotEnd, OneVacuum
  <2> QED BY <2>1, <2>2 DEF OneVacuum, SnapFixed, Idle
<1>8. ASSUME NEW r \in Requests, ResetStart(r) \/ RestoreStart(r)
      PROVE  OneVacuum' /\ SnapFixed
  <2>1. req'[r].pc # "vacuum" /\ UNCHANGED snap /\ \A q \in Requests \ {r} : req'[q] = req[q]
    BY <1>8 DEF ResetStart, RestoreStart, TypeOK, files
  <2> QED BY <1>3, <2>1
<1>9. ASSUME NEW r \in Requests, ResetTable(r) \/ ResetTableLate(r)
      PROVE  OneVacuum' /\ SnapFixed
  <2>1. req'[r].pc = "reset" /\ \A q \in Requests \ {r} : req'[q] = req[q]
    BY <1>9, ResetGoes
  <2> QED BY <1>3, <1>9, <2>1 DEF ResetTable, ResetTableLate
<1>10. ASSUME NEW r \in Requests, ReadOld(r) \/ SwapFails(r) PROVE OneVacuum' /\ SnapFixed
  <2>1. req'[r].pc # "vacuum" /\ \A q \in Requests \ {r} : req'[q] = req[q]
    BY <1>10, ReadOldGoes, SwapFailsGoes
  <2> QED BY <1>3, <1>10, <2>1 DEF ReadOld, SwapFails, files
<1>11. ASSUME NEW r \in Requests, CloseOld(r) \/ SwapIn(r) \/ WriteBack(r) \/ Reopen(r)
       PROVE  OneVacuum' /\ SnapFixed
  <2>1. UNCHANGED snap
    BY <1>11 DEF CloseOld, SwapIn, WriteBack, Reopen
  <2>2. ASSUME NEW q \in Requests, req'[q].pc = "vacuum" PROVE req[q].pc = "vacuum"
    BY <1>11, <2>2, CloseOldGoes, SwapInGoes, WriteBackGoes, ReopenGoes DEF Stays, Idle
  <2> QED BY <1>1, <2>1, <2>2
<1>12. ASSUME NEW r \in Requests, CopySnapshot(r) \/ VerifyStaging(r)
       PROVE  OneVacuum' /\ SnapFixed
  BY <1>5, <1>12 DEF CopySnapshot, VerifyStaging, RestoreSteps
<1>13. ASSUME NEW r \in Requests,
              ResetFail(r) \/ ResetCaches(r) \/ SnapshotFail(r) \/ StagingFails(r)
       PROVE  OneVacuum' /\ SnapFixed
  BY <1>4, <1>13 DEF ResetFail, ResetCaches, SnapshotFail, StagingFails, files
<1>14. ASSUME NEW t \in 1..LastTable, NEW i \in Ids,
              \/ Insert(t, i) \/ Erase(<<t, i>>)
              \/ \E f \in {"main", "lost"} : LateInsert(f, t, i) \/ LateErase(f, <<t, i>>)
       PROVE  OneVacuum' /\ SnapFixed
  BY <1>2, <1>14 DEF Insert, Erase, LateInsert, LateErase, LateWrite
<1>15. ASSUME NEW k \in Tokens, Issue(k) PROVE OneVacuum' /\ SnapFixed
  BY <1>2, <1>15 DEF Issue, files
<1>16. CASE Restart
  BY <1>1, <1>16 DEF Restart, Idle
<1>17. CASE UNCHANGED vars
  BY <1>2, <1>17 DEF vars, files
<1> QED
  BY <1>6, <1>7, <1>8, <1>9, <1>10, <1>11, <1>12, <1>13, <1>14, <1>15, <1>16, <1>17
     DEF Next

\* No statement of a handle that is gone is on the file at the path.
Settled ==
  /\ "main" \notin late
  /\ \A q \in Requests : req[q].pc = "reset" => req[q].on # "main"

\* What a Restore has staged is the snapshot or an empty file, and so is what
\* it has put in place unless it is going to answer 500; the statements that ran
\* across its close are on the file it has replaced.
Reverses(c) ==
  /\ c.pc \in {"verify", "read", "close", "rename"} => tmp \in {snap, Blank, NoFile}
  /\ c.pc = "undo" => c.status = 500
  /\ c.pc = "open" /\ c.status = 200 => main # NoFile /\ main \in {snap, Blank} /\ Settled

AllReverse == \A r \in Requests : Reverses(req[r])

\* A step that no Restore takes leaves what a Restore has put in place alone until
\* it is opened: writes through r.db find the handle closed, and those of handles
\* that are gone are on another file.
QuietStep ==
  /\ UNCHANGED tmp
  /\ UNCHANGED main \/ Usable \/ ~Settled
  /\ Settled => Settled'

LEMMA ReversesFrame ==
  ASSUME TypeOK, LoneInv, AllReverse, SnapFixed, QuietStep,
         NEW q \in Requests, InRestore(q)' => req'[q] = req[q]
  PROVE  Reverses(req[q])'
<1>1. CASE ~InRestore(q)'
  BY <1>1 DEF InRestore, Reverses
<1>2. CASE req'[q] = req[q]
  <2>1. Usable => req[q].pc # "open"
    BY WriteOpens
  <2>2. Reverses(req[q])
    BY DEF AllReverse
  <2> QED BY <1>2, <2>1, <2>2 DEF QuietStep, Reverses, SnapFixed
<1> QED BY <1>1, <1>2

LEMMA AllReverseStep ==
  ASSUME TypeOK, LoneInv, AllReverse, OneVacuum, [Next]_vars, ~raced'
  PROVE  AllReverse'
<1>1. SnapFixed
  BY OneVacuumStep
\* Steps of the Restore under way, which is the only one.
<1>2. ASSUME NEW r \in Requests, InRestore(r), Reverses(req[r])',
             \A q \in Requests \ {r} : Stays(q)
      PROVE  AllReverse'
  <2>1. \A q \in Requests \ {r} : ~InRestore(q)'
    BY <1>2 DEF LoneInv, OneRestore, InRestore, Stays
  <2> QED BY <1>2, <2>1 DEF AllReverse, Reverses, InRestore
<1>3. ASSUME NEW r \in Requests, InRestore(r), Reverses(req[r])',
             \A q \in Requests \ {r} : req'[q] = req[q]
      PROVE  AllReverse'
  BY <1>2, <1>3 DEF Stays
\* Steps of other requests.
<1>4. ASSUME NEW r \in Requests, req'[r].pc \in {"idle", "reset", "vacuum", "copy"},
             \A q \in Requests \ {r} : req'[q] = req[q], QuietStep
      PROVE  AllReverse'
  <2>1. Reverses(req[r])'
    BY <1>4 DEF Reverses
  <2>2. \A q \in Requests \ {r} : Reverses(req[q])'
    BY <1>1, <1>4, ReversesFrame
  <2> QED BY <2>1, <2>2 DEF AllReverse
<1>5. ASSUME UNCHANGED req, QuietStep PROVE AllReverse'
  BY <1>1, <1>5, ReversesFrame DEF AllReverse
<1>6. ASSUME NEW r \in Requests, UNCHANGED <<tmp, main, late>>,
             req'[r].pc = "reset" => req'[r].on = "handle",
             req'[r].pc \in {"idle", "reset", "vacuum", "copy"},
             \A q \in Requests \ {r} : req'[q] = req[q]
      PROVE  AllReverse'
  <2>1. QuietStep
    BY <1>6 DEF QuietStep, Settled
  <2> QED BY <1>4, <1>6, <2>1
<1>7. ASSUME NEW r \in Requests, Done(r), UNCHANGED <<tmp, main, late>> PROVE AllReverse'
  BY <1>6, <1>7, DoneType DEF Idle
<1>8. ASSUME NEW t \in 1..LastTable, NEW i \in Ids, Insert(t, i) \/ Erase(<<t, i>>)
      PROVE  AllReverse'
  <2>1. QuietStep /\ UNCHANGED req
    BY <1>8 DEF Insert, Erase, QuietStep, Settled
  <2> QED BY <1>5, <2>1
<1>9. ASSUME NEW f \in {"main", "lost"}, NEW t \in 1..LastTable, NEW i \in Ids,
             LateInsert(f, t, i) \/ LateErase(f, <<t, i>>)
      PROVE  AllReverse'
  <2>1. /\ f \in late /\ late' \subseteq late /\ UNCHANGED <<tmp, req>>
        /\ f = "lost" => UNCHANGED main
    BY <1>9 DEF LateInsert, LateErase, LateWrite
  <2>2. QuietStep
    BY <2>1 DEF QuietStep, Settled
  <2> QED BY <1>5, <2>1, <2>2
<1>10. ASSUME NEW k \in Tokens, Issue(k) PROVE AllReverse'
  <2>1. QuietStep /\ UNCHANGED req
    BY <1>10 DEF Issue, files, QuietStep, Settled
  <2> QED BY <1>5, <2>1
<1>11. ASSUME NEW r \in Requests, ResetStart(r) PROVE AllReverse'
  <2> DEFINE new == [pc |-> "reset", on |-> "handle", next |-> 1, live |-> tokens,
                     doomed |-> IF Usable THEN Served.rows ELSE {}]
  <2>1. new.pc = "reset" /\ new.on = "handle"
    OBVIOUS
  <2>2. req' = [req EXCEPT ![r] = new] /\ UNCHANGED <<tmp, main, late>>
    BY <1>11 DEF ResetStart, files
  <2> HIDE DEF new
  <2>3. req'[r] = new /\ \A q \in Requests \ {r} : req'[q] = req[q]
    BY <2>2 DEF TypeOK
  <2> QED BY <1>6, <2>1, <2>2, <2>3
<1>12. ASSUME NEW r \in Requests, SnapshotStart(r) \/ RestoreStart(r) PROVE AllReverse'
  <2>1. /\ req'[r].pc \in {"vacuum", "copy"} /\ UNCHANGED <<tmp, main, late>>
        /\ \A q \in Requests \ {r} : req'[q] = req[q]
    BY <1>12 DEF SnapshotStart, RestoreStart, TypeOK, files
  <2> QED BY <1>6, <2>1
<1>13. ASSUME NEW r \in Requests, ResetTable(r) \/ ResetTableLate(r) PROVE AllReverse'
  <2>1. /\ req'[r].pc = "reset" /\ req'[r].on = "handle"
        /\ \A q \in Requests \ {r} : req'[q] = req[q]
    BY <1>13, ResetGoes
  <2>2. UNCHANGED <<tmp, late>> /\ (UNCHANGED main \/ Usable \/ ~Settled)
    BY <1>13 DEF ResetTable, ResetTableLate, Settled
  <2>3. QuietStep
    BY <2>1, <2>2 DEF QuietStep, Settled
  <2> QED BY <1>4, <2>1, <2>3
<1>14. ASSUME NEW r \in Requests,
              ResetFail(r) \/ ResetCaches(r) \/ SnapshotEnd(r) \/ SnapshotFail(r)
       PROVE  AllReverse'
  BY <1>7, <1>14 DEF ResetFail, ResetCaches, SnapshotEnd, SnapshotFail, files
<1>15. ASSUME NEW r \in Requests, CopySnapshot(r) \/ VerifyStaging(r) PROVE AllReverse'
  <2>1. /\ req'[r].pc \in {"verify", "read"} /\ \A q \in Requests \ {r} : req'[q] = req[q]
    BY <1>15, RestoreGoes DEF CopySnapshot, VerifyStaging, RestoreSteps
  <2>2. tmp' \in {snap', Blank, NoFile} /\ InRestore(r)
    BY <1>15 DEF CopySnapshot, VerifyStaging, InRestore, AllReverse, Reverses
  <2>3. Reverses(req[r])'
    BY <2>1, <2>2 DEF Reverses, NoFile, Blank
  <2> QED BY <1>3, <2>1, <2>2, <2>3
<1>16. ASSUME NEW r \in Requests, ReadOld(r) PROVE AllReverse'
  <2>1. /\ req'[r].pc = "close" /\ \A q \in Requests \ {r} : req'[q] = req[q]
    BY <1>16, ReadOldGoes
  <2>2. tmp' \in {snap', Blank, NoFile} /\ InRestore(r)
    BY <1>16 DEF ReadOld, files, InRestore, AllReverse, Reverses
  <2>3. Reverses(req[r])'
    BY <2>1, <2>2 DEF Reverses, NoFile, Blank
  <2> QED BY <1>3, <2>1, <2>2, <2>3
<1>17. ASSUME NEW r \in Requests, CloseOld(r) PROVE AllReverse'
  <2>1. InRestore(r) /\ UNCHANGED snap /\ tmp \in {snap, Blank, NoFile}
    BY <1>17 DEF CloseOld, InRestore, AllReverse, Reverses
  <2>2. ASSUME req'[r].pc = "rename", UNCHANGED tmp PROVE Reverses(req[r])'
    BY <2>1, <2>2 DEF Reverses, NoFile, Blank
  <2>3. ASSUME req'[r] = Idle PROVE Reverses(req[r])'
    BY <2>3 DEF Reverses, Idle
  <2>4. Reverses(req[r])'
    BY <1>17, <2>2, <2>3, CloseOldGoes
  <2> QED BY <1>2, <1>17, <2>1, <2>4, CloseOldGoes
<1>18. ASSUME NEW r \in Requests, SwapIn(r) PROVE AllReverse'
  <2>1. main' # NoFile /\ main' \in {snap', Blank} /\ InRestore(r)
    BY <1>18 DEF SwapIn, InRestore, AllReverse, Reverses
  <2>2. req'[r].pc = "open" /\ \A q \in Requests : req'[q].pc = "reset" => req'[q].on # "main"
    BY <1>18, SwapInGoes
  <2>3. "main" \notin late'
    BY <1>18 DEF SwapIn
  <2>4. Settled'
    BY <2>2, <2>3 DEF Settled
  <2>5. Reverses(req[r])'
    BY <2>1, <2>2, <2>4 DEF Reverses, NoFile, Blank
  <2>6. ASSUME NEW q \in Requests \ {r} PROVE ~InRestore(q)'
    <3>1. ~InRestore(q)
      BY <2>1 DEF LoneInv, OneRestore
    <3> QED BY <1>18, <3>1, SwapInGoes DEF InRestore
  <2>7. \A q \in Requests \ {r} : Reverses(req[q])'
    BY <2>6 DEF InRestore, Reverses
  <2> QED BY <2>5, <2>7 DEF AllReverse
<1>19. ASSUME NEW r \in Requests, SwapFails(r) PROVE AllReverse'
  <2>1. /\ req'[r].pc = "undo" /\ req'[r].status = 500
        /\ \A q \in Requests \ {r} : req'[q] = req[q]
    BY <1>19, SwapFailsGoes
  <2>2. Reverses(req[r])'
    BY <2>1 DEF Reverses
  <2> QED BY <1>3, <1>19, <2>1, <2>2 DEF SwapFails, InRestore
<1>20. ASSUME NEW r \in Requests, WriteBack(r) PROVE AllReverse'
  <2>1. /\ req'[r].pc = "open" /\ req'[r].status = req[r].status
        /\ \A q \in Requests \ {r} : req'[q] = req[q]
    BY <1>20, WriteBackGoes
  <2>2. req[r].status = 500
    BY <1>20 DEF WriteBack, AllReverse, Reverses
  <2>3. Reverses(req[r])'
    BY <2>1, <2>2 DEF Reverses
  <2> QED BY <1>3, <1>20, <2>1, <2>3 DEF WriteBack, InRestore
<1>21. ASSUME NEW r \in Requests, StagingFails(r) \/ Reopen(r) PROVE AllReverse'
  <2>1. InRestore(r) /\ req'[r] = Idle /\ \A q \in Requests \ {r} : Stays(q)
    BY <1>21, DoneType, ReopenGoes DEF StagingFails, Reopen, InRestore, Stays
  <2>2. Reverses(req[r])'
    BY <2>1 DEF Reverses, Idle
  <2> QED BY <1>2, <2>1, <2>2
<1>22. CASE Restart
  BY <1>22 DEF Restart, AllReverse, Reverses, Idle
<1>23. CASE UNCHANGED vars
  <2>1. QuietStep /\ UNCHANGED req
    BY <1>23 DEF vars, files, QuietStep, Settled
  <2> QED BY <1>5, <2>1
<1> QED
  BY <1>8, <1>9, <1>10, <1>11, <1>12, <1>13, <1>14, <1>15, <1>16, <1>17, <1>18, <1>19,
     <1>20, <1>21, <1>22, <1>23 DEF Next

ReverseInv == RowInv /\ OneVacuum /\ (~raced => AllReverse)

\* A Restore that no other Restore overlaps and that answers 200 has put the
\* snapshot in place, or the empty file of a snapshot still being written.
THEOREM LoneRestoresReverse == Spec => LoneRestoreReverses
<1>1. Init => ReverseInv
  BY RowInvInductive DEF Init, ReverseInv, OneVacuum, AllReverse, Reverses, Idle
<1>2. ReverseInv /\ [Next]_vars => ReverseInv'
  <2> SUFFICES ASSUME ReverseInv, [Next]_vars PROVE ReverseInv'
    OBVIOUS
  <2>1. RowInv' /\ OneVacuum'
    BY RowInvInductive, OneVacuumStep DEF ReverseInv, RowInv
  <2>2. ~raced' => ~raced
    BY RacedStays DEF ReverseInv, RowInv
  <2>3. ~raced' => AllReverse'
    BY <2>2, AllReverseStep DEF ReverseInv, RowInv
  <2> QED BY <2>1, <2>3 DEF ReverseInv
<1>3. ReverseInv /\ [Next]_vars =>
        [\A r \in Requests :
           Reopen(r) /\ handle' = "main" /\ req[r].status = 200 /\ ~raced
             => main' \in {snap, Blank}]_vars
  BY DEF ReverseInv, AllReverse, Reverses, Reopen
<1> QED BY <1>1, <1>2, <1>3, PTL DEF Spec, LoneRestoreReverses
=============================================================================
