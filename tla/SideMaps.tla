------------------------------ MODULE SideMaps ------------------------------
(***************************************************************************)
(* The maps that live in the process, beside the database: the members of  *)
(* groups, the wrap-up codes of queues and the response libraries          *)
(* (handlers/handlers.go, group.go, routing_queue.go,                      *)
(* responsemanagement.go), with the table of queues they are attached to.  *)
(*                                                                         *)
(* Each map has a mutex, held for one read or one write and never between  *)
(* two of them: a request that adds several ids takes it once for each.    *)
(* No map is a registered cache, so a reset and a restore leave them as    *)
(* they are; a restart starts with none.                                   *)
(***************************************************************************)
EXTENDS Naturals, Sequences

CONSTANTS
  Requests,  \* goroutines serving requests at the same time
  Groups,    \* group ids; nothing checks that the group exists
  Queues,    \* queue ids newID() may hand out
  Items,     \* ids of users and of wrap-up codes
  Batches,   \* id lists that clients send
  Libs       \* library ids newID() may hand out

ASSUME BatchesAssumption == Batches \subseteq Seq(Items)
ASSUME IdsAssumption == Groups \cap Queues = {}

Owners == Groups \cup Queues

\* The map that holds the list of an owner.
MapOf(o) == IF o \in Groups THEN "groupMembers" ELSE "queueWrapups"

VARIABLES
  queues,  \* ids in routing_queues
  issued,  \* queue and library ids newID() has handed out
  maps,    \* the maps that have been made; the others are nil
  lists,   \* groupMembers and queueWrapups
  libs,    \* ids in responseLibs
  buried,  \* history: libraries deleted while no update held a copy
  req      \* the request each goroutine is serving

vars == <<queues, issued, maps, lists, libs, buried, req>>

Idle == [pc |-> "idle"]

\* A request on the list of owner: n of the ids in batch are done.  History:
\* before is what the list held when the request began, others the ids of
\* the list that other requests have added or removed since.
ListRequest == [pc: {"add", "remove"}, owner: Owners, batch: Seq(Items), n: Nat,
                before: SUBSET Items, others: SUBSET Items]
ReadRequest == [pc: {"read"}, owner: Queues]

\* A library update that holds its copy.
LibRequest == [pc: {"store"}, lib: Libs]

TypeOK ==
  /\ queues \subseteq Queues
  /\ issued \subseteq Queues \cup Libs
  /\ maps \subseteq {"groupMembers", "queueWrapups"}
  /\ lists \in [Owners -> Seq(Items)]
  /\ libs \subseteq Libs
  /\ buried \subseteq Libs
  /\ req \in [Requests -> ListRequest \cup ReadRequest \cup LibRequest \cup {Idle}]

Init ==
  /\ queues = {}
  /\ issued = {}
  /\ maps = {}
  /\ lists = [o \in Owners |-> <<>>]
  /\ libs = {}
  /\ buried = {}
  /\ req = [r \in Requests |-> Idle]

\* Operators whose comment begins with Mutant are never used by the
\* specification: each is one bug in the definition below it.

\* Mutant: the fields of an answered request are left behind.
DoneKeepingFields(r) == req' = [req EXCEPT ![r].pc = "idle"]

Done(r) == req' = [req EXCEPT ![r] = Idle]

Listed(o) == {lists[o][n] : n \in DOMAIN lists[o]}

(***************************************************************************)
(* The queues table.                                                       *)
(***************************************************************************)
QueueCreate(q) ==
  /\ q \notin issued
  /\ queues' = queues \cup {q}
  /\ issued' = issued \cup {q}
  /\ UNCHANGED <<maps, lists, libs, buried, req>>

\* DELETE of a queue, and DELETE FROM routing_queues of a reset: no cascade
\* reaches the maps.
QueueDelete(q) ==
  /\ q \in queues
  /\ queues' = queues \ {q}
  /\ UNCHANGED <<issued, maps, lists, libs, buried, req>>

Reset ==
  /\ queues' = {}
  /\ UNCHANGED <<issued, maps, lists, libs, buried, req>>

\* A restore brings back the queues of some earlier moment, not their codes.
Restore ==
  /\ \E old \in SUBSET (issued \cap Queues) : queues' = old
  /\ UNCHANGED <<issued, maps, lists, libs, buried, req>>

\* The process ends, with the maps and the requests in flight; the database
\* file stays.
Restart ==
  /\ maps' = {}
  /\ lists' = [o \in Owners |-> <<>>]
  /\ libs' = {}
  /\ buried' = issued \cap Libs
  /\ req' = [r \in Requests |-> Idle]
  /\ UNCHANGED <<queues, issued>>

(***************************************************************************)
(* Members of groups and wrap-up codes of queues.                          *)
(***************************************************************************)

\* Mutant: the requests on queues check no more than those on groups.
PresentUnchecked(o) == TRUE

\* requireQueueExists; a group is not looked up.
Present(o) == o \in Groups \cup queues

ListStart(r, o, pc, batch) ==
  /\ req[r] = Idle
  /\ Present(o)
  /\ req' = [req EXCEPT ![r] = [pc |-> pc, owner |-> o, batch |-> batch, n |-> 0,
                                before |-> Listed(o), others |-> {}]]
  /\ UNCHANGED <<queues, issued, maps, lists, libs, buried>>

AddStart(r, o, batch) == ListStart(r, o, "add", batch)

\* A group's DELETE names several ids, a queue's one.
RemoveStart(r, o, batch) ==
  /\ o \in Queues => Len(batch) = 1
  /\ ListStart(r, o, "remove", batch)

\* The body of a POST of wrap-up codes turns out malformed; a group's POST
\* takes such a body for an empty one.
Reject(r) ==
  /\ req[r].pc = "add"
  /\ req[r].owner \in Queues
  /\ req[r].n = 0
  /\ Done(r)
  /\ UNCHANGED <<queues, issued, maps, lists, libs, buried>>

NextId(r) == req[r].batch[req[r].n + 1]

\* Request r is done with its next id, and every other request on the list
\* has been overtaken on that id.
Progress(r) ==
  req' = [s \in Requests |->
            IF s = r THEN [req[r] EXCEPT !.n = @ + 1]
            ELSE IF req[s].pc \in {"add", "remove"} /\ req[s].owner = req[r].owner
              THEN [req[s] EXCEPT !.others = @ \cup {NextId(r)}]
              ELSE req[s]]

\* Mutant: the id is appended without a look at the list.
AddOneUnchecked(r) ==
  LET o == req[r].owner
  IN /\ req[r].pc = "add"
     /\ req[r].n < Len(req[r].batch)
     /\ maps' = maps \cup {MapOf(o)}
     /\ lists' = [lists EXCEPT ![o] = Append(@, NextId(r))]
     /\ Progress(r)
     /\ UNCHANGED <<queues, issued, libs, buried>>

\* addGroupMember, addQueueWrapupCode.
AddOne(r) ==
  LET o == req[r].owner
  IN /\ req[r].pc = "add"
     /\ req[r].n < Len(req[r].batch)
     /\ maps' = maps \cup {MapOf(o)}
     /\ lists' = [lists EXCEPT ![o] = IF NextId(r) \in Listed(o) THEN @
                                      ELSE Append(@, NextId(r))]
     /\ Progress(r)
     /\ UNCHANGED <<queues, issued, libs, buried>>

\* Mutant: the loop that filters stops at the id.
RemoveOneAndRest(r) ==
  LET o == req[r].owner
      kept == {n \in DOMAIN lists[o] : \A m \in 1..n : lists[o][m] # NextId(r)}
  IN /\ req[r].pc = "remove"
     /\ req[r].n < Len(req[r].batch)
     /\ MapOf(o) \in maps
     /\ lists' = [lists EXCEPT ![o] = [n \in kept |-> lists[o][n]]]
     /\ Progress(r)
     /\ UNCHANGED <<queues, issued, maps, libs, buried>>

\* The list s without id i.  The loop drops every i; no list has two
\* (ListedOnce), so what stands behind it moves up by one.
Without(s, i) ==
  LET at == CHOOSE n \in DOMAIN s : s[n] = i
  IN IF \E n \in DOMAIN s : s[n] = i
       THEN [n \in 1..(Len(s) - 1) |-> IF n < at THEN s[n] ELSE s[n + 1]]
       ELSE s

\* removeGroupMember, removeQueueWrapupCode.
RemoveOne(r) ==
  LET o == req[r].owner
  IN /\ req[r].pc = "remove"
     /\ req[r].n < Len(req[r].batch)
     /\ MapOf(o) \in maps
     /\ lists' = [lists EXCEPT ![o] = Without(@, NextId(r))]
     /\ Progress(r)
     /\ UNCHANGED <<queues, issued, maps, libs, buried>>

\* The same on a map no add has made: the assignment panics, the deferred
\* unlock runs and the Recoverer answers 500.
RemovePanics(r) ==
  /\ req[r].pc = "remove"
  /\ req[r].n < Len(req[r].batch)
  /\ MapOf(req[r].owner) \notin maps
  /\ Done(r)
  /\ UNCHANGED <<queues, issued, maps, lists, libs, buried>>

\* The answer; that of a POST of wrap-up codes is a copy of the list.
BatchEnd(r) ==
  /\ req[r].pc \in {"add", "remove"}
  /\ req[r].n = Len(req[r].batch)
  /\ Done(r)
  /\ UNCHANGED <<queues, issued, maps, lists, libs, buried>>

\* GET of wrap-up codes; GET of a group's members is one critical section.
ReadStart(r, q) ==
  /\ req[r] = Idle
  /\ Present(q)
  /\ req' = [req EXCEPT ![r] = [pc |-> "read", owner |-> q]]
  /\ UNCHANGED <<queues, issued, maps, lists, libs, buried>>

Read(r) ==
  /\ req[r].pc = "read"
  /\ Done(r)
  /\ UNCHANGED <<queues, issued, maps, lists, libs, buried>>

(***************************************************************************)
(* Response libraries.  GET and the list are one critical section each.    *)
(***************************************************************************)
LibCreate(l) ==
  /\ l \notin issued
  /\ issued' = issued \cup {l}
  /\ libs' = libs \cup {l}
  /\ UNCHANGED <<queues, maps, lists, buried, req>>

\* Mutant: a library that is not there is updated all the same.
LibGetUnchecked(r, l) ==
  /\ req[r] = Idle
  /\ l \in issued
  /\ req' = [req EXCEPT ![r] = [pc |-> "store", lib |-> l]]
  /\ UNCHANGED <<queues, issued, maps, lists, libs, buried>>

\* PUT: a copy is taken; 404 for a library that is not there.
LibGet(r, l) ==
  /\ req[r] = Idle
  /\ l \in libs
  /\ req' = [req EXCEPT ![r] = [pc |-> "store", lib |-> l]]
  /\ UNCHANGED <<queues, issued, maps, lists, libs, buried>>

\* The patch is merged into the copy and stored, whatever is there by now.
LibStore(r) ==
  /\ req[r].pc = "store"
  /\ libs' = libs \cup {req[r].lib}
  /\ Done(r)
  /\ UNCHANGED <<queues, issued, maps, lists, buried>>

\* The patch turns out malformed.
LibReject(r) ==
  /\ req[r].pc = "store"
  /\ Done(r)
  /\ UNCHANGED <<queues, issued, maps, lists, libs, buried>>

\* An update that holds a copy of library l is in flight.
Held(l) == \E r \in Requests : req[r].pc = "store" /\ req[r].lib = l

\* DELETE: 204 whether or not the library is there.
LibDelete(l) ==
  /\ l \in issued
  /\ libs' = libs \ {l}
  /\ buried' = IF Held(l) THEN buried ELSE buried \cup {l}
  /\ UNCHANGED <<queues, issued, maps, lists, req>>

Next ==
  \/ \E q \in Queues : QueueCreate(q) \/ QueueDelete(q)
  \/ Reset \/ Restore \/ Restart
  \/ \E r \in Requests :
       \/ \E o \in Owners, batch \in Batches : AddStart(r, o, batch) \/ RemoveStart(r, o, batch)
       \/ Reject(r) \/ AddOne(r) \/ RemoveOne(r) \/ RemovePanics(r) \/ BatchEnd(r)
       \/ \E q \in Queues : ReadStart(r, q)
       \/ Read(r)
       \/ \E l \in Libs : LibGet(r, l)
       \/ LibStore(r) \/ LibReject(r)
  \/ \E l \in Libs : LibCreate(l) \/ LibDelete(l)

Spec == Init /\ [][Next]_vars

(***************************************************************************)
(* Safety.                                                                 *)
(***************************************************************************)

\* The ids that request r has dealt with so far.
DoneIds(r) == {req[r].batch[j] : j \in 1..req[r].n}

\* A request that adds or removes ids does that and no more: when it answers,
\* the list holds what it held before with these ids added, or removed, apart
\* from ids that other requests have touched meanwhile ("POST ... with N
\* member ids must cause GET ... to return entities of length N ... DELETE
\* removes only the targeted users", docs/contract-matrix-s123.md).
QuietBatchExact ==
  \A r \in Requests : req[r].pc \in {"add", "remove"} /\ req[r].n = Len(req[r].batch) =>
    \A i \in Items \ req[r].others :
      i \in Listed(req[r].owner) <=>
        IF i \in DoneIds(r) THEN req[r].pc = "add" ELSE i \in req[r].before

\* No id is listed twice, whichever requests add it at the same time.
ListedOnce ==
  \A o \in Owners : \A m, n \in DOMAIN lists[o] : lists[o][m] = lists[o][n] => m = n

\* A code is stored only for a queue that exists or has existed, so a queue
\* never starts with codes it was not given: although nothing removes the
\* entries of a deleted or reset queue, no new queue inherits them.
CodesHaveHadQueue == \A q \in Queues \ issued : lists[q] = <<>>

\* A library that was deleted while no update of it was in flight stays
\* deleted.  (One that was deleted under an update comes back with the store.)
BuriedStaysBuried == buried \cap libs = {}
=============================================================================
