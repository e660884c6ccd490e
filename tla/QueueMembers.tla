---------------------------- MODULE QueueMembers ----------------------------
(***************************************************************************)
(* Routing queues and their members (handlers/routing_queue.go), with the  *)
(* part of the users table and of Repository.Reset that they depend on.    *)
(*                                                                         *)
(* Members are rows keyed by queue and user with foreign keys to both and  *)
(* ON DELETE CASCADE.  The pool has one connection: a statement outside a  *)
(* transaction waits until no transaction is open, and the set replace of  *)
(* PATCH is the only handler that opens one.  A request that is refused    *)
(* without a state change (unknown queue, malformed body) is the same      *)
(* goroutine going back to idle, or no step at all.                        *)
(***************************************************************************)
EXTENDS Naturals, Sequences

CONSTANTS
  Requests,  \* goroutines serving requests at the same time
  Queues,    \* queue ids newID() may hand out
  Users,     \* user ids newID() may hand out
  Rings,     \* ring numbers a member may have
  Bodies,    \* bound: lists of members that requests carry
  Free       \* what conn is while no transaction is open

ASSUME RingsAssumption == Rings \subseteq Nat \ {0} /\ 1 \in Rings
ASSUME FreeAssumption == Free \notin Requests

\* 0 is the ring of a user that is not a member, and of an item without a
\* ringNumber.
None == 0
Ring == Rings \cup {None}

\* One item of a request body; an item without a user id is skipped by every
\* handler and left out here.
Item == [user: Users, ring: Ring]

ASSUME BodiesAssumption == Bodies \subseteq Seq(Item)

\* The ring that is stored for an item.
RingOf(m) == IF m.ring = 0 THEN 1 ELSE m.ring

MemberMap == [Users -> Ring]
NoMembers == [u \in Users |-> None]

VARIABLES
  queues,   \* ids in routing_queues
  users,    \* ids in users
  issued,   \* queue and user ids newID() has handed out
  members,  \* routing_queue_members: members[q][u] is a ring or None
  conn,     \* the request whose transaction holds the connection, or Free
  req       \* the request each goroutine is serving

vars == <<queues, users, issued, members, conn, req>>

\* "add" and "remove" are POST members without and with ?delete=true, "begin"
\* to "commit" PATCH members, "read" the second statement of GET queue and of
\* GET members, "reset0" to "reset2" the three DELETE FROMs of a reset.
Serving == {"add", "remove", "begin", "wipe", "fill", "commit", "read"}
Resetting == {"reset0", "reset1", "reset2"}
InTx == {"wipe", "fill", "commit"}

Idle == [pc |-> "idle"]

Request == [pc: Serving, queue: Queues, want: Seq(Item), todo: Seq(Item),
            draft: MemberMap]

TypeOK ==
  /\ queues \subseteq Queues
  /\ users \subseteq Users
  /\ issued \subseteq Queues \cup Users
  /\ members \in [Queues -> MemberMap]
  /\ conn \in Requests \cup {Free}
  /\ req \in [Requests -> Request \cup [pc: Resetting] \cup {Idle}]

Init ==
  /\ queues = {}
  /\ users = {}
  /\ issued = {}
  /\ members = [q \in Queues |-> NoMembers]
  /\ conn = Free
  /\ req = [r \in Requests |-> Idle]

\* Operators whose comment begins with Mutant are never used by the
\* specification: each is one bug in the definition below it.

Goto(r, pc) == req' = [req EXCEPT ![r].pc = pc]
\* Mutant: the fields of an answered request are left behind.
DoneKeepingFields(r) == req' = [req EXCEPT ![r].pc = "idle"]

Done(r) == req' = [req EXCEPT ![r] = Idle]

\* The foreign keys accept a member row of user u in queue q.
KeysHold(q, u) == q \in queues /\ u \in users

(***************************************************************************)
(* Rows the members refer to.                                              *)
(***************************************************************************)
UserCreate(u) ==
  /\ conn = Free
  /\ u \notin issued
  /\ users' = users \cup {u}
  /\ issued' = issued \cup {u}
  /\ UNCHANGED <<queues, members, conn, req>>

QueueCreate(q) ==
  /\ conn = Free
  /\ q \notin issued
  /\ queues' = queues \cup {q}
  /\ issued' = issued \cup {q}
  /\ UNCHANGED <<users, members, conn, req>>

\* Mutant: the schema lacks ON DELETE CASCADE.
QueueDeleteAlone(q) ==
  /\ conn = Free
  /\ q \in queues
  /\ queues' = queues \ {q}
  /\ UNCHANGED <<users, issued, members, conn, req>>

\* DELETE FROM routing_queues WHERE id, and the cascade.
QueueDelete(q) ==
  /\ conn = Free
  /\ q \in queues
  /\ queues' = queues \ {q}
  /\ members' = [members EXCEPT ![q] = NoMembers]
  /\ UNCHANGED <<users, issued, conn, req>>

(***************************************************************************)
(* Requests on the members of a queue start with requireQueueExists.       *)
(***************************************************************************)
Start(r, q, pc, want) ==
  /\ req[r] = Idle
  /\ conn = Free
  /\ q \in queues
  /\ req' = [req EXCEPT ![r] = [pc |-> pc, queue |-> q, want |-> want,
                                todo |-> want, draft |-> NoMembers]]
  /\ UNCHANGED <<queues, users, issued, members, conn>>

AddStart(r, q, want) == Start(r, q, "add", want)
RemoveStart(r, q, want) == Start(r, q, "remove", want)
ReplaceStart(r, q, want) == Start(r, q, "begin", want)
ReadStart(r, q) == Start(r, q, "read", <<>>)

\* The body turns out malformed.
Reject(r) ==
  /\ req[r].pc \in {"add", "remove", "begin"}
  /\ req[r].todo = req[r].want
  /\ Done(r)
  /\ UNCHANGED <<queues, users, issued, members, conn>>

\* SELECT ... FROM routing_queue_members, or its COUNT(*).
Read(r) ==
  /\ req[r].pc = "read"
  /\ conn = Free
  /\ Done(r)
  /\ UNCHANGED <<queues, users, issued, members, conn>>

\* INSERT OR REPLACE of the next item; a foreign-key error ends the request
\* and keeps the items before it.
AddOne(r) ==
  LET q == req[r].queue
      m == Head(req[r].todo)
  IN /\ req[r].pc = "add"
     /\ req[r].todo # <<>>
     /\ conn = Free
     /\ IF KeysHold(q, m.user)
          THEN /\ members' = [members EXCEPT ![q][m.user] = RingOf(m)]
               /\ req' = [req EXCEPT ![r].todo = Tail(@)]
          ELSE Done(r) /\ UNCHANGED members
     /\ UNCHANGED <<queues, users, issued, conn>>

\* DELETE of the next item; no such row is no error.
RemoveOne(r) ==
  LET q == req[r].queue
      m == Head(req[r].todo)
  IN /\ req[r].pc = "remove"
     /\ req[r].todo # <<>>
     /\ conn = Free
     /\ members' = [members EXCEPT ![q][m.user] = None]
     /\ req' = [req EXCEPT ![r].todo = Tail(@)]
     /\ UNCHANGED <<queues, users, issued, conn>>

BatchEnd(r) ==
  /\ req[r].pc \in {"add", "remove"}
  /\ req[r].todo = <<>>
  /\ Done(r)
  /\ UNCHANGED <<queues, users, issued, members, conn>>

(***************************************************************************)
(* PATCH members: a transaction on the one connection.  draft is what the  *)
(* transaction sees of the queue's members.                                *)
(***************************************************************************)
Begin(r) ==
  /\ req[r].pc = "begin"
  /\ conn = Free
  /\ conn' = r
  /\ Goto(r, "wipe")
  /\ UNCHANGED <<queues, users, issued, members>>

\* Mutant: the DELETE goes to the database, past the transaction.
WipeOutsideTx(r) ==
  /\ req[r].pc = "wipe"
  /\ members' = [members EXCEPT ![req[r].queue] = NoMembers]
  /\ Goto(r, "fill")
  /\ UNCHANGED <<queues, users, issued, conn>>

Wipe(r) ==
  /\ req[r].pc = "wipe"
  /\ req' = [req EXCEPT ![r].pc = "fill", ![r].draft = NoMembers]
  /\ UNCHANGED <<queues, users, issued, members, conn>>

\* Mutant: an INSERT that fails is skipped.
FillOneOrSkip(r) ==
  LET m == Head(req[r].todo)
  IN /\ req[r].pc = "fill"
     /\ req[r].todo # <<>>
     /\ req' = [req EXCEPT ![r].todo = Tail(@),
                           ![r].draft[m.user] = IF KeysHold(req[r].queue, m.user)
                                                  THEN RingOf(m) ELSE @]
     /\ UNCHANGED <<queues, users, issued, members, conn>>

\* INSERT of the next item; a user listed twice violates the primary key.
FillOne(r) ==
  LET q == req[r].queue
      m == Head(req[r].todo)
  IN /\ req[r].pc = "fill"
     /\ req[r].todo # <<>>
     /\ KeysHold(q, m.user)
     /\ req[r].draft[m.user] = None
     /\ req' = [req EXCEPT ![r].draft[m.user] = RingOf(m), ![r].todo = Tail(@)]
     /\ UNCHANGED <<queues, users, issued, members, conn>>

\* Mutant: no Rollback is deferred.
RollbackForgotten(r) ==
  LET m == Head(req[r].todo)
  IN /\ req[r].pc = "fill"
     /\ req[r].todo # <<>>
     /\ ~KeysHold(req[r].queue, m.user) \/ req[r].draft[m.user] # None
     /\ Done(r)
     /\ UNCHANGED <<queues, users, issued, members, conn>>

\* Mutant: a transaction whose INSERT fails is tried again.
RollbackRetrying(r) ==
  LET m == Head(req[r].todo)
  IN /\ req[r].pc = "fill"
     /\ req[r].todo # <<>>
     /\ ~KeysHold(req[r].queue, m.user) \/ req[r].draft[m.user] # None
     /\ req' = [req EXCEPT ![r].pc = "begin", ![r].todo = req[r].want]
     /\ conn' = Free
     /\ UNCHANGED <<queues, users, issued, members>>

\* The INSERT fails: the deferred Rollback gives the connection back.
Rollback(r) ==
  LET q == req[r].queue
      m == Head(req[r].todo)
  IN /\ req[r].pc = "fill"
     /\ req[r].todo # <<>>
     /\ ~KeysHold(q, m.user) \/ req[r].draft[m.user] # None
     /\ Done(r)
     /\ conn' = Free
     /\ UNCHANGED <<queues, users, issued, members>>

FillEnd(r) ==
  /\ req[r].pc = "fill"
  /\ req[r].todo = <<>>
  /\ Goto(r, "commit")
  /\ UNCHANGED <<queues, users, issued, members, conn>>

Commit(r) ==
  /\ req[r].pc = "commit"
  /\ members' = [members EXCEPT ![req[r].queue] = req[r].draft]
  /\ conn' = Free
  /\ Done(r)
  /\ UNCHANGED <<queues, users, issued>>

(***************************************************************************)
(* Repository.Reset, in the order of managedTables: users (cascading to    *)
(* members), routing_queues (cascading too), routing_queue_members.        *)
(***************************************************************************)
ResetStart(r) ==
  /\ req[r] = Idle
  /\ req' = [req EXCEPT ![r] = [pc |-> "reset0"]]
  /\ UNCHANGED <<queues, users, issued, members, conn>>

ResetUsers(r) ==
  /\ req[r].pc = "reset0"
  /\ conn = Free
  /\ users' = {}
  /\ members' = [q \in Queues |-> NoMembers]
  /\ Goto(r, "reset1")
  /\ UNCHANGED <<queues, issued, conn>>

ResetQueues(r) ==
  /\ req[r].pc = "reset1"
  /\ conn = Free
  /\ queues' = {}
  /\ members' = [q \in Queues |-> NoMembers]
  /\ Goto(r, "reset2")
  /\ UNCHANGED <<users, issued, conn>>

ResetMembers(r) ==
  /\ req[r].pc = "reset2"
  /\ conn = Free
  /\ members' = [q \in Queues |-> NoMembers]
  /\ Done(r)
  /\ UNCHANGED <<queues, users, issued, conn>>

\* The next statement of a request that has started.
Step(r) ==
  \/ Read(r)
  \/ AddOne(r) \/ RemoveOne(r) \/ BatchEnd(r)
  \/ Begin(r) \/ Wipe(r) \/ FillOne(r) \/ Rollback(r) \/ FillEnd(r) \/ Commit(r)
  \/ ResetUsers(r) \/ ResetQueues(r) \/ ResetMembers(r)

Next ==
  \/ \E u \in Users : UserCreate(u)
  \/ \E q \in Queues : QueueCreate(q) \/ QueueDelete(q)
  \/ \E r \in Requests :
       \/ \E q \in Queues, want \in Bodies :
            AddStart(r, q, want) \/ RemoveStart(r, q, want) \/ ReplaceStart(r, q, want)
       \/ \E q \in Queues : ReadStart(r, q)
       \/ Reject(r)
       \/ ResetStart(r)
       \/ Step(r)

Spec == Init /\ [][Next]_vars

\* database/sql hands a connection that is given back to a request waiting for
\* it, so a goroutine that keeps finding it free in turns is not passed over
\* for ever.
FairSpec == Spec /\ \A r \in Requests : SF_vars(Step(r))

(***************************************************************************)
(* Safety.                                                                 *)
(***************************************************************************)

\* Every member row refers to a queue and a user that exist: whatever is
\* deleted or reset between the existence check of a request and its writes,
\* and while a transaction is open.
ForeignKeysHold ==
  \A q \in Queues, u \in Users : members[q][u] # None => KeysHold(q, u)

\* The ring the batch gives user u.
RingIn(want, u) ==
  IF \E n \in DOMAIN want : want[n].user = u
    THEN RingOf(want[CHOOSE n \in DOMAIN want : want[n].user = u])
    ELSE None

Wanted(want) == [u \in Users |-> RingIn(want, u)]

\* What a PATCH is about to commit is the set its body asked for, whole, and
\* every row of it is one the foreign keys accept.
CommitsWhatWasAsked ==
  \A r \in Requests : req[r].pc = "commit" =>
    /\ req[r].draft = Wanted(req[r].want)
    /\ \A u \in Users : req[r].draft[u] # None => KeysHold(req[r].queue, u)

\* The connection is held by the request that is inside a transaction and by
\* no other; the paths out of the transaction all give it back.
ConnectionHeldInTx ==
  \A r \in Requests : conn = r <=> req[r].pc \in InTx

\* What a request has ahead of it at most: its statements, with the answer of a
\* batch, and one turn of the loop for every item.
Ahead ==
  [idle |-> 0, read |-> 1, add |-> 1, remove |-> 1,
   begin |-> 4, wipe |-> 3, fill |-> 2, commit |-> 1,
   reset0 |-> 3, reset1 |-> 2, reset2 |-> 1]
Left(q) == Ahead[q.pc] + (IF q.pc \in Serving THEN Len(q.todo) ELSE 0)

\* Once a request has started, each of its steps leaves it less to do, whatever
\* it finds in the tables, and no step of another touches it: no loop and no
\* error path goes back, and a request that keeps being served ends.
StatementsRunOut ==
  [][\A r \in Requests :
       req[r] # Idle /\ req'[r] # req[r] => Left(req'[r]) < Left(req[r])]_vars

(***************************************************************************)
(* Refinement of MemberSets.                                               *)
(***************************************************************************)
NoWant == <<>>

AbstractWant ==
  [r \in Requests |->
     IF req[r].pc \in {"begin"} \cup InTx
       THEN [queue |-> req[r].queue, members |-> Wanted(req[r].want)]
       ELSE NoWant]

Sets == INSTANCE MemberSets WITH
  want <- AbstractWant,
  resets <- {r \in Requests : req[r].pc \in Resetting}

\* The handlers keep the promise of MemberSets: no PATCH is ever seen half
\* done, and the rest change one member or cascade.
ImplementsMemberSets == Sets!Spec

(***************************************************************************)
(* Liveness.                                                               *)
(***************************************************************************)

\* Every request that has started is answered: nothing waits for ever for the
\* one connection.
EveryRequestAnswered == \A r \in Requests : req[r].pc # "idle" ~> req[r].pc = "idle"
=============================================================================
