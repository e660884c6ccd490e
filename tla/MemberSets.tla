----------------------------- MODULE MemberSets -----------------------------
(***************************************************************************)
(* What the members endpoints promise, with no statement, transaction or   *)
(* connection in sight: a member row always refers to a queue and a user   *)
(* that exist, POST changes one member at a time, and PATCH installs the   *)
(* whole set it was given in one step or leaves the set alone              *)
(* (docs/spec-notes/routing.md:22).                                        *)
(***************************************************************************)
EXTENDS Naturals

CONSTANTS Requests, Queues, Users, Rings, None, NoWant

MemberMap == [Users -> Rings \cup {None}]
NoMembers == [u \in Users |-> None]

VARIABLES
  queues,   \* queues that exist
  users,    \* users that exist
  members,  \* members[q][u]: the ring of u in q, or None
  want,     \* want[r]: the set that a pending PATCH is to install
  resets    \* requests that are resetting the server

vars == <<queues, users, members, want, resets>>

Init ==
  /\ queues = {}
  /\ users = {}
  /\ members = [q \in Queues |-> NoMembers]
  /\ want = [r \in Requests |-> NoWant]
  /\ resets = {}

AddUser(u) == users' = users \cup {u} /\ UNCHANGED <<queues, members, want, resets>>

AddQueue(q) == queues' = queues \cup {q} /\ UNCHANGED <<users, members, want, resets>>

DropQueue(q) ==
  /\ queues' = queues \ {q}
  /\ members' = [members EXCEPT ![q] = NoMembers]
  /\ UNCHANGED <<users, want, resets>>

Put(q, u, ring) ==
  /\ q \in queues
  /\ u \in users
  /\ members' = [members EXCEPT ![q][u] = ring]
  /\ UNCHANGED <<queues, users, want, resets>>

Take(q, u) ==
  /\ members' = [members EXCEPT ![q][u] = None]
  /\ UNCHANGED <<queues, users, want, resets>>

Ask(r, q, m) ==
  /\ q \in queues
  /\ want[r] = NoWant
  /\ want' = [want EXCEPT ![r] = [queue |-> q, members |-> m]]
  /\ UNCHANGED <<queues, users, members, resets>>

Install(r) ==
  /\ want[r] # NoWant
  /\ \A u \in Users : want[r].members[u] # None => want[r].queue \in queues /\ u \in users
  /\ members' = [members EXCEPT ![want[r].queue] = want[r].members]
  /\ want' = [want EXCEPT ![r] = NoWant]
  /\ UNCHANGED <<queues, users, resets>>

Refuse(r) ==
  /\ want[r] # NoWant
  /\ want' = [want EXCEPT ![r] = NoWant]
  /\ UNCHANGED <<queues, users, members, resets>>

ResetBegin(r) ==
  /\ resets' = resets \cup {r}
  /\ UNCHANGED <<queues, users, members, want>>

\* A reset empties users, queues and members one after the other.
ResetSome(r) ==
  /\ r \in resets
  /\ members' = [q \in Queues |-> NoMembers]
  /\ \/ users' = {} /\ UNCHANGED <<queues, resets>>
     \/ queues' = {} /\ UNCHANGED <<users, resets>>
     \/ resets' = resets \ {r} /\ UNCHANGED <<queues, users>>
  /\ UNCHANGED want

Next ==
  \/ \E u \in Users : AddUser(u)
  \/ \E q \in Queues : AddQueue(q) \/ DropQueue(q)
  \/ \E q \in Queues, u \in Users, ring \in Rings : Put(q, u, ring) \/ Take(q, u)
  \/ \E r \in Requests :
       \/ \E q \in Queues, m \in MemberMap : Ask(r, q, m)
       \/ Install(r) \/ Refuse(r)
       \/ ResetBegin(r) \/ ResetSome(r)

Spec == Init /\ [][Next]_vars
=============================================================================
