------------------------ MODULE QueueMembers_proofs ------------------------
(***************************************************************************)
(* Proofs about QueueMembers, for any number of requests, queues and users *)
(* and batches of any length.                                              *)
(***************************************************************************)
EXTENDS QueueMembers, SequenceTheorems, TLAPS

(***************************************************************************)
(* The inductive invariant.                                                *)
(***************************************************************************)
\* A set replace has not touched its items before the wipe.
NothingFilled(r) == req[r].pc \in {"begin", "wipe"} => req[r].todo = req[r].want

\* What a transaction has inserted refers to rows that exist; nothing else can
\* run until it ends, so they still exist when it commits.
DraftKeysHold(r) ==
  req[r].pc \in {"fill", "commit"} =>
    \A u \in Users : req[r].draft[u] # None => KeysHold(req[r].queue, u)

\* A transaction that has the items todo of the body want left has inserted
\* the items before them, and nothing else.
Follows(draft, want, todo) ==
  LET n == Len(want) - Len(todo)
  IN /\ n \in Nat
     /\ \A k \in 1..Len(todo) : todo[k] = want[n + k]
     /\ \A k \in 1..n : draft[want[k].user] = RingOf(want[k])
     /\ \A u \in Users : draft[u] # None => \E k \in 1..n : want[k].user = u

DraftFollowsWant(r) ==
  /\ req[r].pc \in {"fill", "commit"} => Follows(req[r].draft, req[r].want, req[r].todo)
  /\ req[r].pc = "commit" => req[r].todo = <<>>

DraftOK(r) == NothingFilled(r) /\ DraftKeysHold(r) /\ DraftFollowsWant(r)

IInv ==
  /\ TypeOK
  /\ ConnectionHeldInTx
  /\ \A r \in Requests : DraftOK(r)
  /\ ForeignKeysHold

(***************************************************************************)
(* Type correctness.                                                       *)
(***************************************************************************)
LEMMA BatchType ==
  ASSUME NEW want \in Bodies
  PROVE  want \in Seq(Item)
BY BodiesAssumption

LEMMA RequestType ==
  ASSUME TypeOK, NEW r \in Requests
  PROVE  /\ req[r].pc \in Serving => req[r] \in Request
         /\ req[r].pc \in {"idle"} \cup Resetting \cup Serving
         /\ req[r].pc = "idle" => req[r] = Idle
         /\ req[r].pc \in Resetting => req[r] = [pc |-> req[r].pc]
BY DEF TypeOK, Request, Idle, Resetting, Serving

\* The fields of a request that is serving the members of a queue.
LEMMA ServingType ==
  ASSUME TypeOK, NEW r \in Requests, req[r].pc \in Serving
  PROVE  /\ req[r] = [pc |-> req[r].pc, queue |-> req[r].queue, want |-> req[r].want,
                      todo |-> req[r].todo, draft |-> req[r].draft]
         /\ req[r].queue \in Queues
         /\ req[r].want \in Seq(Item)
         /\ req[r].todo \in Seq(Item)
         /\ req[r].draft \in MemberMap
BY RequestType DEF Request

\* The ring stored for an item is one, never the mark of a missing member.
LEMMA RingOfType ==
  ASSUME NEW m \in Item
  PROVE  m.user \in Users /\ RingOf(m) \in Rings /\ RingOf(m) \in Nat \ {0}
BY RingsAssumption DEF Item, Ring, None, RingOf

\* The item at the head of what is left to do, and the rest.
LEMMA HeadType ==
  ASSUME NEW s \in Seq(Item), s # <<>>
  PROVE  /\ Head(s).user \in Users
         /\ RingOf(Head(s)) \in Rings
         /\ RingOf(Head(s)) \in Nat \ {0}
         /\ Tail(s) \in Seq(Item)
<1>1. Head(s) \in Item /\ Tail(s) \in Seq(Item)
  OBVIOUS
<1> QED BY <1>1, RingOfType

\* Changing one ring of a member map gives a member map.
LEMMA MapType ==
  ASSUME NEW m \in MemberMap, NEW u \in Users, NEW ring \in Ring
  PROVE  [m EXCEPT ![u] = ring] \in MemberMap
BY DEF MemberMap

LEMMA NoMembersType == NoMembers \in MemberMap
BY DEF NoMembers, MemberMap, Ring

LEMMA StartType ==
  ASSUME TypeOK, NEW r \in Requests, NEW q \in Queues, NEW want \in Seq(Item),
         NEW pc \in Serving, Start(r, q, pc, want)
  PROVE  TypeOK'
<1>1. [pc |-> pc, queue |-> q, want |-> want, todo |-> want, draft |-> NoMembers] \in Request
  BY NoMembersType DEF Request
<1> QED BY <1>1 DEF Start, TypeOK

LEMMA TypeStep == TypeOK /\ [Next]_vars => TypeOK'
<1> SUFFICES ASSUME TypeOK, [Next]_vars PROVE TypeOK'
  OBVIOUS
<1>1. ASSUME NEW u \in Users, UserCreate(u) PROVE TypeOK'
  BY <1>1 DEF UserCreate, TypeOK
<1>2. ASSUME NEW q \in Queues, QueueCreate(q) PROVE TypeOK'
  BY <1>2 DEF QueueCreate, TypeOK
<1>3. ASSUME NEW q \in Queues, QueueDelete(q) PROVE TypeOK'
  BY <1>3, NoMembersType DEF QueueDelete, TypeOK
<1>4. ASSUME NEW r \in Requests, NEW q \in Queues, NEW want \in Bodies,
             AddStart(r, q, want) \/ RemoveStart(r, q, want) \/ ReplaceStart(r, q, want)
      PROVE  TypeOK'
  BY <1>4, BatchType, StartType DEF AddStart, RemoveStart, ReplaceStart, Serving
<1>5. ASSUME NEW r \in Requests, NEW q \in Queues, ReadStart(r, q) PROVE TypeOK'
  <2>1. <<>> \in Seq(Item)
    OBVIOUS
  <2> QED BY <1>5, <2>1, StartType DEF ReadStart, Serving
<1>6. ASSUME NEW r \in Requests, Done(r), UNCHANGED <<queues, users, issued, members, conn>>
      PROVE  TypeOK'
  BY <1>6 DEF Done, TypeOK
<1>7. ASSUME NEW r \in Requests, Reject(r) \/ Read(r) \/ BatchEnd(r) PROVE TypeOK'
  BY <1>6, <1>7 DEF Reject, Read, BatchEnd
<1>8. ASSUME NEW r \in Requests, ResetStart(r) PROVE TypeOK'
  BY <1>8 DEF ResetStart, TypeOK, Resetting
<1>9. ASSUME NEW r \in Requests, AddOne(r) PROVE TypeOK'
  <2>1. CASE KeysHold(req[r].queue, Head(req[r].todo).user)
    <3> DEFINE q == req[r].queue
               m == Head(req[r].todo)
    <3>1. req[r].pc = "add" /\ req[r].pc \in Serving
      BY <1>9 DEF AddOne, Serving
    <3>2. m.user \in Users /\ RingOf(m) \in Ring /\ Tail(req[r].todo) \in Seq(Item)
      BY <1>9, <3>1, ServingType, HeadType DEF AddOne, Ring
    <3>3. members' = [members EXCEPT ![q][m.user] = RingOf(m)]
          /\ req' = [req EXCEPT ![r].todo = Tail(req[r].todo)]
      BY <1>9, <2>1 DEF AddOne
    <3>4. members' \in [Queues -> MemberMap]
      BY <3>1, <3>2, <3>3, ServingType, MapType DEF TypeOK
    <3>5. [req[r] EXCEPT !.todo = Tail(req[r].todo)] \in Request
      BY <3>1, <3>2, RequestType DEF Request
    <3> QED BY <1>9, <3>3, <3>4, <3>5 DEF AddOne, TypeOK
  <2>2. CASE ~KeysHold(req[r].queue, Head(req[r].todo).user)
    BY <1>6, <1>9, <2>2 DEF AddOne
  <2> QED BY <2>1, <2>2
<1>10. ASSUME NEW r \in Requests, RemoveOne(r) PROVE TypeOK'
  <2> DEFINE q == req[r].queue
             m == Head(req[r].todo)
  <2>1. req[r].pc = "remove" /\ req[r].pc \in Serving
    BY <1>10 DEF RemoveOne, Serving
  <2>2. m.user \in Users /\ None \in Ring /\ Tail(req[r].todo) \in Seq(Item)
    BY <1>10, <2>1, ServingType, HeadType DEF RemoveOne, Ring
  <2>3. members' = [members EXCEPT ![q][m.user] = None]
        /\ req' = [req EXCEPT ![r].todo = Tail(req[r].todo)]
    BY <1>10 DEF RemoveOne
  <2>4. members' \in [Queues -> MemberMap]
    BY <2>1, <2>2, <2>3, ServingType, MapType DEF TypeOK
  <2>5. [req[r] EXCEPT !.todo = Tail(req[r].todo)] \in Request
    BY <2>1, <2>2, RequestType DEF Request
  <2> QED BY <1>10, <2>3, <2>4, <2>5 DEF RemoveOne, TypeOK
<1>11. ASSUME NEW r \in Requests, NEW pc \in Serving, req[r].pc \in Serving, Goto(r, pc)
       PROVE  req' \in [Requests -> Request \cup [pc: Resetting] \cup {Idle}]
  <2>1. [req[r] EXCEPT !.pc = pc] \in Request
    BY <1>11, RequestType DEF Request
  <2> QED BY <1>11, <2>1 DEF Goto, TypeOK
<1>12. ASSUME NEW r \in Requests, Begin(r) \/ FillEnd(r) PROVE TypeOK'
  BY <1>11, <1>12 DEF Begin, FillEnd, TypeOK, Serving
<1>13. ASSUME NEW r \in Requests, Wipe(r) PROVE TypeOK'
  <2>1. [req[r] EXCEPT !.pc = "fill", !.draft = NoMembers] \in Request
    BY <1>13, RequestType, NoMembersType DEF Wipe, Request, Serving
  <2>2. req' = [req EXCEPT ![r] = [req[r] EXCEPT !.pc = "fill", !.draft = NoMembers]]
    BY <1>13 DEF Wipe, TypeOK
  <2> QED BY <1>13, <2>1, <2>2 DEF Wipe, TypeOK
<1>14. ASSUME NEW r \in Requests, FillOne(r) PROVE TypeOK'
  <2> DEFINE m == Head(req[r].todo)
             new == [req[r].draft EXCEPT ![m.user] = RingOf(m)]
  <2>1. req[r].pc = "fill" /\ req[r].pc \in Serving
    BY <1>14 DEF FillOne, Serving
  <2>2. m.user \in Users /\ RingOf(m) \in Ring /\ Tail(req[r].todo) \in Seq(Item)
    BY <1>14, <2>1, ServingType, HeadType DEF FillOne, Ring
  <2>3. new \in MemberMap
    BY <2>1, <2>2, ServingType, MapType
  <2>4. [req[r] EXCEPT !.draft = new, !.todo = Tail(req[r].todo)] \in Request
    BY <2>1, <2>2, <2>3, RequestType DEF Request
  <2>5. req' = [req EXCEPT ![r] = [req[r] EXCEPT !.draft = new, !.todo = Tail(req[r].todo)]]
    BY <1>14 DEF FillOne, TypeOK
  <2> QED BY <1>14, <2>4, <2>5 DEF FillOne, TypeOK
<1>15. ASSUME NEW r \in Requests, Rollback(r) PROVE TypeOK'
  BY <1>15 DEF Rollback, Done, TypeOK
<1>16. ASSUME NEW r \in Requests, Commit(r) PROVE TypeOK'
  <2>1. req[r].draft \in MemberMap
    BY <1>16, ServingType DEF Commit, Serving
  <2> QED BY <1>16, <2>1 DEF Commit, Done, TypeOK
<1>17. [q \in Queues |-> NoMembers] \in [Queues -> MemberMap]
  BY NoMembersType
<1>18. ASSUME NEW r \in Requests, req[r].pc \in Resetting, NEW pc \in Resetting, Goto(r, pc)
       PROVE  req' \in [Requests -> Request \cup [pc: Resetting] \cup {Idle}]
  <2>1. [req[r] EXCEPT !.pc = pc] \in [pc: Resetting]
    BY <1>18, RequestType
  <2> QED BY <1>18, <2>1 DEF Goto, TypeOK
<1>19. ASSUME NEW r \in Requests, ResetUsers(r) PROVE TypeOK'
  BY <1>17, <1>18, <1>19 DEF ResetUsers, TypeOK, Resetting
<1>20. ASSUME NEW r \in Requests, ResetQueues(r) PROVE TypeOK'
  BY <1>17, <1>18, <1>20 DEF ResetQueues, TypeOK, Resetting
<1>21. ASSUME NEW r \in Requests, ResetMembers(r) PROVE TypeOK'
  BY <1>17, <1>21 DEF ResetMembers, Done, TypeOK
<1>22. CASE UNCHANGED vars
  BY <1>22 DEF vars, TypeOK
<1> QED
  BY <1>1, <1>2, <1>3, <1>4, <1>5, <1>7, <1>8, <1>9, <1>10, <1>12, <1>13, <1>14,
     <1>15, <1>16, <1>19, <1>20, <1>21, <1>22
     DEF Next, Step

\* Every variable keeps its type, whatever requests run side by side.
THEOREM TypeCorrect == Spec => []TypeOK
<1>1. Init => TypeOK
  BY NoMembersType DEF Init, TypeOK
<1> QED BY <1>1, TypeStep, PTL DEF Spec

(***************************************************************************)
(* The connection.                                                         *)
(***************************************************************************)
\* The pc a step leaves each request at.
LEMMA GotoPc ==
  ASSUME TypeOK, NEW r \in Requests, NEW pc, Goto(r, pc), req[r].pc # "idle"
  PROVE  req'[r].pc = pc /\ \A q \in Requests \ {r} : req'[q] = req[q]
<1>1. req[r].pc \in Serving => [req[r] EXCEPT !.pc = pc].pc = pc
  BY RequestType DEF Request
<1>2. req[r].pc \in Resetting => [req[r] EXCEPT !.pc = pc].pc = pc
  BY RequestType
<1> QED BY <1>1, <1>2, RequestType DEF Goto, TypeOK

LEMMA DonePc ==
  ASSUME TypeOK, NEW r \in Requests, Done(r)
  PROVE  req'[r].pc = "idle" /\ \A q \in Requests \ {r} : req'[q] = req[q]
BY DEF Done, Idle, TypeOK

LEMMA StartPc ==
  ASSUME TypeOK, NEW r \in Requests, NEW q \in Queues, NEW want, NEW pc,
         Start(r, q, pc, want)
  PROVE  /\ req[r].pc = "idle"
         /\ req'[r].pc = pc
         /\ req'[r].queue = q /\ req'[r].want = want /\ req'[r].todo = want
         /\ \A p \in Requests \ {r} : req'[p] = req[p]
         /\ UNCHANGED conn
BY DEF Start, Idle, TypeOK

\* The items a step leaves to do, with the rest of the request.
LEMMA AddOnePc ==
  ASSUME TypeOK, NEW r \in Requests, AddOne(r) \/ RemoveOne(r)
  PROVE  /\ req[r].pc \in {"add", "remove"}
         /\ req'[r].pc \in {"add", "remove", "idle"}
         /\ \A q \in Requests \ {r} : req'[q] = req[q]
         /\ UNCHANGED conn
<1>1. [req[r] EXCEPT !.todo = Tail(req[r].todo)].pc = req[r].pc
  BY RequestType DEF AddOne, RemoveOne, Request, Serving
<1> QED BY <1>1, DonePc DEF AddOne, RemoveOne, TypeOK

LEMMA WipePc ==
  ASSUME TypeOK, NEW r \in Requests, Wipe(r)
  PROVE  /\ req[r].pc = "wipe"
         /\ req'[r].pc = "fill" /\ req'[r].draft = NoMembers
         /\ req'[r].queue = req[r].queue
         /\ req'[r].want = req[r].want /\ req'[r].todo = req[r].todo
         /\ \A q \in Requests \ {r} : req'[q] = req[q]
<1> DEFINE new == [req[r] EXCEPT !.pc = "fill", !.draft = NoMembers]
<1>1. /\ new.pc = "fill" /\ new.draft = NoMembers /\ new.queue = req[r].queue
      /\ new.want = req[r].want /\ new.todo = req[r].todo
  BY RequestType DEF Wipe, Request, Serving
<1>2. req' = [req EXCEPT ![r] = new]
  BY DEF Wipe, TypeOK
<1> HIDE DEF new
<1> QED BY <1>1, <1>2 DEF Wipe, TypeOK

LEMMA FillOnePc ==
  ASSUME TypeOK, NEW r \in Requests, FillOne(r)
  PROVE  /\ req[r].pc = "fill" /\ req'[r].pc = "fill"
         /\ req'[r].queue = req[r].queue /\ req'[r].want = req[r].want
         /\ req'[r].todo = Tail(req[r].todo)
         /\ req'[r].draft = [req[r].draft EXCEPT ![Head(req[r].todo).user] =
                                                   RingOf(Head(req[r].todo))]
         /\ \A q \in Requests \ {r} : req'[q] = req[q]
<1> DEFINE draft == [req[r].draft EXCEPT ![Head(req[r].todo).user] = RingOf(Head(req[r].todo))]
           new == [req[r] EXCEPT !.draft = draft, !.todo = Tail(req[r].todo)]
<1>1. /\ new.pc = req[r].pc /\ new.draft = draft /\ new.queue = req[r].queue
      /\ new.want = req[r].want /\ new.todo = Tail(req[r].todo)
  <2> HIDE DEF draft
  <2> QED BY RequestType DEF FillOne, Request, Serving
<1>2. req' = [req EXCEPT ![r] = new]
  BY DEF FillOne, TypeOK
<1> HIDE DEF new
<1> QED BY <1>1, <1>2 DEF FillOne, TypeOK

\* The connection goes to a request as its transaction begins and is given
\* back on every path out of it.
LEMMA ConnectionStep ==
  TypeOK /\ ConnectionHeldInTx /\ [Next]_vars => ConnectionHeldInTx'
<1> SUFFICES ASSUME TypeOK, ConnectionHeldInTx, [Next]_vars PROVE ConnectionHeldInTx'
  OBVIOUS
<1> USE DEF ConnectionHeldInTx, InTx
<1>1. ASSUME UNCHANGED <<conn, req>> PROVE ConnectionHeldInTx'
  BY <1>1
<1>2. ASSUME NEW u \in Users, UserCreate(u) PROVE ConnectionHeldInTx'
  BY <1>1, <1>2 DEF UserCreate
<1>3. ASSUME NEW q \in Queues, QueueCreate(q) \/ QueueDelete(q) PROVE ConnectionHeldInTx'
  BY <1>1, <1>3 DEF QueueCreate, QueueDelete
<1>4. ASSUME NEW r \in Requests, NEW q \in Queues, NEW want \in Bodies,
             AddStart(r, q, want) \/ RemoveStart(r, q, want) \/ ReplaceStart(r, q, want)
      PROVE  ConnectionHeldInTx'
  BY <1>4, StartPc DEF AddStart, RemoveStart, ReplaceStart
<1>5. ASSUME NEW r \in Requests, NEW q \in Queues, ReadStart(r, q) PROVE ConnectionHeldInTx'
  BY <1>5, StartPc DEF ReadStart
<1>6. ASSUME NEW r \in Requests, Reject(r) \/ Read(r) \/ BatchEnd(r) PROVE ConnectionHeldInTx'
  BY <1>6, DonePc DEF Reject, Read, BatchEnd
<1>7. ASSUME NEW r \in Requests, ResetStart(r) PROVE ConnectionHeldInTx'
  BY <1>7 DEF ResetStart, Idle, TypeOK
<1>8. ASSUME NEW r \in Requests, AddOne(r) \/ RemoveOne(r) PROVE ConnectionHeldInTx'
  BY <1>8, AddOnePc
<1>9. ASSUME NEW r \in Requests, Begin(r) PROVE ConnectionHeldInTx'
  BY <1>9, GotoPc, FreeAssumption DEF Begin
<1>10. ASSUME NEW r \in Requests, Wipe(r) PROVE ConnectionHeldInTx'
  BY <1>10, WipePc DEF Wipe
<1>11. ASSUME NEW r \in Requests, FillOne(r) PROVE ConnectionHeldInTx'
  BY <1>11, FillOnePc DEF FillOne
<1>12. ASSUME NEW r \in Requests, FillEnd(r) PROVE ConnectionHeldInTx'
  BY <1>12, GotoPc DEF FillEnd
<1>13. ASSUME NEW r \in Requests, Rollback(r) \/ Commit(r) PROVE ConnectionHeldInTx'
  BY <1>13, DonePc, FreeAssumption DEF Rollback, Commit
<1>14. ASSUME NEW r \in Requests, ResetUsers(r) \/ ResetQueues(r) PROVE ConnectionHeldInTx'
  BY <1>14, GotoPc DEF ResetUsers, ResetQueues
<1>15. ASSUME NEW r \in Requests, ResetMembers(r) PROVE ConnectionHeldInTx'
  BY <1>15, DonePc DEF ResetMembers
<1>16. CASE UNCHANGED vars
  BY <1>1, <1>16 DEF vars
<1> QED
  BY <1>2, <1>3, <1>4, <1>5, <1>6, <1>7, <1>8, <1>9, <1>10, <1>11, <1>12, <1>13,
     <1>14, <1>15, <1>16
     DEF Next, Step

(***************************************************************************)
(* The draft of a transaction.                                             *)
(***************************************************************************)
\* The wipe starts the draft; each INSERT of an item whose user is not in the
\* draft yet extends it by one item; at the end it is what was asked.
LEMMA FollowsStart ==
  ASSUME NEW want \in Seq(Item)
  PROVE  Follows(NoMembers, want, want)
BY DEF Follows, NoMembers, None

LEMMA FollowsItem ==
  ASSUME NEW want \in Seq(Item), NEW todo \in Seq(Item), NEW draft \in MemberMap,
         todo # <<>>, Follows(draft, want, todo), draft[Head(todo).user] = None
  PROVE  Follows([draft EXCEPT ![Head(todo).user] = RingOf(Head(todo))], want, Tail(todo))
<1> DEFINE n == Len(want) - Len(todo)
           m == Head(todo)
           new == [draft EXCEPT ![m.user] = RingOf(m)]
<1>1. /\ Len(todo) \in Nat /\ Len(todo) >= 1 /\ Len(want) \in Nat /\ n \in Nat
      /\ Len(Tail(todo)) = Len(todo) - 1
      /\ Len(want) - Len(Tail(todo)) = n + 1
  BY DEF Follows
<1>2. m = todo[1] /\ todo[1] = want[n + 1] /\ m.user \in Users
  BY <1>1, HeadType DEF Follows
<1>3. \A k \in 1..Len(Tail(todo)) : Tail(todo)[k] = want[n + 1 + k]
  <2> TAKE k \in 1..Len(Tail(todo))
  <2>1. Tail(todo)[k] = todo[k + 1] /\ k + 1 \in 1..Len(todo)
    BY <1>1
  <2>2. todo[k + 1] = want[n + (k + 1)]
    BY <2>1 DEF Follows
  <2> QED BY <1>1, <2>1, <2>2
<1>4. \A k \in 1..(n + 1) : new[want[k].user] = RingOf(want[k])
  <2> TAKE k \in 1..(n + 1)
  <2>1. new[m.user] = RingOf(m)
    BY <1>2 DEF MemberMap
  <2>2. CASE k = n + 1
    BY <1>2, <2>1, <2>2
  <2>3. CASE k # n + 1
    <3>1. k \in 1..n /\ k \in 1..Len(want)
      BY <1>1, <2>3
    <3>2. draft[want[k].user] = RingOf(want[k]) /\ want[k] \in Item
      BY <3>1 DEF Follows
    <3>3. RingOf(want[k]) # None /\ want[k].user \in Users
      BY <3>2, RingOfType DEF None
    <3>4. want[k].user # m.user
      BY <3>2, <3>3
    <3> QED BY <3>2, <3>3, <3>4 DEF MemberMap
  <2> QED BY <2>2, <2>3
<1>5. \A u \in Users : new[u] # None => \E k \in 1..(n + 1) : want[k].user = u
  <2> SUFFICES ASSUME NEW u \in Users, new[u] # None
               PROVE  \E k \in 1..(n + 1) : want[k].user = u
    OBVIOUS
  <2>1. CASE u = m.user
    BY <1>1, <1>2, <2>1
  <2>2. CASE u # m.user
    <3>1. draft[u] # None
      BY <2>2 DEF MemberMap
    <3>2. PICK k \in 1..n : want[k].user = u
      BY <3>1 DEF Follows
    <3> QED BY <1>1, <3>2
  <2> QED BY <2>1, <2>2
<1> QED BY <1>1, <1>3, <1>4, <1>5 DEF Follows

LEMMA FollowsEnd ==
  ASSUME NEW want \in Seq(Item), NEW draft \in MemberMap, Follows(draft, want, <<>>)
  PROVE  draft = Wanted(want)
<1>1. Len(want) - Len(<<>>) = Len(want) /\ DOMAIN want = 1..Len(want)
  OBVIOUS
<1>2. ASSUME NEW u \in Users PROVE draft[u] = RingIn(want, u)
  <2>1. CASE \E k \in DOMAIN want : want[k].user = u
    <3> DEFINE k == CHOOSE k \in DOMAIN want : want[k].user = u
    <3>1. k \in DOMAIN want /\ want[k].user = u
      BY <2>1
    <3>2. RingIn(want, u) = RingOf(want[k])
      BY <2>1 DEF RingIn
    <3> HIDE DEF k
    <3> QED BY <1>1, <3>1, <3>2 DEF Follows
  <2>2. CASE ~\E k \in DOMAIN want : want[k].user = u
    <3>1. RingIn(want, u) = None
      BY <2>2 DEF RingIn
    <3>2. draft[u] = None
      BY <1>1, <2>2 DEF Follows
    <3> QED BY <3>1, <3>2
  <2> QED BY <2>1, <2>2
<1> QED BY <1>2 DEF Wanted, MemberMap

\* A request that a step leaves alone keeps its draft in order: the rows it
\* refers to change only while no transaction is open.
LEMMA DraftOther ==
  ASSUME ConnectionHeldInTx, NEW q \in Requests, DraftOK(q), req'[q] = req[q],
         conn = Free \/ UNCHANGED <<queues, users>>
  PROVE  DraftOK(q)'
<1>1. NothingFilled(q)' /\ DraftFollowsWant(q)'
  BY DEF DraftOK, NothingFilled, DraftFollowsWant
<1>2. DraftKeysHold(q)'
  <2>1. CASE conn = Free
    BY <2>1, FreeAssumption DEF ConnectionHeldInTx, InTx, DraftKeysHold
  <2>2. CASE UNCHANGED <<queues, users>>
    BY <2>2 DEF DraftOK, DraftKeysHold, KeysHold
  <2> QED BY <2>1, <2>2
<1> QED BY <1>1, <1>2 DEF DraftOK

\* A request that has no transaction open needs no more than its items.
LEMMA DraftNone ==
  ASSUME NEW r \in Requests, req'[r].pc \notin {"begin", "wipe", "fill", "commit"}
  PROVE  DraftOK(r)'
BY DEF DraftOK, NothingFilled, DraftKeysHold, DraftFollowsWant

LEMMA DraftStep ==
  TypeOK /\ ConnectionHeldInTx /\ (\A r \in Requests : DraftOK(r)) /\ [Next]_vars
    => \A r \in Requests : DraftOK(r)'
<1> SUFFICES ASSUME TypeOK, ConnectionHeldInTx, \A r \in Requests : DraftOK(r),
                    [Next]_vars
             PROVE  \A r \in Requests : DraftOK(r)'
  OBVIOUS
<1>1. ASSUME UNCHANGED req, conn = Free \/ UNCHANGED <<queues, users>>
      PROVE  \A p \in Requests : DraftOK(p)'
  BY <1>1, DraftOther
<1>2. ASSUME NEW r \in Requests, \A q \in Requests \ {r} : req'[q] = req[q],
             conn = Free \/ UNCHANGED <<queues, users>>, DraftOK(r)'
      PROVE  \A p \in Requests : DraftOK(p)'
  BY <1>2, DraftOther
<1>3. ASSUME NEW u \in Users, UserCreate(u) PROVE \A p \in Requests : DraftOK(p)'
  BY <1>1, <1>3 DEF UserCreate
<1>4. ASSUME NEW q \in Queues, QueueCreate(q) \/ QueueDelete(q)
      PROVE  \A p \in Requests : DraftOK(p)'
  BY <1>1, <1>4 DEF QueueCreate, QueueDelete
<1>5. ASSUME NEW r \in Requests, NEW q \in Queues, NEW want \in Bodies,
             AddStart(r, q, want) \/ RemoveStart(r, q, want) \/ ReplaceStart(r, q, want)
      PROVE  \A p \in Requests : DraftOK(p)'
  <2>1. PICK pc \in {"add", "remove", "begin"} : Start(r, q, pc, want)
    BY <1>5 DEF AddStart, RemoveStart, ReplaceStart
  <2>2. DraftOK(r)'
    BY <2>1, StartPc DEF DraftOK, NothingFilled, DraftKeysHold, DraftFollowsWant
  <2> QED BY <1>2, <2>1, <2>2, StartPc DEF Start
<1>6. ASSUME NEW r \in Requests, NEW q \in Queues, ReadStart(r, q)
      PROVE  \A p \in Requests : DraftOK(p)'
  <2>1. Start(r, q, "read", <<>>)
    BY <1>6 DEF ReadStart
  <2>2. DraftOK(r)'
    BY <2>1, StartPc, DraftNone
  <2> QED BY <1>2, <2>1, <2>2, StartPc DEF Start
<1>7. ASSUME NEW r \in Requests, Done(r), conn = Free \/ UNCHANGED <<queues, users>>
      PROVE  \A p \in Requests : DraftOK(p)'
  <2>1. DraftOK(r)'
    BY <1>7, DonePc, DraftNone
  <2> QED BY <1>2, <1>7, <2>1, DonePc
<1>8. ASSUME NEW r \in Requests,
             Reject(r) \/ Read(r) \/ BatchEnd(r) \/ Rollback(r) \/ Commit(r) \/ ResetMembers(r)
      PROVE  \A p \in Requests : DraftOK(p)'
  BY <1>7, <1>8 DEF Reject, Read, BatchEnd, Rollback, Commit, ResetMembers
<1>9. ASSUME NEW r \in Requests, ResetStart(r) PROVE \A p \in Requests : DraftOK(p)'
  <2>1. req'[r].pc = "reset0" /\ \A q \in Requests \ {r} : req'[q] = req[q]
    BY <1>9 DEF ResetStart, TypeOK
  <2>2. DraftOK(r)'
    BY <2>1, DraftNone
  <2> QED BY <1>2, <1>9, <2>1, <2>2 DEF ResetStart
<1>10. ASSUME NEW r \in Requests, AddOne(r) \/ RemoveOne(r)
       PROVE  \A p \in Requests : DraftOK(p)'
  <2>1. DraftOK(r)'
    BY <1>10, AddOnePc, DraftNone
  <2> QED BY <1>2, <1>10, <2>1, AddOnePc DEF AddOne, RemoveOne
<1>11. ASSUME NEW r \in Requests, Begin(r) PROVE \A p \in Requests : DraftOK(p)'
  <2>1. [req[r] EXCEPT !.pc = "wipe"].todo = req[r].todo
        /\ [req[r] EXCEPT !.pc = "wipe"].want = req[r].want
    BY <1>11, RequestType DEF Begin, Request, Serving
  <2>2. req'[r] = [req[r] EXCEPT !.pc = "wipe"]
    BY <1>11 DEF Begin, Goto, TypeOK
  <2>3. req'[r].todo = req'[r].want
    BY <1>11, <2>1, <2>2 DEF Begin, DraftOK, NothingFilled
  <2>4. req'[r].pc = "wipe" /\ \A q \in Requests \ {r} : req'[q] = req[q]
    BY <1>11, GotoPc DEF Begin
  <2>5. DraftOK(r)'
    BY <2>3, <2>4 DEF DraftOK, NothingFilled, DraftKeysHold, DraftFollowsWant
  <2> QED BY <1>2, <1>11, <2>4, <2>5 DEF Begin
<1>12. ASSUME NEW r \in Requests, Wipe(r) PROVE \A p \in Requests : DraftOK(p)'
  <2>1. req[r].todo = req[r].want /\ req[r].want \in Seq(Item)
    BY <1>12, ServingType DEF Wipe, Serving, DraftOK, NothingFilled
  <2>2. Follows(NoMembers, req[r].want, req[r].todo)
    BY <2>1, FollowsStart
  <2>3. DraftOK(r)'
    BY <1>12, <2>2, WipePc
       DEF DraftOK, NothingFilled, DraftKeysHold, DraftFollowsWant, NoMembers, None
  <2> QED BY <1>2, <1>12, <2>3, WipePc DEF Wipe
<1>13. ASSUME NEW r \in Requests, FillOne(r) PROVE \A p \in Requests : DraftOK(p)'
  <2> DEFINE m == Head(req[r].todo)
             draft == [req[r].draft EXCEPT ![m.user] = RingOf(m)]
  <2>1. /\ req[r].want \in Seq(Item) /\ req[r].todo \in Seq(Item)
        /\ req[r].draft \in MemberMap /\ req[r].todo # <<>>
        /\ req[r].draft[m.user] = None /\ KeysHold(req[r].queue, m.user)
        /\ UNCHANGED <<queues, users>>
    BY <1>13, ServingType DEF FillOne, Serving
  <2>2. Follows(req[r].draft, req[r].want, req[r].todo)
    BY <1>13 DEF FillOne, DraftOK, DraftFollowsWant
  <2>3. Follows(draft, req[r].want, Tail(req[r].todo))
    BY <2>1, <2>2, FollowsItem
  <2>4. \A u \in Users : draft[u] # None => KeysHold(req[r].queue, u)
    <3> TAKE u \in Users
    <3>1. CASE u = m.user
      BY <2>1, <3>1
    <3>2. CASE u # m.user
      <4>1. draft[u] = req[r].draft[u]
        BY <2>1, <3>2 DEF MemberMap
      <4> QED BY <1>13, <4>1 DEF FillOne, DraftOK, DraftKeysHold
    <3> QED BY <3>1, <3>2
  <2>5. /\ req'[r].pc = "fill" /\ req'[r].queue = req[r].queue
        /\ req'[r].want = req[r].want /\ req'[r].todo = Tail(req[r].todo)
        /\ req'[r].draft = draft /\ \A q \in Requests \ {r} : req'[q] = req[q]
    BY <1>13, FillOnePc
  <2> HIDE DEF draft
  <2>6. DraftOK(r)'
    BY <2>1, <2>3, <2>4, <2>5
       DEF DraftOK, NothingFilled, DraftKeysHold, DraftFollowsWant, KeysHold
  <2> QED BY <1>2, <2>1, <2>5, <2>6
<1>14. ASSUME NEW r \in Requests, FillEnd(r) PROVE \A p \in Requests : DraftOK(p)'
  <2> DEFINE new == [req[r] EXCEPT !.pc = "commit"]
  <2>1. /\ new.pc = "commit" /\ new.draft = req[r].draft /\ new.queue = req[r].queue
        /\ new.want = req[r].want /\ new.todo = req[r].todo
    BY <1>14, RequestType DEF FillEnd, Request, Serving
  <2>2. req'[r] = new /\ \A q \in Requests \ {r} : req'[q] = req[q]
    BY <1>14 DEF FillEnd, Goto, TypeOK
  <2> HIDE DEF new
  <2>3. DraftOK(r)'
    BY <1>14, <2>1, <2>2
       DEF FillEnd, DraftOK, NothingFilled, DraftKeysHold, DraftFollowsWant, KeysHold
  <2> QED BY <1>2, <1>14, <2>2, <2>3 DEF FillEnd
<1>15. ASSUME NEW r \in Requests, ResetUsers(r) \/ ResetQueues(r)
       PROVE  \A p \in Requests : DraftOK(p)'
  <2>1. req'[r].pc \in {"reset1", "reset2"} /\ \A q \in Requests \ {r} : req'[q] = req[q]
    BY <1>15, GotoPc DEF ResetUsers, ResetQueues
  <2>2. DraftOK(r)'
    BY <2>1, DraftNone
  <2> QED BY <1>2, <1>15, <2>1, <2>2 DEF ResetUsers, ResetQueues
<1>16. CASE UNCHANGED vars
  BY <1>1, <1>16 DEF vars
<1> QED
  BY <1>3, <1>4, <1>5, <1>6, <1>8, <1>9, <1>10, <1>11, <1>12, <1>13, <1>14, <1>15,
     <1>16
     DEF Next, Step

(***************************************************************************)
(* The foreign keys of committed rows.                                     *)
(***************************************************************************)
\* Removing members, or adding users and queues, breaks no foreign key.
LEMMA KeysKept ==
  ASSUME ForeignKeysHold, queues \subseteq queues', users \subseteq users',
         \A q \in Queues, u \in Users : members'[q][u] \in {members[q][u], None}
  PROVE  ForeignKeysHold'
BY DEF ForeignKeysHold, KeysHold

LEMMA ForeignKeysStep ==
  TypeOK /\ (\A r \in Requests : DraftOK(r)) /\ ForeignKeysHold /\ [Next]_vars
    => ForeignKeysHold'
<1> SUFFICES ASSUME TypeOK, \A r \in Requests : DraftOK(r), ForeignKeysHold, [Next]_vars
             PROVE  ForeignKeysHold'
  OBVIOUS
<1>1. ASSUME UNCHANGED <<queues, users, members>> PROVE ForeignKeysHold'
  BY <1>1, KeysKept
<1>2. ASSUME NEW u \in Users, UserCreate(u) PROVE ForeignKeysHold'
  BY <1>2, KeysKept DEF UserCreate
<1>3. ASSUME NEW q \in Queues, QueueCreate(q) PROVE ForeignKeysHold'
  BY <1>3, KeysKept DEF QueueCreate
<1>4. ASSUME NEW q \in Queues, QueueDelete(q) PROVE ForeignKeysHold'
  <2>1. \A u \in Users : members'[q][u] = None
    BY <1>4 DEF QueueDelete, NoMembers, TypeOK
  <2>2. \A p \in Queues \ {q} : members'[p] = members[p] /\ (p \in queues => p \in queues')
    BY <1>4 DEF QueueDelete, TypeOK
  <2>3. UNCHANGED users
    BY <1>4 DEF QueueDelete
  <2> QED BY <2>1, <2>2, <2>3 DEF ForeignKeysHold, KeysHold
<1>5. ASSUME NEW r \in Requests, NEW q \in Queues, NEW want,
             AddStart(r, q, want) \/ RemoveStart(r, q, want) \/ ReplaceStart(r, q, want)
               \/ ReadStart(r, q)
      PROVE  ForeignKeysHold'
  BY <1>1, <1>5 DEF AddStart, RemoveStart, ReplaceStart, ReadStart, Start
<1>6. ASSUME NEW r \in Requests,
             Reject(r) \/ Read(r) \/ BatchEnd(r) \/ ResetStart(r) \/ Begin(r) \/ Wipe(r)
               \/ FillOne(r) \/ Rollback(r) \/ FillEnd(r)
      PROVE  ForeignKeysHold'
  BY <1>1, <1>6 DEF Reject, Read, BatchEnd, ResetStart, Begin, Wipe, FillOne, Rollback, FillEnd
<1>7. ASSUME NEW r \in Requests, AddOne(r) PROVE ForeignKeysHold'
  <2> DEFINE q == req[r].queue
             m == Head(req[r].todo)
  <2>1. CASE KeysHold(q, m.user)
    <3>1. members' = [members EXCEPT ![q][m.user] = RingOf(m)] /\ UNCHANGED <<queues, users>>
      BY <1>7, <2>1 DEF AddOne
    <3>2. q \in Queues /\ members[q] \in MemberMap
      BY <1>7, ServingType DEF AddOne, Serving, TypeOK
    <3>3. \A p \in Queues, u \in Users :
            (p # q \/ u # m.user) => members'[p][u] = members[p][u]
      BY <3>1, <3>2 DEF TypeOK, MemberMap
    <3> HIDE DEF q, m
    <3> QED BY <2>1, <3>1, <3>3 DEF ForeignKeysHold, KeysHold
  <2>2. CASE ~KeysHold(q, m.user)
    BY <1>1, <1>7, <2>2 DEF AddOne
  <2> QED BY <2>1, <2>2
<1>8. ASSUME NEW r \in Requests, RemoveOne(r) PROVE ForeignKeysHold'
  <2>1. members' = [members EXCEPT ![req[r].queue][Head(req[r].todo).user] = None]
        /\ UNCHANGED <<queues, users>>
    BY <1>8 DEF RemoveOne
  <2>2. \A p \in Queues, u \in Users : members'[p][u] \in {members[p][u], None}
    BY <2>1 DEF TypeOK, MemberMap
  <2> QED BY <2>1, <2>2, KeysKept
<1>9. ASSUME NEW r \in Requests, Commit(r) PROVE ForeignKeysHold'
  <2> DEFINE q == req[r].queue
  <2>1. members' = [members EXCEPT ![q] = req[r].draft] /\ UNCHANGED <<queues, users>>
    BY <1>9 DEF Commit
  <2>2. \A u \in Users : req[r].draft[u] # None => KeysHold(q, u)
    BY <1>9 DEF Commit, DraftOK, DraftKeysHold
  <2>3. q \in Queues
    BY <1>9, ServingType DEF Commit, Serving
  <2>4. members'[q] = req[r].draft /\ \A p \in Queues \ {q} : members'[p] = members[p]
    BY <2>1, <2>3 DEF TypeOK
  <2> HIDE DEF q
  <2> QED BY <2>1, <2>2, <2>4 DEF ForeignKeysHold, KeysHold
<1>10. ASSUME NEW r \in Requests, ResetUsers(r) \/ ResetQueues(r) \/ ResetMembers(r)
       PROVE  ForeignKeysHold'
  <2>1. \A q \in Queues, u \in Users : members'[q][u] = None
    BY <1>10 DEF ResetUsers, ResetQueues, ResetMembers, NoMembers
  <2> QED BY <2>1 DEF ForeignKeysHold
<1>11. CASE UNCHANGED vars
  BY <1>1, <1>11 DEF vars
<1> QED
  BY <1>2, <1>3, <1>4, <1>5, <1>6, <1>7, <1>8, <1>9, <1>10, <1>11 DEF Next, Step

(***************************************************************************)
(* The theorems.                                                           *)
(***************************************************************************)
\* The strengthened invariant holds in every reachable state.
THEOREM Inductive == Spec => []IInv
<1>1. Init => IInv
  BY NoMembersType, FreeAssumption
     DEF Init, IInv, TypeOK, ConnectionHeldInTx, InTx, DraftOK, NothingFilled,
         DraftKeysHold, DraftFollowsWant, ForeignKeysHold, NoMembers, Idle
<1>2. IInv /\ [Next]_vars => IInv'
  BY TypeStep, ConnectionStep, DraftStep, ForeignKeysStep DEF IInv
<1> QED BY <1>1, <1>2, PTL DEF Spec

\* No member row ever refers to a queue or a user that does not exist, though
\* the handlers check the queue in one statement and write in later ones.
THEOREM ForeignKeysAlwaysHold == Spec => []ForeignKeysHold
BY Inductive, PTL DEF IInv

\* The one connection is held by the request in a transaction and by no other:
\* no path out of a transaction keeps it.
THEOREM ConnectionIsGivenBack == Spec => []ConnectionHeldInTx
BY Inductive, PTL DEF IInv

\* What a set replace is about to commit is what its body asked for, whole.
THEOREM ReplaceCommitsItsBody == Spec => []CommitsWhatWasAsked
<1>1. IInv => CommitsWhatWasAsked
  <2> SUFFICES ASSUME IInv, NEW r \in Requests, req[r].pc = "commit"
               PROVE  /\ req[r].draft = Wanted(req[r].want)
                      /\ \A u \in Users : req[r].draft[u] # None => KeysHold(req[r].queue, u)
    BY DEF CommitsWhatWasAsked
  <2>1. /\ req[r].want \in Seq(Item) /\ req[r].draft \in MemberMap
        /\ Follows(req[r].draft, req[r].want, <<>>)
    BY ServingType DEF IInv, Serving, DraftOK, DraftFollowsWant
  <2> QED BY <2>1, FollowsEnd DEF IInv, DraftOK, DraftKeysHold
<1> QED BY <1>1, Inductive, PTL

(***************************************************************************)
(* QueueMembers implements MemberSets.                                     *)
(***************************************************************************)
Pending(r) == req[r].pc \in {"begin"} \cup InTx
Resets == {r \in Requests : req[r].pc \in Resetting}

LEMMA WantedType ==
  ASSUME NEW want \in Seq(Item)
  PROVE  Wanted(want) \in Sets!MemberMap
<1>1. ASSUME NEW u \in Users PROVE RingIn(want, u) \in Rings \cup {None}
  <2>1. CASE \E k \in DOMAIN want : want[k].user = u
    <3> DEFINE k == CHOOSE k \in DOMAIN want : want[k].user = u
    <3>1. k \in DOMAIN want
      BY <2>1
    <3>2. want[k] \in Item
      BY <3>1
    <3> HIDE DEF k
    <3>3. RingOf(want[k]) \in Rings
      BY <3>2, RingOfType
    <3> QED BY <2>1, <3>3 DEF RingIn, k
  <2>2. CASE ~\E k \in DOMAIN want : want[k].user = u
    BY <2>2 DEF RingIn
  <2> QED BY <2>1, <2>2
<1> QED BY <1>1 DEF Wanted, Sets!MemberMap

\* The abstract request of r, and of the requests a step leaves alone.
LEMMA AbstractPending ==
  ASSUME NEW r \in Requests
  PROVE  /\ Pending(r) => AbstractWant[r] = [queue |-> req[r].queue,
                                            members |-> Wanted(req[r].want)]
         /\ ~Pending(r) => AbstractWant[r] = NoWant
         /\ Pending(r) => AbstractWant[r] # NoWant
<1>1. Pending(r) => AbstractWant[r] = [queue |-> req[r].queue, members |-> Wanted(req[r].want)]
  BY DEF AbstractWant, Pending
<1>2. ~Pending(r) => AbstractWant[r] = NoWant
  BY DEF AbstractWant, Pending
<1>3. [queue |-> req[r].queue, members |-> Wanted(req[r].want)] # NoWant
  BY DEF NoWant
<1> QED BY <1>1, <1>2, <1>3

LEMMA SameWant ==
  ASSUME \A r \in Requests :
           /\ Pending(r)' <=> Pending(r)
           /\ Pending(r) => req'[r].queue = req[r].queue /\ req'[r].want = req[r].want
  PROVE  AbstractWant' = AbstractWant
<1>1. \A r \in Requests : AbstractWant'[r] = AbstractWant[r]
  BY DEF AbstractWant, Pending
<1> QED BY <1>1 DEF AbstractWant

\* One request stops waiting for its set to be installed.
LEMMA WantEnds ==
  ASSUME TypeOK, NEW r \in Requests, Done(r)
  PROVE  AbstractWant' = [AbstractWant EXCEPT ![r] = NoWant]
<1>1. \A q \in Requests \ {r} : AbstractWant'[q] = AbstractWant[q]
  BY DonePc DEF AbstractWant
<1>2. AbstractWant'[r] = NoWant
  BY DonePc DEF AbstractWant, InTx
<1> QED BY <1>1, <1>2 DEF AbstractWant

LEMMA SameResets ==
  ASSUME \A r \in Requests : req'[r].pc \in Resetting <=> req[r].pc \in Resetting
  PROVE  Resets' = Resets
BY DEF Resets

\* A step that neither writes a table nor starts or ends a set replace or a
\* reset is a step the abstract specification does not see.
LEMMA Unseen ==
  ASSUME UNCHANGED <<queues, users, members>>, AbstractWant' = AbstractWant, Resets' = Resets
  PROVE  UNCHANGED Sets!vars
BY DEF Sets!vars, Resets

\* The same for a request that is not in a set replace and does not reset.
LEMMA OtherPc ==
  ASSUME NEW r \in Requests, \A q \in Requests \ {r} : req'[q] = req[q],
         ~Pending(r), ~Pending(r)', req[r].pc \notin Resetting, req'[r].pc \notin Resetting
  PROVE  AbstractWant' = AbstractWant /\ Resets' = Resets
<1>1. \A q \in Requests : Pending(q)' <=> Pending(q)
  BY DEF Pending
<1>2. \A q \in Requests : req'[q].pc \in Resetting <=> req[q].pc \in Resetting
  OBVIOUS
<1>3. \A q \in Requests : Pending(q) => req'[q] = req[q]
  OBVIOUS
<1> QED BY <1>1, <1>2, <1>3, SameWant, SameResets

LEMMA ReplaceStep ==
  ASSUME IInv, NEW r \in Requests,
         Begin(r) \/ Wipe(r) \/ FillOne(r) \/ FillEnd(r)
  PROVE  UNCHANGED Sets!vars
<1>1. /\ req[r].pc \in {"begin", "wipe", "fill"} /\ req'[r].pc \in InTx
      /\ \A q \in Requests \ {r} : req'[q] = req[q]
  BY GotoPc, WipePc, FillOnePc DEF IInv, Begin, FillEnd, InTx
<1>2. req'[r].queue = req[r].queue /\ req'[r].want = req[r].want
  <2>1. ASSUME NEW pc, Goto(r, pc)
        PROVE  req'[r].queue = req[r].queue /\ req'[r].want = req[r].want
    <3>1. [req[r] EXCEPT !.pc = pc].queue = req[r].queue
          /\ [req[r] EXCEPT !.pc = pc].want = req[r].want
      BY <1>1, RequestType DEF IInv, Request, Serving
    <3>2. req'[r] = [req[r] EXCEPT !.pc = pc]
      BY <2>1 DEF Goto, IInv, TypeOK
    <3> QED BY <3>1, <3>2
  <2> QED BY <2>1, WipePc, FillOnePc DEF IInv, Begin, FillEnd
<1>3. \A q \in Requests : (Pending(q)' <=> Pending(q))
        /\ (req'[q].pc \in Resetting <=> req[q].pc \in Resetting)
  BY <1>1 DEF Pending, InTx, Resetting
<1>4. UNCHANGED <<queues, users, members>>
  BY DEF Begin, Wipe, FillOne, FillEnd
<1> QED BY <1>1, <1>2, <1>3, <1>4, SameWant, SameResets, Unseen

LEMMA RefinesStep == IInv /\ [Next]_vars => [Sets!Next]_Sets!vars
<1> SUFFICES ASSUME IInv, [Next]_vars PROVE [Sets!Next]_Sets!vars
  OBVIOUS
<1> USE DEF IInv
<1>1. ASSUME UNCHANGED req PROVE AbstractWant' = AbstractWant /\ Resets' = Resets
  BY <1>1 DEF AbstractWant, Resets
<1>2. ASSUME NEW u \in Users, UserCreate(u) PROVE Sets!Next
  <2>1. Sets!AddUser(u)
    BY <1>1, <1>2 DEF UserCreate, Sets!AddUser, Resets
  <2> QED BY <2>1 DEF Sets!Next
<1>3. ASSUME NEW q \in Queues, QueueCreate(q) PROVE Sets!Next
  <2>1. Sets!AddQueue(q)
    BY <1>1, <1>3 DEF QueueCreate, Sets!AddQueue, Resets
  <2> QED BY <2>1 DEF Sets!Next
<1>4. ASSUME NEW q \in Queues, QueueDelete(q) PROVE Sets!Next
  <2>1. Sets!DropQueue(q)
    BY <1>1, <1>4 DEF QueueDelete, Sets!DropQueue, Resets, NoMembers, Sets!NoMembers
  <2> QED BY <2>1 DEF Sets!Next
<1>5. ASSUME NEW r \in Requests, NEW q \in Queues, NEW want, NEW pc \in {"add", "remove", "read"},
             Start(r, q, pc, want)
      PROVE  UNCHANGED Sets!vars
  <2>1. /\ req[r].pc = "idle" /\ req'[r].pc = pc
        /\ \A p \in Requests \ {r} : req'[p] = req[p]
    BY <1>5, StartPc
  <2>2. ~Pending(r) /\ ~Pending(r)' /\ req[r].pc \notin Resetting /\ req'[r].pc \notin Resetting
    BY <2>1 DEF Pending, InTx, Resetting
  <2> QED BY <1>5, <2>1, <2>2, OtherPc, Unseen DEF Start
<1>6. ASSUME NEW r \in Requests, NEW q \in Queues, NEW want \in Bodies, ReplaceStart(r, q, want)
      PROVE  Sets!Next
  <2>1. /\ req[r].pc = "idle" /\ req'[r].pc = "begin" /\ req'[r].queue = q
        /\ req'[r].want = want /\ \A p \in Requests \ {r} : req'[p] = req[p]
        /\ q \in queues /\ UNCHANGED <<queues, users, members>>
    <3>1. Start(r, q, "begin", want)
      BY <1>6 DEF ReplaceStart
    <3>2. q \in queues /\ UNCHANGED <<queues, users, members>>
      BY <3>1 DEF Start
    <3> QED BY <3>1, <3>2, StartPc
  <2>2. Wanted(want) \in Sets!MemberMap
    BY <1>6, BatchType, WantedType
  <2>3. AbstractWant[r] = NoWant
    BY <2>1, AbstractPending DEF Pending, InTx
  <2>4. AbstractWant' = [AbstractWant EXCEPT ![r] = [queue |-> q, members |-> Wanted(want)]]
    <3>1. AbstractWant'[r] = [queue |-> q, members |-> Wanted(want)]
      BY <2>1 DEF AbstractWant, Wanted, RingIn
    <3>2. \A p \in Requests \ {r} : AbstractWant'[p] = AbstractWant[p]
      BY <2>1 DEF AbstractWant
    <3> QED BY <3>1, <3>2 DEF AbstractWant
  <2>5. Resets' = Resets
    BY <2>1, SameResets DEF Resetting
  <2>6. Sets!Ask(r, q, Wanted(want))
    BY <2>1, <2>3, <2>4, <2>5 DEF Sets!Ask, Resets
  <2> QED BY <2>2, <2>6 DEF Sets!Next
<1>7. ASSUME NEW r \in Requests, Done(r), UNCHANGED <<queues, users, members>>,
             req[r].pc \in Serving
      PROVE  Sets!Next \/ UNCHANGED Sets!vars
  <2>1. Resets' = Resets
    BY <1>7, DonePc, SameResets DEF Serving, Resetting
  <2>2. CASE Pending(r)
    <3>1. AbstractWant[r] # NoWant
      BY <2>2, AbstractPending
    <3>2. Sets!Refuse(r)
      BY <1>7, <2>1, <3>1, WantEnds DEF Sets!Refuse, Resets
    <3> QED BY <3>2 DEF Sets!Next
  <2>3. CASE ~Pending(r)
    <3>1. ~Pending(r)' /\ \A q \in Requests \ {r} : req'[q] = req[q]
      BY <1>7, DonePc DEF Pending, InTx
    <3>2. \A q \in Requests : (Pending(q)' <=> Pending(q)) /\ (Pending(q) => req'[q] = req[q])
      BY <2>3, <3>1 DEF Pending
    <3>3. AbstractWant' = AbstractWant
      BY <3>2, SameWant
    <3> QED BY <1>7, <2>1, <3>3, Unseen
  <2> QED BY <2>2, <2>3
<1>8. ASSUME NEW r \in Requests, Reject(r) \/ Read(r) \/ BatchEnd(r) \/ Rollback(r)
      PROVE  Sets!Next \/ UNCHANGED Sets!vars
  BY <1>7, <1>8 DEF Reject, Read, BatchEnd, Rollback, Serving
<1>9. ASSUME NEW r \in Requests, AddOne(r) \/ RemoveOne(r)
      PROVE  AbstractWant' = AbstractWant /\ Resets' = Resets
  <2>1. ~Pending(r) /\ ~Pending(r)' /\ req[r].pc \notin Resetting /\ req'[r].pc \notin Resetting
    BY <1>9, AddOnePc DEF Pending, InTx, Resetting
  <2> QED BY <1>9, <2>1, AddOnePc, OtherPc
<1>10. ASSUME NEW r \in Requests, AddOne(r) PROVE Sets!Next \/ UNCHANGED Sets!vars
  <2> DEFINE q == req[r].queue
             m == Head(req[r].todo)
  <2>1. CASE KeysHold(q, m.user)
    <3>1. q \in Queues /\ m.user \in Users /\ RingOf(m) \in Rings
      BY <1>10, ServingType, HeadType DEF AddOne, Serving
    <3>2. members' = [members EXCEPT ![q][m.user] = RingOf(m)] /\ UNCHANGED <<queues, users>>
          /\ q \in queues /\ m.user \in users
      BY <1>10, <2>1 DEF AddOne, KeysHold
    <3> HIDE DEF q, m
    <3>3. Sets!Put(q, m.user, RingOf(m))
      BY <1>9, <1>10, <3>2 DEF Sets!Put, Resets
    <3> QED BY <3>1, <3>3 DEF Sets!Next
  <2>2. CASE ~KeysHold(q, m.user)
    BY <1>9, <1>10, <2>2, Unseen DEF AddOne
  <2> QED BY <2>1, <2>2
<1>11. ASSUME NEW r \in Requests, RemoveOne(r) PROVE Sets!Next
  <2> DEFINE q == req[r].queue
             m == Head(req[r].todo)
  <2>1. q \in Queues /\ m.user \in Users /\ RingOf(m) \in Rings
    BY <1>11, ServingType, HeadType DEF RemoveOne, Serving
  <2>2. Sets!Take(q, m.user)
    BY <1>9, <1>11 DEF RemoveOne, Sets!Take, Resets
  <2> HIDE DEF q, m
  <2> QED BY <2>1, <2>2 DEF Sets!Next
<1>12. ASSUME NEW r \in Requests, Commit(r) PROVE Sets!Next
  <2>1. /\ req[r].want \in Seq(Item) /\ req[r].draft \in MemberMap
        /\ req[r].queue \in Queues /\ Follows(req[r].draft, req[r].want, <<>>)
    BY <1>12, ServingType DEF Commit, Serving, DraftOK, DraftFollowsWant
  <2>2. req[r].draft = Wanted(req[r].want)
    BY <2>1, FollowsEnd
  <2>3. AbstractWant[r] = [queue |-> req[r].queue, members |-> req[r].draft]
        /\ AbstractWant[r] # NoWant
    BY <1>12, <2>2, AbstractPending DEF Commit, Pending, InTx
  <2>4. Resets' = Resets
    BY <1>12, DonePc, SameResets DEF Commit, Resetting
  <2>5. \A u \in Users : req[r].draft[u] # None => req[r].queue \in queues /\ u \in users
    BY <1>12 DEF Commit, DraftOK, DraftKeysHold, KeysHold
  <2>6. Sets!Install(r)
    BY <1>12, <2>3, <2>4, <2>5, WantEnds DEF Commit, Sets!Install, Resets
  <2> QED BY <2>6 DEF Sets!Next
<1>13. ASSUME NEW r \in Requests, ResetStart(r) PROVE Sets!Next
  <2>1. /\ req[r].pc = "idle" /\ req'[r].pc = "reset0"
        /\ \A q \in Requests \ {r} : req'[q] = req[q]
    BY <1>13 DEF ResetStart, TypeOK, Idle
  <2>2. Resets' = Resets \cup {r}
    BY <2>1 DEF Resets, Resetting
  <2>3. \A q \in Requests : (Pending(q)' <=> Pending(q)) /\ (Pending(q) => req'[q] = req[q])
    BY <2>1 DEF Pending, InTx
  <2>4. Sets!ResetBegin(r)
    BY <1>13, <2>2, <2>3, SameWant DEF ResetStart, Sets!ResetBegin, Resets
  <2> QED BY <2>4 DEF Sets!Next
<1>14. ASSUME NEW r \in Requests, ResetUsers(r) \/ ResetQueues(r) PROVE Sets!Next
  <2>1. /\ req[r].pc \in Resetting /\ req'[r].pc \in Resetting
        /\ \A q \in Requests \ {r} : req'[q] = req[q]
    BY <1>14, GotoPc DEF ResetUsers, ResetQueues, Resetting
  <2>2. Resets' = Resets /\ r \in Resets
    BY <2>1, SameResets DEF Resets
  <2>3. \A q \in Requests : (Pending(q)' <=> Pending(q)) /\ (Pending(q) => req'[q] = req[q])
    BY <2>1 DEF Pending, InTx, Resetting
  <2>4. Sets!ResetSome(r)
    BY <1>14, <2>2, <2>3, SameWant
       DEF ResetUsers, ResetQueues, Sets!ResetSome, Resets, NoMembers, Sets!NoMembers
  <2> QED BY <2>4 DEF Sets!Next
<1>15. ASSUME NEW r \in Requests, ResetMembers(r) PROVE Sets!Next
  <2>1. /\ req[r].pc \in Resetting /\ req'[r].pc \notin Resetting
        /\ \A q \in Requests \ {r} : req'[q] = req[q]
    BY <1>15, DonePc DEF ResetMembers, Resetting
  <2>2. Resets' = Resets \ {r} /\ r \in Resets
    BY <2>1 DEF Resets
  <2>3. \A q \in Requests : (Pending(q)' <=> Pending(q)) /\ (Pending(q) => req'[q] = req[q])
    BY <1>15, <2>1, DonePc DEF ResetMembers, Pending, InTx, Resetting
  <2>4. Sets!ResetSome(r)
    BY <1>15, <2>2, <2>3, SameWant
       DEF ResetMembers, Sets!ResetSome, Resets, NoMembers, Sets!NoMembers
  <2> QED BY <2>4 DEF Sets!Next
<1>16. CASE UNCHANGED vars
  BY <1>1, <1>16, Unseen DEF vars
<1> QED
  BY <1>2, <1>3, <1>4, <1>5, <1>6, <1>8, <1>10, <1>11, <1>12, <1>13, <1>14, <1>15,
     <1>16, ReplaceStep
     DEF Next, Step, AddStart, RemoveStart, ReadStart

\* The handlers keep the promise of MemberSets: a set replace is seen whole or
\* not at all, and everything else changes one member or cascades.
THEOREM Implements == Spec => ImplementsMemberSets
<1>1. Init => Sets!Init
  BY DEF Init, Sets!Init, AbstractWant, Idle, InTx, Resetting, NoMembers, Sets!NoMembers
<1>2. IInv /\ [Next]_vars => [Sets!Next]_Sets!vars
  BY RefinesStep
<1> QED BY <1>1, <1>2, Inductive, PTL DEF Spec, ImplementsMemberSets, Sets!Spec

(***************************************************************************)
(* Every step of a request leaves it less to do.                           *)
(***************************************************************************)
LEMMA LeftAt ==
  ASSUME NEW q
  PROVE  /\ q.pc = "idle" => Left(q) = 0
         /\ q.pc \in {"read", "add", "remove", "commit"} => Left(q) = 1 + Len(q.todo)
         /\ q.pc = "begin" => Left(q) = 4 + Len(q.todo)
         /\ q.pc = "wipe" => Left(q) = 3 + Len(q.todo)
         /\ q.pc = "fill" => Left(q) = 2 + Len(q.todo)
         /\ q.pc = "reset0" => Left(q) = 3
         /\ q.pc = "reset1" => Left(q) = 2
         /\ q.pc = "reset2" => Left(q) = 1
BY DEF Left, Ahead, Serving

\* There is something ahead of every request that has started.
LEMMA LeftPositive ==
  ASSUME TypeOK, NEW r \in Requests, req[r].pc # "idle"
  PROVE  Left(req[r]) \in Nat \ {0}
<1>1. CASE req[r].pc \in Serving
  <2>1. Len(req[r].todo) \in Nat
    BY <1>1, ServingType
  <2> QED BY <1>1, <2>1, LeftAt DEF Serving
<1>2. CASE req[r].pc \in Resetting
  BY <1>2, LeftAt DEF Resetting
<1> QED BY <1>1, <1>2, RequestType

\* The items a change of the program counter alone leaves.
LEMMA GotoTodo ==
  ASSUME TypeOK, NEW r \in Requests, NEW pc, Goto(r, pc), req[r].pc \in Serving
  PROVE  req'[r].todo = req[r].todo
<1>1. [req[r] EXCEPT !.pc = pc].todo = req[r].todo
  BY RequestType DEF Request
<1>2. req'[r] = [req[r] EXCEPT !.pc = pc]
  BY DEF Goto, TypeOK
<1> QED BY <1>1, <1>2

\* The item that is done leaves one item fewer.
LEMMA TailShorter ==
  ASSUME NEW s \in Seq(Item), s # <<>>
  PROVE  Len(Tail(s)) \in Nat /\ Len(s) \in Nat /\ Len(Tail(s)) < Len(s)
OBVIOUS

\* The only request a step changes is the one that takes it, and that one has
\* less left.
Falls(r) ==
  /\ \A q \in Requests \ {r} : req'[q] = req[q]
  /\ req[r] # Idle => Left(req'[r]) < Left(req[r])

LEMMA DoneFalls ==
  ASSUME TypeOK, NEW r \in Requests, Done(r), req[r].pc # "idle"
  PROVE  Falls(r)
<1>1. req'[r].pc = "idle" /\ \A q \in Requests \ {r} : req'[q] = req[q]
  BY DonePc
<1>2. Left(req'[r]) = 0
  BY <1>1, LeftAt
<1> QED BY <1>1, <1>2, LeftPositive DEF Falls

\* An item of a batch is done, or the batch ends with it.
LEMMA BatchFalls ==
  ASSUME TypeOK, NEW r \in Requests, AddOne(r) \/ RemoveOne(r)
  PROVE  Falls(r)
<1>1. req[r].pc \in {"add", "remove"} /\ req[r].pc \in Serving
  BY AddOnePc DEF Serving
<1>2. CASE Done(r)
  BY <1>1, <1>2, DoneFalls
<1>3. CASE req' = [req EXCEPT ![r].todo = Tail(req[r].todo)]
  <2>1. /\ [req[r] EXCEPT !.todo = Tail(req[r].todo)].pc = req[r].pc
        /\ [req[r] EXCEPT !.todo = Tail(req[r].todo)].todo = Tail(req[r].todo)
    BY <1>1, RequestType DEF Request
  <2>2. req'[r].pc = req[r].pc /\ req'[r].todo = Tail(req[r].todo)
    BY <1>3, <2>1 DEF TypeOK
  <2>3. req[r].todo \in Seq(Item) /\ req[r].todo # <<>>
    BY <1>1, ServingType DEF AddOne, RemoveOne
  <2>4. Left(req'[r]) = 1 + Len(Tail(req[r].todo)) /\ Left(req[r]) = 1 + Len(req[r].todo)
    BY <1>1, <2>2, LeftAt
  <2>5. Left(req'[r]) < Left(req[r])
    BY <2>3, <2>4, TailShorter
  <2> QED BY <2>5, AddOnePc DEF Falls
<1> QED BY <1>2, <1>3 DEF AddOne, RemoveOne

\* A transaction goes from its first statement to its last, or ends.
LEMMA ReplaceFalls ==
  ASSUME TypeOK, NEW r \in Requests,
         Begin(r) \/ Wipe(r) \/ FillOne(r) \/ Rollback(r) \/ FillEnd(r) \/ Commit(r)
  PROVE  Falls(r)
<1>1. req[r].pc \in {"begin", "wipe", "fill", "commit"} /\ req[r].pc \in Serving
  BY DEF Begin, Wipe, FillOne, Rollback, FillEnd, Commit, Serving
<1>2. req[r].todo \in Seq(Item) /\ Len(req[r].todo) \in Nat
  <2>1. req[r].todo \in Seq(Item)
    BY <1>1, ServingType
  <2> QED BY <2>1
<1>3. CASE Begin(r)
  <2>1. /\ req[r].pc = "begin" /\ req'[r].pc = "wipe" /\ req'[r].todo = req[r].todo
        /\ \A q \in Requests \ {r} : req'[q] = req[q]
    BY <1>1, <1>3, GotoPc, GotoTodo DEF Begin
  <2>2. Left(req'[r]) = 3 + Len(req[r].todo) /\ Left(req[r]) = 4 + Len(req[r].todo)
    BY <2>1, LeftAt
  <2> QED BY <1>2, <2>1, <2>2 DEF Falls
<1>4. CASE Wipe(r)
  <2>1. Left(req'[r]) = 2 + Len(req[r].todo) /\ Left(req[r]) = 3 + Len(req[r].todo)
    BY <1>4, WipePc, LeftAt
  <2> QED BY <1>2, <1>4, <2>1, WipePc DEF Falls
<1>5. CASE FillOne(r)
  <2>1. Left(req'[r]) = 2 + Len(Tail(req[r].todo)) /\ Left(req[r]) = 2 + Len(req[r].todo)
    BY <1>5, FillOnePc, LeftAt
  <2>2. req[r].todo # <<>>
    BY <1>5 DEF FillOne
  <2>3. Left(req'[r]) < Left(req[r])
    BY <1>2, <2>1, <2>2, TailShorter
  <2> QED BY <1>5, <2>3, FillOnePc DEF Falls
<1>6. CASE FillEnd(r)
  <2>1. /\ req[r].pc = "fill" /\ req'[r].pc = "commit" /\ req'[r].todo = req[r].todo
        /\ \A q \in Requests \ {r} : req'[q] = req[q]
    BY <1>1, <1>6, GotoPc, GotoTodo DEF FillEnd
  <2>2. Left(req'[r]) = 1 + Len(req[r].todo) /\ Left(req[r]) = 2 + Len(req[r].todo)
    BY <2>1, LeftAt
  <2> QED BY <1>2, <2>1, <2>2 DEF Falls
<1>7. CASE Rollback(r) \/ Commit(r)
  BY <1>1, <1>7, DoneFalls DEF Rollback, Commit
<1> QED BY <1>3, <1>4, <1>5, <1>6, <1>7

\* A reset goes from one table to the next, or ends.
LEMMA ResetFalls ==
  ASSUME TypeOK, NEW r \in Requests, ResetUsers(r) \/ ResetQueues(r) \/ ResetMembers(r)
  PROVE  Falls(r)
<1>1. CASE ResetUsers(r)
  <2>1. /\ req[r].pc = "reset0" /\ req'[r].pc = "reset1"
        /\ \A q \in Requests \ {r} : req'[q] = req[q]
    BY <1>1, GotoPc DEF ResetUsers
  <2>2. Left(req'[r]) = 2 /\ Left(req[r]) = 3
    BY <2>1, LeftAt
  <2> QED BY <2>1, <2>2 DEF Falls
<1>2. CASE ResetQueues(r)
  <2>1. /\ req[r].pc = "reset1" /\ req'[r].pc = "reset2"
        /\ \A q \in Requests \ {r} : req'[q] = req[q]
    BY <1>2, GotoPc DEF ResetQueues
  <2>2. Left(req'[r]) = 1 /\ Left(req[r]) = 2
    BY <2>1, LeftAt
  <2> QED BY <2>1, <2>2 DEF Falls
<1>3. CASE ResetMembers(r)
  BY <1>3, DoneFalls DEF ResetMembers
<1> QED BY <1>1, <1>2, <1>3

\* A step changes no request, starts one that was idle or brings one nearer to
\* its end.
LEMMA FallStep ==
  TypeOK /\ [Next]_vars => UNCHANGED req \/ \E r \in Requests : Falls(r)
<1> SUFFICES ASSUME TypeOK, [Next]_vars
             PROVE  UNCHANGED req \/ \E r \in Requests : Falls(r)
  OBVIOUS
<1>1. ASSUME NEW u \in Users, UserCreate(u) PROVE UNCHANGED req
  BY <1>1 DEF UserCreate
<1>2. ASSUME NEW q \in Queues, QueueCreate(q) \/ QueueDelete(q) PROVE UNCHANGED req
  BY <1>2 DEF QueueCreate, QueueDelete
<1>3. ASSUME NEW r \in Requests, NEW q \in Queues, NEW want, NEW pc, Start(r, q, pc, want)
      PROVE  Falls(r)
  BY <1>3 DEF Start, Falls, TypeOK
<1>4. ASSUME NEW r \in Requests, ResetStart(r) PROVE Falls(r)
  BY <1>4 DEF ResetStart, Falls, TypeOK
<1>5. ASSUME NEW r \in Requests, Reject(r) \/ Read(r) \/ BatchEnd(r) PROVE Falls(r)
  BY <1>5, DoneFalls DEF Reject, Read, BatchEnd
<1>6. CASE UNCHANGED vars
  BY <1>6 DEF vars
<1> QED
  BY <1>1, <1>2, <1>3, <1>4, <1>5, <1>6, BatchFalls, ReplaceFalls, ResetFalls
     DEF Next, Step, AddStart, RemoveStart, ReplaceStart, ReadStart

\* Each step of a request that has started leaves it less to do, for batches
\* of any length and any number of requests: a set replace whose INSERT fails
\* is not tried again and no batch goes back, so a request that is served its
\* turns ends after at most Left of them.
THEOREM RequestsRunOut == Spec => StatementsRunOut
<1> DEFINE Fall == \A r \in Requests :
                     req[r] # Idle /\ req'[r] # req[r] => Left(req'[r]) < Left(req[r])
<1>1. TypeOK /\ [Next]_vars => [Fall]_vars
  <2> SUFFICES ASSUME TypeOK, [Next]_vars PROVE Fall
    OBVIOUS
  <2>1. CASE UNCHANGED req
    BY <2>1
  <2>2. ASSUME NEW r \in Requests, Falls(r) PROVE Fall
    BY <2>2 DEF Falls
  <2> QED BY <2>1, <2>2, FallStep
<1> QED BY <1>1, TypeCorrect, PTL DEF Spec, StatementsRunOut
=============================================================================
