--------------------------- MODULE SideMaps_proofs ---------------------------
(***************************************************************************)
(* Proofs about SideMaps, for any number of requests, owners, ids and      *)
(* libraries and batches of any length.                                    *)
(***************************************************************************)
EXTENDS SideMaps, TLAPS

(***************************************************************************)
(* The inductive invariant.                                                *)
(***************************************************************************)
Dealing == {"add", "remove"}

\* QuietBatchExact after every id of a batch, not only the last.
Exact(r) ==
  \A i \in Items \ req[r].others :
    i \in Listed(req[r].owner) <=>
      IF i \in DoneIds(r) THEN req[r].pc = "add" ELSE i \in req[r].before

BatchesExact == \A r \in Requests : req[r].pc \in Dealing => Exact(r)

\* What is stored, or about to be, belongs to an id that was handed out.
KnownIds ==
  /\ queues \cup libs \cup buried \subseteq issued
  /\ \A r \in Requests :
       /\ req[r].pc \in Dealing => req[r].owner \in Groups \cup issued
       /\ req[r].pc = "store" => req[r].lib \in issued

\* No update holds a copy of a library that was deleted for good.
BuriedUnheld == \A r \in Requests : req[r].pc = "store" => req[r].lib \notin buried

IInv ==
  /\ TypeOK
  /\ ListedOnce
  /\ BatchesExact
  /\ KnownIds
  /\ CodesHaveHadQueue
  /\ BuriedUnheld
  /\ BuriedStaysBuried

(***************************************************************************)
(* Lists.                                                                  *)
(***************************************************************************)
In(s, i) == \E n \in DOMAIN s : s[n] = i
Once(s) == \A m, n \in DOMAIN s : s[m] = s[n] => m = n

\* What the loop of a removal leaves of a list without repetitions.
LEMMA WithoutFacts ==
  ASSUME NEW s \in Seq(Items), Once(s), NEW i \in Items
  PROVE  /\ Without(s, i) \in Seq(Items)
         /\ Once(Without(s, i))
         /\ \A j \in Items : In(Without(s, i), j) <=> j # i /\ In(s, j)
<1> DEFINE t == Without(s, i)
<1>1. CASE ~In(s, i)
  <2>1. t = s
    BY <1>1 DEF Without, In
  <2> QED BY <1>1, <2>1 DEF In
<1>2. CASE In(s, i)
  <2> DEFINE at == CHOOSE n \in DOMAIN s : s[n] = i
  <2>1. at \in 1..Len(s) /\ s[at] = i
    BY <1>2 DEF In
  <2>2. t = [n \in 1..(Len(s) - 1) |-> IF n < at THEN s[n] ELSE s[n + 1]]
    BY <1>2 DEF Without, In
  <2> HIDE DEF t, at
  <2>3. Len(s) - 1 \in Nat /\ Len(s) \in Nat
    BY <2>1
  <2>4. \A n \in 1..(Len(s) - 1) :
          /\ n < at => n \in DOMAIN s /\ t[n] = s[n]
          /\ ~(n < at) => n + 1 \in DOMAIN s /\ t[n] = s[n + 1]
    BY <2>1, <2>2, <2>3
  <2>5. t \in [1..(Len(s) - 1) -> Items]
    <3>1. \A n \in 1..(Len(s) - 1) : t[n] \in Items
      BY <2>4
    <3> QED BY <2>2, <3>1
  <2>6. t \in Seq(Items) /\ DOMAIN t = 1..(Len(s) - 1)
    BY <2>3, <2>5
  <2>7. Once(t)
    <3> SUFFICES ASSUME NEW m \in 1..(Len(s) - 1), NEW n \in 1..(Len(s) - 1), t[m] = t[n]
                 PROVE  m = n
      BY <2>6 DEF Once
    <3> QED BY <2>1, <2>4 DEF Once
  <2>8. ASSUME NEW j \in Items, In(t, j) PROVE j # i /\ In(s, j)
    <3>1. PICK n \in 1..(Len(s) - 1) : t[n] = j
      BY <2>6, <2>8 DEF In
    <3> QED BY <2>1, <2>4, <3>1 DEF In, Once
  <2>9. ASSUME NEW j \in Items, j # i, In(s, j) PROVE In(t, j)
    <3>1. PICK n \in 1..Len(s) : s[n] = j
      BY <2>9 DEF In
    <3>2. n # at
      BY <2>1, <2>9, <3>1
    <3>3. CASE n < at
      <4>1. n \in 1..(Len(s) - 1) /\ t[n] = j
        BY <2>1, <2>3, <2>4, <3>1, <3>3
      <4> QED BY <2>6, <4>1 DEF In
    <3>4. CASE ~(n < at)
      <4>1. n - 1 \in 1..(Len(s) - 1) /\ ~(n - 1 < at) /\ (n - 1) + 1 = n
        BY <2>1, <2>3, <3>1, <3>2, <3>4
      <4>2. t[n - 1] = j
        BY <2>4, <3>1, <4>1
      <4> QED BY <2>6, <4>1, <4>2 DEF In
    <3> QED BY <3>3, <3>4
  <2> QED BY <2>6, <2>7, <2>8, <2>9 DEF t
<1> QED BY <1>1, <1>2

LEMMA AppendFacts ==
  ASSUME NEW s \in Seq(Items), Once(s), NEW i \in Items, ~In(s, i)
  PROVE  /\ Append(s, i) \in Seq(Items)
         /\ Once(Append(s, i))
         /\ \A j \in Items : In(Append(s, i), j) <=> j = i \/ In(s, j)
<1> DEFINE t == Append(s, i)
<1>1. /\ t \in Seq(Items) /\ Len(t) = Len(s) + 1 /\ Len(s) \in Nat
      /\ t[Len(s) + 1] = i
      /\ \A n \in 1..Len(s) : t[n] = s[n]
  OBVIOUS
<1> HIDE DEF t
<1>2. /\ DOMAIN t = 1..(Len(s) + 1) /\ DOMAIN s = 1..Len(s)
      /\ \A n \in DOMAIN t : n \in DOMAIN s \/ n = Len(s) + 1
  BY <1>1
<1>3. Once(t)
  BY <1>1, <1>2 DEF Once, In
<1>4. \A j \in Items : In(t, j) <=> j = i \/ In(s, j)
  BY <1>1, <1>2 DEF In
<1> QED BY <1>1, <1>3, <1>4 DEF t

(***************************************************************************)
(* Type correctness and the lists.                                         *)
(***************************************************************************)
Request == ListRequest \cup ReadRequest \cup LibRequest \cup {Idle}

LEMMA RequestType ==
  ASSUME TypeOK, NEW r \in Requests
  PROVE  /\ req[r].pc \in Dealing => req[r] \in ListRequest
         /\ req[r].pc = "read" => req[r] \in ReadRequest
         /\ req[r].pc = "store" => req[r] \in LibRequest
         /\ req[r].pc \notin Dealing \cup {"read", "store"} => req[r] = Idle
BY DEF TypeOK, ListRequest, ReadRequest, LibRequest, Idle, Dealing

\* What Progress does to each request.
LEMMA ProgressFacts ==
  ASSUME TypeOK, NEW r \in Requests, req[r].pc \in Dealing, Progress(r), NextId(r) \in Items
  PROVE  /\ req' \in [Requests -> Request]
         /\ req'[r] \in ListRequest /\ req'[r].n = req[r].n + 1
         /\ req'[r].others = req[r].others
         /\ \A q \in Requests :
              /\ req'[q].pc = req[q].pc
              /\ req[q].pc \notin Dealing => req'[q] = req[q]
              /\ req[q].pc \in Dealing =>
                   /\ req'[q].owner = req[q].owner /\ req'[q].batch = req[q].batch
                   /\ req'[q].before = req[q].before
                   /\ q # r => req'[q].n = req[q].n
                   /\ q # r => req'[q].others = IF req[q].owner = req[r].owner
                                                  THEN req[q].others \cup {NextId(r)}
                                                  ELSE req[q].others
<1>1. req[r] \in ListRequest
  BY RequestType
<1>2. /\ req'[r] = [req[r] EXCEPT !.n = @ + 1]
      /\ req'[r] \in ListRequest
  BY <1>1 DEF Progress, ListRequest
<1>3. /\ req'[r].pc = req[r].pc /\ req'[r].owner = req[r].owner
      /\ req'[r].batch = req[r].batch /\ req'[r].before = req[r].before
      /\ req'[r].n = req[r].n + 1 /\ req'[r].others = req[r].others
  BY <1>1, <1>2 DEF ListRequest
<1>4. ASSUME NEW q \in Requests \ {r}
      PROVE  /\ req'[q] \in Request
             /\ req'[q].pc = req[q].pc
             /\ req[q].pc \notin Dealing => req'[q] = req[q]
             /\ req[q].pc \in Dealing =>
                   /\ req'[q].owner = req[q].owner /\ req'[q].batch = req[q].batch
                   /\ req'[q].before = req[q].before /\ req'[q].n = req[q].n
                   /\ req'[q].others = IF req[q].owner = req[r].owner
                                         THEN req[q].others \cup {NextId(r)}
                                         ELSE req[q].others
  <2>1. CASE req[q].pc \in Dealing /\ req[q].owner = req[r].owner
    <3>1. req[q] \in ListRequest
      BY <2>1, RequestType
    <3> DEFINE new == [req[q] EXCEPT !.others = @ \cup {NextId(r)}]
    <3>2. req'[q] = new
      BY <2>1 DEF Progress, Dealing
    <3>3. /\ new \in ListRequest /\ new.pc = req[q].pc /\ new.owner = req[q].owner
          /\ new.batch = req[q].batch /\ new.before = req[q].before /\ new.n = req[q].n
          /\ new.others = req[q].others \cup {NextId(r)}
      <4> DEFINE id == NextId(r)
      <4>1. id \in Items
        OBVIOUS
      <4> HIDE DEF id
      <4> QED BY <3>1, <4>1 DEF ListRequest, id
    <3> HIDE DEF new
    <3> QED BY <2>1, <3>2, <3>3 DEF Request
  <2>2. CASE ~(req[q].pc \in Dealing /\ req[q].owner = req[r].owner)
    <3>1. req'[q] = req[q]
      BY <2>2 DEF Progress, Dealing
    <3> QED BY <2>2, <3>1 DEF TypeOK, Request
  <2> QED BY <2>1, <2>2
<1>5. req' \in [Requests -> Request]
  <2>1. \A q \in Requests : req'[q] \in Request
    BY <1>2, <1>4 DEF Request
  <2>2. req' = [q \in Requests |-> req'[q]]
    BY DEF Progress
  <2> QED BY <2>1, <2>2
<1> QED BY <1>2, <1>3, <1>4, <1>5

LEMMA NextIdType ==
  ASSUME TypeOK, NEW r \in Requests, req[r].pc \in Dealing, req[r].n < Len(req[r].batch)
  PROVE  /\ NextId(r) \in Items /\ NextId(r) = req[r].batch[req[r].n + 1]
         /\ req[r].owner \in Owners
BY RequestType DEF NextId, ListRequest

\* A critical section of an add or a remove changes one id of one list.
Touched(r) ==
  /\ lists' \in [Owners -> Seq(Items)]
  /\ \A p \in Owners : Once(lists'[p])
  /\ \A p \in Owners, i \in Items :
       In(lists'[p], i) <=> IF p = req[r].owner /\ i = NextId(r)
                              THEN req[r].pc = "add" ELSE In(lists[p], i)
  /\ \A p \in Owners : p # req[r].owner => lists'[p] = lists[p]

LEMMA TouchedByOne ==
  ASSUME TypeOK, ListedOnce, NEW r \in Requests, AddOne(r) \/ RemoveOne(r)
  PROVE  Touched(r) /\ req[r].pc \in Dealing /\ req[r].n < Len(req[r].batch) /\ Progress(r)
<1> DEFINE o == req[r].owner
           id == NextId(r)
<1>1. req[r].pc \in Dealing /\ req[r].n < Len(req[r].batch) /\ Progress(r)
  BY DEF AddOne, RemoveOne, Dealing
<1>2. id \in Items /\ o \in Owners
  BY <1>1, NextIdType
<1>3. /\ \A p \in Owners : lists[p] \in Seq(Items) /\ Once(lists[p])
      /\ lists \in [Owners -> Seq(Items)]
  BY DEF TypeOK, ListedOnce, Once
<1>4. PICK t \in Seq(Items) :
        /\ lists' = [lists EXCEPT ![o] = t]
        /\ Once(t)
        /\ \A i \in Items : In(t, i) <=> IF i = id THEN req[r].pc = "add" ELSE In(lists[o], i)
  <2>1. CASE AddOne(r) /\ In(lists[o], id)
    <3>1. lists' = [lists EXCEPT ![o] = lists[o]] /\ req[r].pc = "add"
      BY <2>1 DEF AddOne, Listed, In
    <3> HIDE DEF o, id
    <3> QED BY <1>2, <1>3, <2>1, <3>1
  <2>2. CASE AddOne(r) /\ ~In(lists[o], id)
    <3>1. lists' = [lists EXCEPT ![o] = Append(lists[o], id)] /\ req[r].pc = "add"
      BY <2>2 DEF AddOne, Listed, In
    <3> HIDE DEF o, id
    <3>2. /\ Append(lists[o], id) \in Seq(Items) /\ Once(Append(lists[o], id))
          /\ \A j \in Items : In(Append(lists[o], id), j) <=> j = id \/ In(lists[o], j)
      BY <1>2, <1>3, <2>2, AppendFacts
    <3> QED BY <1>2, <3>1, <3>2
  <2>3. CASE RemoveOne(r)
    <3>1. lists' = [lists EXCEPT ![o] = Without(lists[o], id)] /\ req[r].pc = "remove"
      BY <2>3 DEF RemoveOne
    <3> HIDE DEF o, id
    <3>2. /\ Without(lists[o], id) \in Seq(Items) /\ Once(Without(lists[o], id))
          /\ \A j \in Items : In(Without(lists[o], id), j) <=> j # id /\ In(lists[o], j)
      BY <1>2, <1>3, WithoutFacts
    <3> QED BY <1>2, <3>1, <3>2
  <2> QED BY <2>1, <2>2, <2>3
<1> HIDE DEF o, id
<1>5. /\ lists' \in [Owners -> Seq(Items)] /\ lists'[o] = t
      /\ \A p \in Owners : p # o => lists'[p] = lists[p]
  BY <1>2, <1>3, <1>4
<1>6. /\ \A p \in Owners : Once(lists'[p])
      /\ \A p \in Owners, i \in Items :
           In(lists'[p], i) <=> IF p = o /\ i = id THEN req[r].pc = "add" ELSE In(lists[p], i)
  BY <1>3, <1>4, <1>5
<1> QED BY <1>1, <1>5, <1>6 DEF Touched, o, id

\* Every step keeps the types, and no list comes to hold an id twice.
LEMMA TypeStep == TypeOK /\ ListedOnce /\ [Next]_vars => TypeOK' /\ ListedOnce'
<1> SUFFICES ASSUME TypeOK, ListedOnce, [Next]_vars PROVE TypeOK' /\ ListedOnce'
  OBVIOUS
<1> DEFINE Ids == /\ queues' \subseteq Queues /\ issued' \subseteq Queues \cup Libs
                  /\ maps' \subseteq {"groupMembers", "queueWrapups"}
                  /\ libs' \subseteq Libs /\ buried' \subseteq Libs
<1>1. UNCHANGED <<queues, issued, maps, libs, buried>> => Ids
  BY DEF TypeOK
<1> HIDE DEF Ids
<1>2. lists' = lists => lists' \in [Owners -> Seq(Items)] /\ ListedOnce'
  BY DEF TypeOK, ListedOnce
<1>3. Ids /\ lists' \in [Owners -> Seq(Items)] /\ req' \in [Requests -> Request] => TypeOK'
  BY DEF TypeOK, Ids, Request
<1>4. ASSUME NEW r \in Requests, NEW new \in Request, req' = [req EXCEPT ![r] = new]
      PROVE  req' \in [Requests -> Request]
  BY <1>4 DEF TypeOK, Request
<1>5. ASSUME NEW r \in Requests, Done(r) PROVE req' \in [Requests -> Request]
  BY <1>5 DEF TypeOK, Request, Done
<1>6. req' = req => req' \in [Requests -> Request]
  BY DEF TypeOK, Request
<1>7. ASSUME NEW q \in Queues, QueueCreate(q) \/ QueueDelete(q) PROVE TypeOK' /\ ListedOnce'
  <2>1. Ids /\ UNCHANGED <<lists, req>>
    BY <1>7 DEF QueueCreate, QueueDelete, Ids, TypeOK
  <2> QED BY <1>2, <1>3, <1>6, <2>1
<1>8. CASE Reset \/ Restore \/ UNCHANGED vars
  <2>1. Ids /\ UNCHANGED <<lists, req>>
    BY <1>8 DEF Reset, Restore, vars, Ids, TypeOK
  <2> QED BY <1>2, <1>3, <1>6, <2>1
<1>9. CASE Restart
  <2>1. Ids /\ req' \in [Requests -> Request]
    BY <1>9 DEF Restart, Ids, TypeOK, Request
  <2>2. lists' \in [Owners -> Seq(Items)] /\ ListedOnce'
    BY <1>9 DEF Restart, ListedOnce
  <2> QED BY <1>3, <2>1, <2>2
<1>10. ASSUME NEW r \in Requests, NEW o \in Owners, NEW batch \in Batches,
              AddStart(r, o, batch) \/ RemoveStart(r, o, batch)
       PROVE  TypeOK' /\ ListedOnce'
  <2>1. PICK pc \in {"add", "remove"} : ListStart(r, o, pc, batch)
    BY <1>10 DEF AddStart, RemoveStart
  <2>2. batch \in Seq(Items) /\ Listed(o) \subseteq Items
    BY BatchesAssumption DEF Listed, TypeOK
  <2>3. [pc |-> pc, owner |-> o, batch |-> batch, n |-> 0, before |-> Listed(o), others |-> {}]
          \in Request
    BY <2>2 DEF Request, ListRequest
  <2> QED BY <1>1, <1>2, <1>3, <1>4, <2>1, <2>3 DEF ListStart
<1>11. ASSUME NEW r \in Requests,
              Reject(r) \/ RemovePanics(r) \/ BatchEnd(r) \/ Read(r) \/ LibReject(r)
       PROVE  TypeOK' /\ ListedOnce'
  BY <1>1, <1>2, <1>3, <1>5, <1>11 DEF Reject, RemovePanics, BatchEnd, Read, LibReject
<1>12. ASSUME NEW r \in Requests, AddOne(r) \/ RemoveOne(r) PROVE TypeOK' /\ ListedOnce'
  <2>1. Touched(r) /\ req[r].pc \in Dealing /\ req[r].n < Len(req[r].batch) /\ Progress(r)
    BY <1>12, TouchedByOne
  <2>2. Ids
    BY <1>12 DEF AddOne, RemoveOne, Ids, TypeOK, MapOf
  <2>3. req' \in [Requests -> Request]
    BY <2>1, NextIdType, ProgressFacts
  <2> QED BY <1>3, <2>1, <2>2, <2>3 DEF Touched, ListedOnce, Once
<1>13. ASSUME NEW r \in Requests, NEW q \in Queues, ReadStart(r, q) PROVE TypeOK' /\ ListedOnce'
  <2>1. [pc |-> "read", owner |-> q] \in Request
    BY DEF Request, ReadRequest
  <2> QED BY <1>1, <1>2, <1>3, <1>4, <1>13, <2>1 DEF ReadStart
<1>14. ASSUME NEW r \in Requests, NEW l \in Libs, LibGet(r, l) PROVE TypeOK' /\ ListedOnce'
  <2>1. [pc |-> "store", lib |-> l] \in Request
    BY DEF Request, LibRequest
  <2> QED BY <1>1, <1>2, <1>3, <1>4, <1>14, <2>1 DEF LibGet
<1>15. ASSUME NEW r \in Requests, LibStore(r) PROVE TypeOK' /\ ListedOnce'
  <2>1. Ids
    BY <1>15, RequestType DEF LibStore, Ids, TypeOK, LibRequest
  <2> QED BY <1>2, <1>3, <1>5, <1>15, <2>1 DEF LibStore
<1>16. ASSUME NEW l \in Libs, LibCreate(l) \/ LibDelete(l) PROVE TypeOK' /\ ListedOnce'
  <2>1. Ids /\ UNCHANGED <<lists, req>>
    BY <1>16 DEF LibCreate, LibDelete, Ids, TypeOK
  <2> QED BY <1>2, <1>3, <1>6, <2>1
<1> QED
  BY <1>7, <1>8, <1>9, <1>10, <1>11, <1>12, <1>13, <1>14, <1>15, <1>16 DEF Next

(***************************************************************************)
(* Batches.                                                                *)
(***************************************************************************)
\* A step that leaves the lists alone, and every batch it does not end.
LEMMA ExactKept ==
  ASSUME BatchesExact, lists' = lists,
         \A r \in Requests : req'[r].pc \in Dealing => req'[r] = req[r]
  PROVE  BatchesExact'
BY DEF BatchesExact, Exact, Listed, DoneIds, Dealing

\* A step that changes one id of a list is its request's progress on that id;
\* every other request on the list counts it among the others.
LEMMA ExactTouched ==
  ASSUME TypeOK, BatchesExact, NEW r \in Requests, Touched(r), req[r].pc \in Dealing,
         req[r].n < Len(req[r].batch), Progress(r)
  PROVE  BatchesExact'
<1>1. NextId(r) \in Items /\ NextId(r) = req[r].batch[req[r].n + 1] /\ req[r].owner \in Owners
  BY NextIdType
<1> SUFFICES ASSUME NEW q \in Requests, req'[q].pc \in Dealing,
                    NEW i \in Items \ req'[q].others
             PROVE  In(lists'[req'[q].owner], i) <=>
                      IF \E j \in 1..req'[q].n : req'[q].batch[j] = i
                        THEN req'[q].pc = "add" ELSE i \in req'[q].before
  BY DEF BatchesExact, Exact, Listed, DoneIds, In
<1>2. req[q].pc \in Dealing /\ req[q] \in ListRequest
  BY <1>1, ProgressFacts, RequestType
<1>3. /\ req'[q].pc = req[q].pc /\ req'[q].owner = req[q].owner
      /\ req'[q].batch = req[q].batch /\ req'[q].before = req[q].before
      /\ req[q].owner \in Owners
  BY <1>1, <1>2, ProgressFacts DEF ListRequest
<1>4. i \notin req[q].others =>
        (In(lists[req[q].owner], i) <=>
           IF \E j \in 1..req[q].n : req[q].batch[j] = i
             THEN req[q].pc = "add" ELSE i \in req[q].before)
  BY <1>2 DEF BatchesExact, Exact, Listed, DoneIds, In
<1>5. CASE q = r
  <2>1. req'[r].n = req[r].n + 1 /\ req'[r].others = req[r].others /\ req[r].n \in Nat
    BY <1>1, <1>2, <1>5, ProgressFacts DEF ListRequest
  <2>2. \A j \in 1..(req[r].n + 1) : j \in 1..req[r].n \/ j = req[r].n + 1
    BY <2>1
  <2>3. \A j \in 1..req[r].n : j \in 1..(req[r].n + 1)
    BY <2>1
  <2>4. req[r].n + 1 \in 1..(req[r].n + 1)
    BY <2>1
  <2>5. (\E j \in 1..(req[r].n + 1) : req[r].batch[j] = i)
          <=> i = NextId(r) \/ \E j \in 1..req[r].n : req[r].batch[j] = i
    BY <1>1, <2>2, <2>3, <2>4
  <2> QED BY <1>1, <1>3, <1>4, <1>5, <2>1, <2>5 DEF Touched
<1>6. CASE q # r /\ req[q].owner = req[r].owner
  <2>1. req'[q].n = req[q].n /\ req'[q].others = req[q].others \cup {NextId(r)}
    BY <1>1, <1>2, <1>6, ProgressFacts
  <2>2. i # NextId(r) /\ i \notin req[q].others
    BY <2>1
  <2> QED BY <1>3, <1>4, <1>6, <2>1, <2>2 DEF Touched
<1>7. CASE q # r /\ req[q].owner # req[r].owner
  <2>1. req'[q].n = req[q].n /\ req'[q].others = req[q].others
    BY <1>1, <1>2, <1>7, ProgressFacts
  <2> QED BY <1>3, <1>4, <1>7, <2>1 DEF Touched
<1> QED BY <1>5, <1>6, <1>7

LEMMA ExactStep == TypeOK /\ ListedOnce /\ BatchesExact /\ [Next]_vars => BatchesExact'
<1> SUFFICES ASSUME TypeOK, ListedOnce, BatchesExact, [Next]_vars PROVE BatchesExact'
  OBVIOUS
<1>1. ASSUME NEW r \in Requests, NEW new, new.pc \notin Dealing, req' = [req EXCEPT ![r] = new]
      PROVE  \A q \in Requests : req'[q].pc \in Dealing => req'[q] = req[q]
  BY <1>1 DEF TypeOK
<1>2. ASSUME NEW r \in Requests, Done(r)
      PROVE  \A q \in Requests : req'[q].pc \in Dealing => req'[q] = req[q]
  BY <1>2 DEF Done, Idle, Dealing, TypeOK
<1>3. ASSUME NEW q \in Queues, QueueCreate(q) \/ QueueDelete(q) PROVE BatchesExact'
  BY <1>3, ExactKept DEF QueueCreate, QueueDelete
<1>4. CASE Reset \/ Restore \/ UNCHANGED vars
  BY <1>4, ExactKept DEF Reset, Restore, vars
<1>5. CASE Restart
  BY <1>5 DEF Restart, BatchesExact, Idle, Dealing
<1>6. ASSUME NEW r \in Requests, NEW o \in Owners, NEW batch \in Batches,
             AddStart(r, o, batch) \/ RemoveStart(r, o, batch)
      PROVE  BatchesExact'
  <2>1. PICK pc \in {"add", "remove"} : ListStart(r, o, pc, batch)
    BY <1>6 DEF AddStart, RemoveStart
  <2>2. /\ req'[r] = [pc |-> pc, owner |-> o, batch |-> batch, n |-> 0,
                      before |-> Listed(o), others |-> {}]
        /\ \A q \in Requests \ {r} : req'[q] = req[q]
        /\ lists' = lists
    BY <2>1 DEF ListStart, TypeOK
  <2>3. Exact(r)'
    BY <2>2 DEF Exact, Listed, DoneIds
  <2>4. ASSUME NEW q \in Requests \ {r}, req[q].pc \in Dealing PROVE Exact(q)'
    BY <2>2, <2>4 DEF BatchesExact, Exact, Listed, DoneIds
  <2> QED BY <2>2, <2>3, <2>4 DEF BatchesExact
<1>7. ASSUME NEW r \in Requests,
             Reject(r) \/ RemovePanics(r) \/ BatchEnd(r) \/ Read(r) \/ LibReject(r) \/ LibStore(r)
      PROVE  BatchesExact'
  <2>1. Done(r) /\ lists' = lists
    BY <1>7 DEF Reject, RemovePanics, BatchEnd, Read, LibReject, LibStore
  <2> QED BY <1>2, <2>1, ExactKept
<1>8. ASSUME NEW r \in Requests, AddOne(r) \/ RemoveOne(r) PROVE BatchesExact'
  BY <1>8, TouchedByOne, ExactTouched
<1>9. ASSUME NEW r \in Requests, NEW q \in Queues, ReadStart(r, q) PROVE BatchesExact'
  BY <1>1, <1>9, ExactKept DEF ReadStart, Dealing
<1>10. ASSUME NEW r \in Requests, NEW l \in Libs, LibGet(r, l) PROVE BatchesExact'
  BY <1>1, <1>10, ExactKept DEF LibGet, Dealing
<1>11. ASSUME NEW l \in Libs, LibCreate(l) \/ LibDelete(l) PROVE BatchesExact'
  BY <1>11, ExactKept DEF LibCreate, LibDelete
<1> QED
  BY <1>3, <1>4, <1>5, <1>6, <1>7, <1>8, <1>9, <1>10, <1>11 DEF Next

(***************************************************************************)
(* Queues without a past, and buried libraries.                            *)
(***************************************************************************)
\* What the invariant says of ids, in one piece.
IdsOK == KnownIds /\ CodesHaveHadQueue /\ BuriedUnheld /\ BuriedStaysBuried

\* A step that keeps the ids, or forgets some, and starts no request.
LEMMA IdsKept ==
  ASSUME TypeOK, IdsOK, issued' = issued, queues' \cup libs' \subseteq issued,
         lists' = lists, libs' \subseteq libs, buried' = buried,
         \A r \in Requests : req'[r].pc \in Dealing \cup {"store"} => req'[r] = req[r]
  PROVE  IdsOK'
BY DEF IdsOK, KnownIds, CodesHaveHadQueue, BuriedUnheld, BuriedStaysBuried

LEMMA IdsStep == TypeOK /\ ListedOnce /\ IdsOK /\ [Next]_vars => IdsOK'
<1> SUFFICES ASSUME TypeOK, ListedOnce, IdsOK, [Next]_vars PROVE IdsOK'
  OBVIOUS
<1>1. queues \subseteq issued /\ libs \subseteq issued /\ buried \subseteq issued
  BY DEF IdsOK, KnownIds
<1>2. ASSUME NEW r \in Requests, NEW new, new.pc \notin Dealing \cup {"store"},
             req' = [req EXCEPT ![r] = new]
      PROVE  \A q \in Requests : req'[q].pc \in Dealing \cup {"store"} => req'[q] = req[q]
  BY <1>2 DEF TypeOK
<1>3. ASSUME NEW r \in Requests, Done(r)
      PROVE  \A q \in Requests : req'[q].pc \in Dealing \cup {"store"} => req'[q] = req[q]
  BY <1>3 DEF Done, Idle, Dealing, TypeOK
<1>4. ASSUME NEW q \in Queues, QueueCreate(q) PROVE IdsOK'
  BY <1>4 DEF QueueCreate, IdsOK, KnownIds, CodesHaveHadQueue, BuriedUnheld, BuriedStaysBuried
<1>5. ASSUME NEW q \in Queues, QueueDelete(q) PROVE IdsOK'
  BY <1>1, <1>5, IdsKept DEF QueueDelete
<1>6. CASE Reset \/ Restore \/ UNCHANGED vars
  BY <1>1, <1>6, IdsKept DEF Reset, Restore, vars
<1>7. CASE Restart
  <2>1. /\ \A r \in Requests : req'[r].pc = "idle"
        /\ \A q \in Queues : lists'[q] = <<>>
        /\ libs' = {} /\ buried' \subseteq issued /\ UNCHANGED <<queues, issued>>
    BY <1>7 DEF Restart, Idle, Owners
  <2> QED
    BY <1>1, <2>1
       DEF IdsOK, KnownIds, CodesHaveHadQueue, BuriedUnheld, BuriedStaysBuried, Dealing
<1>8. ASSUME NEW r \in Requests, NEW o \in Owners, NEW batch \in Batches,
             AddStart(r, o, batch) \/ RemoveStart(r, o, batch)
      PROVE  IdsOK'
  <2>1. PICK pc \in {"add", "remove"} : ListStart(r, o, pc, batch)
    BY <1>8 DEF AddStart, RemoveStart
  <2>2. /\ req'[r].pc = pc /\ req'[r].owner = o
        /\ \A q \in Requests \ {r} : req'[q] = req[q]
        /\ UNCHANGED <<queues, issued, maps, lists, libs, buried>>
        /\ o \in Groups \cup issued
    BY <1>1, <2>1 DEF ListStart, TypeOK, Present
  <2> QED BY <2>2 DEF IdsOK, KnownIds, CodesHaveHadQueue, BuriedUnheld, BuriedStaysBuried
<1>9. ASSUME NEW r \in Requests,
             Reject(r) \/ RemovePanics(r) \/ BatchEnd(r) \/ Read(r) \/ LibReject(r)
      PROVE  IdsOK'
  <2>1. Done(r) /\ UNCHANGED <<queues, issued, lists, libs, buried>>
    BY <1>9 DEF Reject, RemovePanics, BatchEnd, Read, LibReject
  <2> QED BY <1>1, <1>3, <2>1, IdsKept
<1>10. ASSUME NEW r \in Requests, AddOne(r) \/ RemoveOne(r) PROVE IdsOK'
  <2>1. Touched(r) /\ req[r].pc \in Dealing /\ req[r].n < Len(req[r].batch) /\ Progress(r)
    BY <1>10, TouchedByOne
  <2>2. UNCHANGED <<queues, issued, libs, buried>>
    BY <1>10 DEF AddOne, RemoveOne
  <2>3. \A q \in Requests :
          /\ req'[q].pc = req[q].pc
          /\ req[q].pc \in Dealing => req'[q].owner = req[q].owner
          /\ req[q].pc = "store" => req'[q] = req[q]
    BY <2>1, NextIdType, ProgressFacts DEF Dealing
  <2>4. \A q \in Queues \ issued : q # req[r].owner /\ q \in Owners
    BY <2>1, IdsAssumption DEF IdsOK, KnownIds, Owners
  <2> QED
    BY <2>1, <2>2, <2>3, <2>4
       DEF Touched, IdsOK, KnownIds, CodesHaveHadQueue, BuriedUnheld, BuriedStaysBuried
<1>11. ASSUME NEW r \in Requests, NEW q \in Queues, ReadStart(r, q) PROVE IdsOK'
  BY <1>1, <1>2, <1>11, IdsKept DEF ReadStart, Dealing
<1>12. ASSUME NEW r \in Requests, NEW l \in Libs, LibGet(r, l) PROVE IdsOK'
  <2>1. /\ req'[r] = [pc |-> "store", lib |-> l]
        /\ \A q \in Requests \ {r} : req'[q] = req[q]
        /\ UNCHANGED <<queues, issued, lists, libs, buried>>
        /\ l \in libs
    BY <1>12 DEF LibGet, TypeOK
  <2>2. l \in issued /\ l \notin buried
    BY <1>1, <2>1 DEF IdsOK, BuriedStaysBuried
  <2> QED
    BY <2>1, <2>2
       DEF IdsOK, KnownIds, CodesHaveHadQueue, BuriedUnheld, BuriedStaysBuried, Dealing
<1>13. ASSUME NEW r \in Requests, LibStore(r) PROVE IdsOK'
  <2>1. /\ \A q \in Requests : req'[q].pc \in Dealing \cup {"store"} => req'[q] = req[q]
        /\ UNCHANGED <<queues, issued, lists, buried>>
        /\ libs' = libs \cup {req[r].lib}
    BY <1>3, <1>13 DEF LibStore
  <2>2. req[r].lib \in issued /\ req[r].lib \notin buried
    BY <1>13 DEF LibStore, IdsOK, KnownIds, BuriedUnheld
  <2> QED
    BY <2>1, <2>2 DEF IdsOK, KnownIds, CodesHaveHadQueue, BuriedUnheld, BuriedStaysBuried
<1>14. ASSUME NEW l \in Libs, LibCreate(l) PROVE IdsOK'
  BY <1>1, <1>14
     DEF LibCreate, IdsOK, KnownIds, CodesHaveHadQueue, BuriedUnheld, BuriedStaysBuried
<1>15. ASSUME NEW l \in Libs, LibDelete(l) PROVE IdsOK'
  BY <1>1, <1>15
     DEF LibDelete, Held, IdsOK, KnownIds, CodesHaveHadQueue, BuriedUnheld, BuriedStaysBuried
<1> QED
  BY <1>4, <1>5, <1>6, <1>7, <1>8, <1>9, <1>10, <1>11, <1>12, <1>13, <1>14, <1>15 DEF Next

(***************************************************************************)
(* The theorems.                                                           *)
(***************************************************************************)
\* The strengthened invariant holds in every reachable state.
THEOREM Inductive == Spec => []IInv
<1>1. Init => IInv
  BY DEF Init, IInv, TypeOK, ListedOnce, BatchesExact, KnownIds, CodesHaveHadQueue,
         BuriedUnheld, BuriedStaysBuried, Idle, Dealing, Owners
<1>2. IInv /\ [Next]_vars => IInv'
  BY TypeStep, ExactStep, IdsStep DEF IInv, IdsOK
<1> QED BY <1>1, <1>2, PTL DEF Spec

\* Every variable keeps its type, whatever requests, resets and restarts race.
THEOREM TypeCorrect == Spec => []TypeOK
BY Inductive, PTL DEF IInv

\* A request changes the ids of its batch and no other id of the list.
THEOREM QuietBatchesAreExact == Spec => []QuietBatchExact
<1>1. IInv => QuietBatchExact
  BY DEF IInv, BatchesExact, Exact, QuietBatchExact, Dealing
<1> QED BY <1>1, Inductive, PTL

\* No list holds an id twice, whichever requests add it at the same time.
THEOREM IdsAreListedOnce == Spec => []ListedOnce
BY Inductive, PTL DEF IInv

\* No queue inherits the codes of another, although nothing removes them.
THEOREM CodesAlwaysHaveHadQueue == Spec => []CodesHaveHadQueue
BY Inductive, PTL DEF IInv

\* Only an update that was in flight brings a deleted library back.
THEOREM BuriedLibrariesStayBuried == Spec => []BuriedStaysBuried
BY Inductive, PTL DEF IInv
=============================================================================
