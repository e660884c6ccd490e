------------------------------- MODULE Paging -------------------------------
(***************************************************************************)
(* The page of a list (handlers/crud.go: parsePagination and pagedList),   *)
(* with the arithmetic of Go's int.  No state: every list endpoint calls   *)
(* it with the rows it has just read.                                      *)
(***************************************************************************)
EXTENDS Integers, Sequences

CONSTANTS
  IntMax,           \* the largest int (2^63 - 1 in the builds)
  DefaultPageSize,  \* 25
  MaxPageSize       \* 200

ASSUME PagingAssumption ==
  /\ IntMax \in Nat
  /\ MaxPageSize \in Nat \ {0}
  /\ DefaultPageSize \in 1..MaxPageSize
  /\ MaxPageSize <= IntMax

\* An int after an addition or a multiplication: what does not fit wraps.
Wrap(n) ==
  IF n \in -IntMax..IntMax THEN n
  ELSE ((n + IntMax + 1) % (2 * (IntMax + 1))) - (IntMax + 1)

\* Of the query parameters only positive numbers are taken; 0 stands for a
\* parameter that is absent, malformed or not positive.
PageNumber(asked) == IF asked > 0 THEN asked ELSE 1

PageSize(asked) ==
  IF asked = 0 THEN DefaultPageSize
  ELSE IF asked > MaxPageSize THEN MaxPageSize ELSE asked

PageCount(total, size) ==
  IF total % size # 0 \/ total = 0 THEN total \div size + 1 ELSE total \div size

\* Mutant: the page number counts from zero.
BoundsFromZero(total, number, size) ==
  LET start == Wrap(number * size)
      end == Wrap(start + size)
  IN [start |-> IF start >= total THEN total ELSE start,
      end   |-> IF end > total THEN total ELSE end]

\* The bounds of the slice, clamped from above only.
Bounds(total, number, size) ==
  LET start == Wrap((number - 1) * size)
      end == Wrap(start + size)
  IN [start |-> IF start >= total THEN total ELSE start,
      end   |-> IF end > total THEN total ELSE end]

\* entries[start:end] panics on other bounds; the Recoverer answers 500.
Sliceable(b) == 0 <= b.start /\ b.start <= b.end

\* The answer to a list request.
PagedList(entries, askedNumber, askedSize) ==
  LET number == PageNumber(askedNumber)
      size == PageSize(askedSize)
      b == Bounds(Len(entries), number, size)
  IN IF Sliceable(b)
       THEN [status |-> 200, entities |-> SubSeq(entries, b.start + 1, b.end),
             pageCount |-> PageCount(Len(entries), size)]
       ELSE [status |-> 500, entities |-> <<>>, pageCount |-> 0]

-----------------------------------------------------------------------------
\* The two numbers name a place that an int can hold.
Fits(askedNumber, askedSize) ==
  PageNumber(askedNumber) * PageSize(askedSize) <= IntMax

\* A client that reads the pages 1 to pageCount of a list reads every entry
\* exactly once and in order: each page but the last is full, the last holds
\* the rest, an entry stands at the place its page and position name, and
\* every page beyond is empty.
Tiles(entries, askedSize) ==
  LET size == PageSize(askedSize)
      total == Len(entries)
      count == PageCount(total, size)
  IN \A number \in 1..IntMax : Fits(number, askedSize) =>
       LET answer == PagedList(entries, number, askedSize)
       IN /\ answer.status = 200
          /\ answer.pageCount = count
          /\ number < count => Len(answer.entities) = size
          /\ number = count => Len(answer.entities) = total - (count - 1) * size
          /\ number > count => answer.entities = <<>>
          /\ \A j \in 1..Len(answer.entities) :
               answer.entities[j] = entries[(number - 1) * size + j]
=============================================================================
