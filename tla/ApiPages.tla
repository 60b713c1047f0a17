------------------------------ MODULE ApiPages ------------------------------
(***************************************************************************)
(* A client that pages through a collection of the API while its rows are   *)
(* changed, added and removed: each page is a slice of the collection as it *)
(* is then, sorted anew.                                                    *)
(***************************************************************************)
EXTENDS Naturals, FiniteSets, Sequences, Functions

CONSTANTS
  Rows,     \* ids, numbers
  Orders,   \* what it may be sorted by
  PageSize,
  MaxTime   \* bound on the clock

VARIABLES
  row,     \* [Rows -> created, updated; 0 when the row is not there]
  clock,
  order,   \* what the client sorts by
  page,    \* the last page it was given, 0 before the first
  pages,   \* totalPages, as it was told last
  got,     \* the ids it was given
  stirred, \* rows added, changed or removed since its first page
  removed  \* whether one was removed

pageVars == <<row, clock, order, page, pages, got, stirred, removed>>

AllOrders == [sort : {"createdAt", "updatedAt"}, direction : {"asc", "desc"}]

TypeOK ==
  /\ row \in [Rows -> [created : 0..MaxTime, updated : 0..MaxTime]] /\ clock \in 0..MaxTime
  /\ order \in Orders /\ page \in Nat /\ pages \in Nat /\ got \subseteq Rows
  /\ stirred \subseteq Rows /\ removed \in BOOLEAN

There == {i \in Rows : row[i].created > 0}

Init ==
  /\ \E first \in SUBSET Rows, late \in SUBSET Rows :
       row = [i \in Rows |-> IF i \notin first THEN [created |-> 0, updated |-> 0]
                             ELSE [created |-> 1, updated |-> IF i \in late THEN 2 ELSE 1]]
  /\ clock = 2 /\ order \in Orders /\ page = 0 /\ pages = 1 /\ got = {}
  /\ stirred = {} /\ removed = FALSE

(* Time passes, or rows get the same stamps. *)
Tick == clock < MaxTime /\ clock' = clock + 1 /\ UNCHANGED <<row, order, page, pages, got, stirred, removed>>
Stir(i) ==
  /\ stirred' = IF page = 0 THEN {} ELSE stirred \cup {i}
  /\ UNCHANGED <<clock, order, page, pages, got>>
Add(i) ==
  /\ i \notin There /\ row' = [row EXCEPT ![i] = [created |-> clock, updated |-> clock]]
  /\ UNCHANGED removed /\ Stir(i)
Change(i) ==
  /\ i \in There /\ row' = [row EXCEPT ![i].updated = clock] /\ UNCHANGED removed /\ Stir(i)
Delete(i) ==
  /\ i \in There /\ row' = [row EXCEPT ![i] = [created |-> 0, updated |-> 0]]
  /\ removed' = (removed \/ page > 0) /\ Stir(i)

(* sortCollection: by the field, then by id *)
ByCreation == order.sort = "createdAt"
LastFirst == order.direction = "desc"
Stamp(i) == IF ByCreation THEN row[i].created ELSE row[i].updated
(* Mutant: the direction is left out *)
BeforeAscending(i, j) == Stamp(i) < Stamp(j) \/ (Stamp(i) = Stamp(j) /\ i < j)
Before(i, j) ==
  \/ Stamp(i) = Stamp(j) /\ i < j
  \/ IF LastFirst THEN Stamp(j) < Stamp(i) ELSE Stamp(i) < Stamp(j)
Position(i) == Cardinality({j \in There : Before(j, i)}) + 1
SortCollection ==
  [n \in 1..Cardinality(There) |-> CHOOSE i \in There : Position(i) = n]

(* paginateCollection *)
Min2(a, b) == IF a < b THEN a ELSE b
TotalPages(list) == (Len(list) + PageSize - 1) \div PageSize
Slice(list, n) == SubSeq(list, (n - 1) * PageSize + 1, Min2(n * PageSize, Len(list)))
NextPage ==
  /\ page < pages
  /\ page' = page + 1 /\ pages' = TotalPages(SortCollection)
  /\ got' = got \cup Range(Slice(SortCollection, page + 1))
  /\ UNCHANGED <<row, clock, order, stirred, removed>>

Next == Tick \/ NextPage \/ \E i \in Rows : Add(i) \/ Change(i) \/ Delete(i)

Spec == Init /\ [][Next]_pageVars

----------------------------------------------------------------------------
(* A client that has read every page was given every row that nobody        *)
(* touched while it read, unless rows were removed (sortCollection's        *)
(* defaults, paginateCollection).  Sorted by the oldest change first, a row *)
(* that is changed moves behind the reader and another one is skipped.      *)
UntouchedAreListed ==
  page > 0 /\ page >= pages /\ ~removed /\ (ByCreation \/ LastFirst) =>
    There \ stirred \subseteq got
=============================================================================
