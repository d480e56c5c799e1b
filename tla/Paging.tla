------------------------------- MODULE Paging -------------------------------
(***************************************************************************)
(* Walking through the users table page by page: a client calls            *)
(* ListByLastID with the last id of the page before, until it has seen the *)
(* end, while other requests insert and delete rows.                       *)
(***************************************************************************)
EXTENDS Integers, FiniteSets

CONSTANTS
  MaxId,        \* bound on the ids the table may hand out
  MaxLastID,    \* what stands for a missing lastID (math.MaxInt32)
  DefaultLimit, \* what stands for a missing limit (10)
  MaxLimit,     \* the longest page (1000)
  Limits        \* the limits the client may send, 0 when it sends none

Ids == 1..MaxId

\* The sort parameter, as far as it names the id; without one the order is "-id".
Sorts == {"", "-id", "id"}

ASSUME PagingAssumption ==
  /\ MaxId \in Nat /\ MaxLastID \in Nat /\ MaxId < MaxLastID
  /\ MaxLimit \in Nat /\ DefaultLimit \in 1..MaxLimit /\ Limits \subseteq Int

VARIABLES
  table,      \* the ids of the rows
  top,        \* the highest id ever handed out
  cursor,     \* the lastID the client sends next, 0 when it sends none
  limit, sort, \* the limit and the order it sends with every request
  hasty,      \* whether it takes a page with less than its limit for the last one
  walk,       \* "walking" or "done"
  listed,     \* the ids the client has been given
  stable,     \* history: the rows that were there when the walk began, and still are
  repeated    \* history: whether the client was given an id twice

rows == <<table, top>>
client == <<limit, sort, hasty>>
vars == <<rows, cursor, client, walk, listed, stable, repeated>>

TypeOK ==
  /\ table \subseteq Ids /\ top \in 0..MaxId
  /\ cursor \in Ids \cup {0} /\ limit \in Limits
  /\ sort \in Sorts /\ hasty \in BOOLEAN
  /\ walk \in {"walking", "done"}
  /\ listed \subseteq Ids /\ stable \subseteq Ids
  /\ repeated \in BOOLEAN

Init ==
  /\ top \in 0..MaxId
  /\ table \in SUBSET (1..top)
  /\ limit \in Limits /\ sort \in Sorts /\ hasty \in BOOLEAN
  /\ cursor = 0 /\ walk = "walking"
  /\ listed = {} /\ stable = table /\ repeated = FALSE

-----------------------------------------------------------------------------
(***************************************************************************)
(* ListByLastID and GetByLastID                                            *)
(***************************************************************************)

\* Mutated form: a missing lastID is taken as it is.
RawLastID == cursor

LastID == IF cursor = 0 THEN MaxLastID ELSE cursor

Limit == IF limit = 0 THEN DefaultLimit ELSE limit

\* query.NewPage: what is below 1 or above the longest page becomes that.
PageSize == IF Limit \in 1..MaxLimit THEN Limit ELSE MaxLimit

\* Mutated form: the row the last page ended with is selected once more.
InclusiveSelected == {i \in table : i <= LastID}

\* The rows of the WHERE clause.
Selected == {i \in table : i < LastID}

\* The order of the ORDER BY clause.
Before(i, j) == IF sort = "id" THEN i < j ELSE i > j

\* P can be the rows of the page: as many as the limit lets in, the first ones.
IsPage(P) ==
  /\ P \subseteq Selected
  /\ Cardinality(P) <= PageSize
  /\ Cardinality(P) < PageSize => P = Selected
  /\ \A i \in P, j \in Selected \ P : Before(i, j)

\* Mutated form: after an empty page the client sends what stood for a missing lastID.
RestartedIsNext(P, next) ==
  IF P = {} THEN next = LastID ELSE next \in P /\ \A i \in P \ {next} : Before(i, next)

\* The client goes on from the last row of the page.
IsNext(P, next) ==
  IF P = {} THEN next = cursor ELSE next \in P /\ \A i \in P \ {next} : Before(i, next)

\* A page after which the client asks for no other.
IsLast(P) == P = {} \/ (hasty /\ Cardinality(P) < Limit)

\* One query, and the client's part.
ListByLastID ==
  /\ walk = "walking"
  /\ \E P \in SUBSET Selected : \E next \in Ids \cup {0, MaxLastID} :
       /\ IsPage(P) /\ IsNext(P, next)
       /\ cursor' = next
       /\ walk' = IF IsLast(P) THEN "done" ELSE "walking"
       /\ listed' = listed \cup P
       /\ repeated' = (repeated \/ P \cap listed # {})
  /\ UNCHANGED <<rows, client, stable>>

-----------------------------------------------------------------------------
(***************************************************************************)
(* Other requests, and the Rails application                               *)
(***************************************************************************)

\* Ids are handed out in ascending order and never again.
Create ==
  /\ top < MaxId
  /\ top' = top + 1 /\ table' = table \cup {top + 1}
  /\ UNCHANGED <<cursor, client, walk, listed, stable, repeated>>

Delete(i) ==
  /\ i \in table
  /\ table' = table \ {i} /\ stable' = stable \ {i}
  /\ UNCHANGED <<top, cursor, client, walk, listed, repeated>>

Rest == walk = "done" /\ UNCHANGED vars

Next == ListByLastID \/ Create \/ (\E i \in Ids : Delete(i)) \/ Rest

Spec == Init /\ [][Next]_vars

\* The client goes on asking and gets answers.
FairSpec == Spec /\ WF_vars(ListByLastID)

-----------------------------------------------------------------------------
(***************************************************************************)
(* Properties                                                              *)
(***************************************************************************)

\* Whatever is inserted and deleted between two pages, every row that was there during
\* the whole walk has been listed when it ends, with two exceptions.  A client that asks
\* for more rows than query.NewPage gives on a page, and takes a page with less for the
\* last one, misses the rows below those it was given.  A client that asks for ascending
\* ids, although each page asks for smaller ones, misses the rows above its first page.
WalkIsComplete ==
  walk = "done" =>
    \/ stable \subseteq listed
    \/ /\ sort # "id" /\ hasty /\ Limit > MaxLimit
       /\ \A i \in stable \ listed, j \in listed : i < j
    \/ /\ sort = "id"
       /\ \A i \in stable \ listed, j \in listed : i > j

\* In the default order no row is listed twice, whatever comes and goes.
ListedOnce == sort # "id" => ~repeated

\* The walk ends in either order, although rows keep being added.
WalkEnds == <>(walk = "done")

=============================================================================
