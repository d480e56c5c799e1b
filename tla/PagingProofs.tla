---------------------------- MODULE PagingProofs ----------------------------
(***************************************************************************)
(* Theorems about Paging, for tables, limits and pages of any size, and    *)
(* for clients of either kind.                                             *)
(***************************************************************************)
EXTENDS Paging, FiniteSetTheorems, TLAPS

\* The rows that were there all the time are listed or still ahead of the cursor; what
\* is listed is behind it.
AheadInv == walk = "walking" => \A i \in stable : i \in listed \/ i < LastID

BehindInv == \A i \in listed : cursor # 0 /\ i >= cursor

\* In ascending order there is more of the table above all that is listed only, and the
\* cursor never leaves the rows that are.
AboveInv == \A i \in stable \ listed, j \in listed : i > j

StayInv == IF cursor = 0 THEN listed = {} ELSE cursor \in listed

IInv ==
  /\ TypeOK
  /\ stable \subseteq table
  /\ sort # "id" => AheadInv /\ BehindInv
  /\ sort = "id" => AboveInv /\ StayInv
  /\ WalkIsComplete /\ ListedOnce

LEMMA InitIInv == Init => IInv
<1> SUFFICES ASSUME Init PROVE IInv
  OBVIOUS
<1>1. table \subseteq Ids
  BY PagingAssumption DEF Init, Ids
<1>2. \A i \in Ids : i < MaxLastID
  BY PagingAssumption DEF Ids
<1>3. TypeOK /\ stable \subseteq table
  BY <1>1 DEF Init, TypeOK
<1>4. AheadInv /\ BehindInv /\ AboveInv /\ StayInv
  BY <1>1, <1>2 DEF Init, AheadInv, BehindInv, AboveInv, StayInv, LastID
<1>5. WalkIsComplete /\ ListedOnce
  BY DEF Init, WalkIsComplete, ListedOnce
<1>6. QED
  BY <1>3, <1>4, <1>5 DEF IInv

\* The clamped limit, and the length of a page.
LEMMA PageSizeType == TypeOK => Limit \in Int /\ PageSize \in Nat \ {0} /\ PageSize <= MaxLimit
BY PagingAssumption DEF TypeOK, Limit, PageSize

LEMMA PageIsFinite ==
  ASSUME TypeOK, NEW P \in SUBSET table
  PROVE  Cardinality(P) \in Nat
<1>1. IsFiniteSet(Ids)
  BY PagingAssumption, FS_Interval DEF Ids
<1>2. IsFiniteSet(P)
  BY <1>1, FS_Subset DEF TypeOK
<1>3. QED
  BY <1>2, FS_CardinalityType

\* What a client takes for the last page is one, unless it wants more than it gets.
LEMMA LastIsLast ==
  ASSUME TypeOK, NEW P \in SUBSET table, IsPage(P), IsLast(P)
  PROVE  P = Selected \/ (P # {} /\ hasty /\ Limit > MaxLimit)
<1>1. /\ Limit \in Int /\ PageSize \in Nat \ {0} /\ MaxLimit \in Nat
      /\ Cardinality(P) \in Nat
  BY PageSizeType, PageIsFinite, PagingAssumption
<1>2. CASE P = {}
  <2>1. Cardinality(P) = 0
    BY <1>2, FS_EmptySet
  <2>2. QED
    BY <1>1, <2>1 DEF IsPage
<1>3. CASE P # {}
  <2>1. hasty /\ Cardinality(P) < Limit
    BY <1>3 DEF IsLast
  <2>2. CASE Limit <= MaxLimit
    <3>1. PageSize = Limit
      BY <1>1, <2>1, <2>2 DEF PageSize
    <3>2. QED
      BY <2>1, <3>1 DEF IsPage
  <2>3. QED
    BY <1>1, <1>3, <2>1, <2>2
<1>4. QED
  BY <1>2, <1>3

\* A page and the client's next request, whatever the order.
LEMMA PageFacts ==
  ASSUME IInv, ListByLastID, NEW P \in SUBSET Selected, NEW next \in Ids \cup {0, MaxLastID},
         IsPage(P), IsNext(P, next)
  PROVE  /\ table \subseteq Ids /\ stable \subseteq table /\ listed \subseteq Ids
         /\ cursor \in Ids \cup {0} /\ Ids \subseteq Nat \ {0} /\ MaxLastID \in Nat
         /\ P \subseteq table /\ \A i \in P : i < LastID
         /\ next \in Ids \cup {0}
         /\ P = {} => next = cursor
         /\ P # {} => next \in P /\ \A i \in P \ {next} : Before(i, next)
         /\ P # {} => \A j \in Selected \ P : Before(next, j)
<1>1. /\ table \subseteq Ids /\ stable \subseteq table /\ listed \subseteq Ids
      /\ cursor \in Ids \cup {0} /\ Ids \subseteq Nat \ {0} /\ MaxLastID \in Nat
  BY PagingAssumption DEF IInv, TypeOK, Ids
<1>2. P \subseteq table /\ \A i \in P : i < LastID
  BY DEF Selected
<1>3. P = {} => next = cursor
  BY DEF IsNext
<1>4. P # {} => next \in P /\ \A i \in P \ {next} : Before(i, next)
  BY Zenon DEF IsNext
<1>5. next \in Ids \cup {0}
  BY <1>1, <1>2, <1>3, <1>4
<1>6. P # {} => \A j \in Selected \ P : Before(next, j)
  BY <1>4, Zenon DEF IsPage
<1>7. QED
  BY <1>1, <1>2, <1>3, <1>4, <1>5, <1>6

\* What a page leaves alone, and what it adds.
PageStep(P, next) ==
  /\ cursor' = next
  /\ walk' = IF IsLast(P) THEN "done" ELSE "walking"
  /\ listed' = listed \cup P
  /\ repeated' = (repeated \/ P \cap listed # {})
  /\ UNCHANGED <<table, top, limit, sort, hasty, stable>>

\* A page in descending order is cut out of the rows below the cursor, the largest ones.
LEMMA DescendingStep ==
  ASSUME IInv, ListByLastID, sort # "id", NEW P \in SUBSET Selected,
         NEW next \in Ids \cup {0, MaxLastID}, IsPage(P), IsNext(P, next), PageStep(P, next)
  PROVE  AheadInv' /\ BehindInv' /\ WalkIsComplete' /\ ListedOnce'
<1>1. /\ table \subseteq Ids /\ stable \subseteq table /\ listed \subseteq Ids
      /\ cursor \in Ids \cup {0} /\ Ids \subseteq Nat \ {0} /\ MaxLastID \in Nat
      /\ P \subseteq table /\ \A i \in P : i < LastID
      /\ next \in Ids \cup {0} /\ (P = {} => next = cursor)
  BY PageFacts
<1>2. /\ cursor' = next /\ listed' = listed \cup P
      /\ UNCHANGED <<table, limit, sort, hasty, stable>>
  BY DEF PageStep
<1>3. ASSUME P # {}
      PROVE  /\ next \in P /\ \A i \in P : i >= next
             /\ \A j \in Selected \ P : j < next
  <2>1. next \in P /\ \A i \in P \ {next} : i > next
    BY <1>3, PageFacts DEF Before
  <2>2. \A j \in Selected \ P : next > j
    BY <1>3, PageFacts DEF Before
  <2>3. \A i \in P \cup Selected : i \in Nat
    BY <1>1 DEF Selected
  <2>4. QED
    BY <2>1, <2>2, <2>3
<1>4. P \cap listed = {}
  BY <1>1 DEF IInv, BehindInv, LastID
<1>5. walk = "walking" /\ \A i \in stable : i \in listed \/ i \in Selected
  BY <1>1 DEF ListByLastID, IInv, AheadInv, Selected
<1>6. BehindInv'
  <2>1. CASE P = {}
    BY <2>1, <1>1, <1>2 DEF IInv, BehindInv
  <2>2. CASE P # {}
    <3>1. next < LastID /\ next # 0
      BY <2>2, <1>1, <1>3
    <3>2. \A i \in listed : i >= next
      BY <3>1, <1>1 DEF IInv, BehindInv, LastID
    <3>3. QED
      BY <3>1, <3>2, <2>2, <1>2, <1>3 DEF BehindInv
  <2>3. QED
    BY <2>1, <2>2
<1>7. AheadInv'
  <2>1. SUFFICES ASSUME NEW i \in stable, i \notin listed'
                 PROVE  i < LastID'
    BY <1>2 DEF AheadInv
  <2>2. i \in Selected \ P
    BY <2>1, <1>2, <1>5
  <2>3. CASE P = {}
    BY <2>2, <2>3, <1>1, <1>2 DEF Selected, LastID
  <2>4. CASE P # {}
    BY <2>2, <2>4, <1>1, <1>2, <1>3 DEF LastID
  <2>5. QED
    BY <2>3, <2>4
<1>8. WalkIsComplete'
  <2> SUFFICES ASSUME walk' = "done" PROVE WalkIsComplete'
    BY DEF WalkIsComplete
  <2>1. P = Selected \/ (P # {} /\ hasty /\ Limit > MaxLimit)
    BY <1>1, LastIsLast DEF PageStep, IInv
  <2>2. CASE P = Selected
    BY <1>2, <1>5, <2>2 DEF WalkIsComplete
  <2>3. CASE P # {} /\ hasty /\ Limit > MaxLimit
    <3>1. ASSUME NEW i \in stable \ listed', NEW j \in listed' PROVE i < j
      <4>1. i < next
        BY <1>2, <1>3, <1>5, <2>3, <3>1
      <4>2. j >= next
        BY <1>2, <1>6 DEF BehindInv
      <4>3. i \in Nat /\ j \in Nat /\ next \in Nat
        BY <1>1, <1>2
      <4>4. QED
        BY <4>1, <4>2, <4>3
    <3>2. Limit' = Limit
      BY <1>2 DEF Limit
    <3>3. QED
      BY <1>2, <2>3, <3>1, <3>2 DEF WalkIsComplete
  <2>4. QED
    BY <2>1, <2>2, <2>3
<1>9. ListedOnce'
  BY <1>2, <1>4 DEF PageStep, IInv, ListedOnce
<1>10. QED
  BY <1>6, <1>7, <1>8, <1>9

\* A page in ascending order is the first one, or lies within it.
LEMMA AscendingStep ==
  ASSUME IInv, ListByLastID, sort = "id", NEW P \in SUBSET Selected,
         NEW next \in Ids \cup {0, MaxLastID}, IsPage(P), IsNext(P, next), PageStep(P, next)
  PROVE  AboveInv' /\ StayInv' /\ WalkIsComplete' /\ ListedOnce'
<1>1. /\ table \subseteq Ids /\ stable \subseteq table /\ listed \subseteq Ids
      /\ cursor \in Ids \cup {0} /\ Ids \subseteq Nat \ {0} /\ MaxLastID \in Nat
      /\ P \subseteq table /\ \A i \in P : i < LastID
      /\ next \in Ids \cup {0} /\ (P = {} => next = cursor)
  BY PageFacts
<1>2. /\ cursor' = next /\ listed' = listed \cup P
      /\ UNCHANGED <<table, limit, sort, hasty, stable>>
  BY DEF PageStep
<1>3. ASSUME P # {}
      PROVE  /\ next \in P /\ \A i \in P : i <= next
             /\ \A j \in Selected \ P : j > next
  <2>1. next \in P /\ \A i \in P \ {next} : i < next
    BY <1>3, PageFacts DEF Before
  <2>2. \A j \in Selected \ P : next < j
    BY <1>3, PageFacts DEF Before
  <2>3. \A i \in P \cup Selected : i \in Nat
    BY <1>1 DEF Selected
  <2>4. QED
    BY <2>1, <2>2, <2>3
<1>4. AboveInv'
  <2> SUFFICES ASSUME NEW i \in stable \ listed', NEW j \in listed' PROVE i > j
    BY <1>2 DEF AboveInv
  <2>1. i \in stable \ listed /\ i \notin P /\ i \in table /\ i \in Nat
    BY <1>1, <1>2
  <2>2. CASE j \in listed
    BY <2>1, <2>2 DEF IInv, AboveInv
  <2>3. CASE j \in P
    <3>1. j <= next /\ next \in P /\ j \in Nat /\ next \in Nat /\ next < LastID
      BY <1>1, <1>3, <2>3
    <3>2. CASE i < LastID
      BY <1>3, <2>1, <2>3, <3>1, <3>2 DEF Selected
    <3>3. CASE ~(i < LastID)
      BY <1>1, <2>1, <3>1, <3>3 DEF LastID
    <3>4. QED
      BY <3>2, <3>3
  <2>4. QED
    BY <1>2, <2>2, <2>3
<1>5. StayInv'
  BY <1>1, <1>2, <1>3 DEF IInv, StayInv
<1>6. WalkIsComplete' /\ ListedOnce'
  BY <1>2, <1>4 DEF AboveInv, WalkIsComplete, ListedOnce
<1>7. QED
  BY <1>4, <1>5, <1>6

LEMMA ListStep == IInv /\ ListByLastID => IInv'
<1> SUFFICES ASSUME IInv, ListByLastID PROVE IInv'
  OBVIOUS
<1>1. PICK P \in SUBSET Selected, next \in Ids \cup {0, MaxLastID} :
        IsPage(P) /\ IsNext(P, next) /\ PageStep(P, next)
  BY DEF ListByLastID, PageStep, rows, client
<1>2. /\ P \subseteq table /\ next \in Ids \cup {0}
      /\ table \subseteq Ids /\ stable \subseteq table
  BY <1>1, PageFacts
<1>3. TypeOK'
  <2>1. repeated' \in BOOLEAN
    BY <1>1, Zenon DEF PageStep, IInv, TypeOK
  <2>2. walk' \in {"walking", "done"}
    BY <1>1 DEF PageStep
  <2>3. QED
    BY <1>1, <1>2, <2>1, <2>2 DEF PageStep, IInv, TypeOK
<1>4. stable' \subseteq table' /\ sort' = sort
  BY <1>1, <1>2 DEF PageStep
<1>5. CASE sort # "id"
  BY <1>1, <1>3, <1>4, <1>5, DescendingStep DEF IInv
<1>6. CASE sort = "id"
  BY <1>1, <1>3, <1>4, <1>6, AscendingStep DEF IInv
<1>7. QED
  BY <1>5, <1>6

LEMMA NextIInv == IInv /\ [Next]_vars => IInv'
<1> SUFFICES ASSUME IInv, [Next]_vars PROVE IInv'
  OBVIOUS
<1>1. CASE ListByLastID
  BY <1>1, ListStep
<1>2. CASE Create
  <2>1. top + 1 \in Ids /\ top' \in 0..MaxId
    BY <1>2, PagingAssumption DEF Create, IInv, TypeOK, Ids
  <2>2. QED
    BY <1>2, <2>1 DEF Create, client, IInv, TypeOK, AheadInv, BehindInv, AboveInv, StayInv,
       WalkIsComplete, ListedOnce, LastID, Limit
<1>3. CASE \E i \in Ids : Delete(i)
  BY <1>3 DEF Delete, client, IInv, TypeOK, AheadInv, BehindInv, AboveInv, StayInv,
     WalkIsComplete, ListedOnce, LastID, Limit
<1>4. CASE Rest \/ UNCHANGED vars
  BY <1>4 DEF Rest, vars, rows, client, IInv, TypeOK, AheadInv, BehindInv, AboveInv, StayInv,
     WalkIsComplete, ListedOnce, LastID, Limit
<1>5. QED
  BY <1>1, <1>2, <1>3, <1>4 DEF Next

LEMMA AlwaysIInv == Spec => []IInv
BY InitIInv, NextIInv, PTL DEF Spec

\* Every variable keeps its type: the cursor is the id of a row, whatever the page.
THEOREM TypeInvariant == Spec => []TypeOK
<1>1. IInv => TypeOK
  BY DEF IInv
<1>2. QED
  BY <1>1, AlwaysIInv, PTL

\* A walk misses no row that was there throughout, whatever is inserted and deleted
\* meanwhile; a client that asks for too much and trusts short pages misses the lowest
\* rows at most, and one that asks for ascending ids those above what it was given.
THEOREM WalkIsCompleteHolds == Spec => []WalkIsComplete
<1>1. IInv => WalkIsComplete
  BY DEF IInv
<1>2. QED
  BY <1>1, AlwaysIInv, PTL

\* And in the default order lists none twice.
THEOREM ListedOnceHolds == Spec => []ListedOnce
<1>1. IInv => ListedOnce
  BY DEF IInv
<1>2. QED
  BY <1>1, AlwaysIInv, PTL

=============================================================================
