---------------------------- MODULE UsersProofs ----------------------------
(***************************************************************************)
(* Theorems about UsersDao and UsersApi.  The dao's come first: its type   *)
(* invariant, its shared loads, what its cache may hold, and that it       *)
(* implements StaleTable.  The API runs the dao as UsersDao has it, so     *)
(* that what is proved of the dao holds of the API; and its replies are    *)
(* true.                                                                   *)
(***************************************************************************)
EXTENDS UsersApi, FiniteSetTheorems, TLAPS

LEMMA EntryType == \A r \in Rows : Entry(r) \in Versions \cup {None, Placeholder}
BY DEF Entry, Rows, Versions, Absent

LEMMA RowOfEntry == \A r \in Rows : RowOf(Entry(r)) = r
BY UsersDaoAssumption DEF RowOf, Entry, Rows, Versions, Absent

LEMMA PutType ==
  ASSUME TypeOK, NEW c \in Clients, NEW I \in SUBSET Ids, \A i \in I : read[c][i] # Unread,
         Put(c, I)
  PROVE  /\ cache' \in [Ids -> Versions \cup {None, Placeholder}]
         /\ raced' \in SUBSET Ids
<1>1. CASE UNCHANGED cached
  BY <1>1 DEF cached, TypeOK
<1>2. CASE /\ cache' = [i \in Ids |-> IF i \in I THEN Entry(read[c][i]) ELSE cache[i]]
           /\ raced' = (raced \ I) \cup {i \in I : read[c][i] # db[i]}
  <2>1. \A i \in I : read[c][i] \in Rows
    BY DEF TypeOK
  <2>2. QED
    BY <1>2, <2>1, EntryType DEF TypeOK
<1>3. QED
  BY <1>1, <1>2 DEF Put

LEMMA DelType ==
  ASSUME TypeOK, NEW c \in Clients, NEW i \in Ids, Del(c, i)
  PROVE  /\ cache' \in [Ids -> Versions \cup {None, Placeholder}]
         /\ raced' \in SUBSET Ids
BY DEF Del, TypeOK

LEMMA ApplyType ==
  ASSUME TypeOK, UsersDaoAssumption, NEW o, NEW I \in SUBSET Ids, Apply(o, I)
  PROVE  db' \in [Ids -> Rows] /\ top' \in 0..MaxId
<1>1. CASE UNCHANGED top /\ db' = [i \in Ids |-> IF i \in I /\ db[i] # Absent THEN db[i] + 1
                                                 ELSE db[i]]
  BY <1>1 DEF TypeOK, Rows, Versions, Absent
<1>2. CASE UNCHANGED top /\ db' = [i \in Ids |-> IF i \in I THEN Absent ELSE db[i]]
  BY <1>2 DEF TypeOK, Rows
<1>3. CASE top < MaxId /\ top' = top + 1 /\ db' = [db EXCEPT ![top + 1] = 1]
  <2>1. top + 1 \in Ids /\ top + 1 \in 0..MaxId /\ 1 \in Rows
    BY <1>3, UsersDaoAssumption DEF TypeOK, Ids, Rows, Versions
  <2>2. QED
    BY <1>3, <2>1 DEF TypeOK
<1>4. QED
  BY <1>1, <1>2, <1>3 DEF Apply

LEMMA ReadType ==
  ASSUME TypeOK, NEW c \in Clients, NEW i \in Ids, NEW r \in Rows \cup {Unread}
  PROVE  [read EXCEPT ![c][i] = r] \in [Clients -> [Ids -> Rows \cup {Unread}]]
<1> DEFINE row == [read[c] EXCEPT ![i] = r]
<1>1. row \in [Ids -> Rows \cup {Unread}]
  BY DEF TypeOK
<1>2. [read EXCEPT ![c] = row] \in [Clients -> [Ids -> Rows \cup {Unread}]]
  BY <1>1 DEF TypeOK
<1>3. QED
  BY <1>2

LEMMA ScopeType ==
  ASSUME TypeOK, Scope
  PROVE  /\ op' \in [Clients -> Ops \cup {"none"}]
         /\ ids' \in [Clients -> SUBSET Ids]
         /\ gone' \in SUBSET Clients
BY DEF TypeOK, Scope

LEMMA SingletonOfOne ==
  ASSUME NEW I \in SUBSET Ids, Cardinality(I) = 1, UsersDaoAssumption
  PROVE  \E i \in Ids : I = {i}
<1>1. IsFiniteSet(Ids)
  BY FS_Interval, UsersDaoAssumption DEF Ids
<1>2. IsFiniteSet(I)
  BY <1>1, FS_Subset
<1>3. \E i : I = {i}
  BY <1>2, FS_Singleton
<1>4. QED
  BY <1>3

-----------------------------------------------------------------------------
(***************************************************************************)
(* The inductive invariant.  Besides the types it says how far a method    *)
(* has come with its ids at every round trip (Local), and ties the table   *)
(* of the singleflight group to the requests (FlightInv): a flight is led  *)
(* by exactly the request that loads its id, and whoever waits for an id   *)
(* waits for a flight.                                                     *)
(***************************************************************************)

Getting == {"cacheGet", "enter", "wait"} \cup Loading
Gathering == {"multiGet", "probe", "find", "multiSet", "placehold"}

\* What has been read of the ids, once a load is over.
Fetched(c) ==
  /\ \A i \in ids[c] : read[c][i] # Unread
  /\ err[c] = "notFound" <=> \E i \in ids[c] : read[c][i] = Absent

Local(c) ==
  /\ op[c] = "GetByID" <=> pc[c] \in Getting
  /\ op[c] = "GetByIDs" <=> pc[c] \in Gathering
  /\ pc[c] \in Getting => \E i \in Ids : ids[c] = {i}
  /\ missed[c] \subseteq ids[c]
  /\ pc[c] \notin {"probe", "find", "multiSet"} => missed[c] = {}
  /\ pc[c] \in {"probe", "placehold"} => todo[c] \subseteq ids[c]
  /\ pc[c] = "probe" => \A i \in ids[c] \ (todo[c] \cup missed[c]) : read[c][i] # Unread
  /\ pc[c] = "find" => \A i \in ids[c] \ missed[c] : read[c][i] # Unread
  /\ pc[c] \in {"multiSet", "placehold"} => \A i \in ids[c] : read[c][i] # Unread
  /\ pc[c] = "fill" => err[c] # "failed"
  /\ pc[c] \in {"fill", "land"} => err[c] = "failed" \/ Fetched(c)

FlightInv ==
  /\ \A c \in Clients : pc[c] \in Loading => \A i \in ids[c] : flight[i] = c
  /\ \A i \in Ids : flight[i] # Free =>
       /\ flight[i] \in Clients /\ pc[flight[i]] \in Loading
       /\ ids[flight[i]] = {i}
  /\ \A c \in Clients : pc[c] = "wait" => \A i \in ids[c] : flight[i] # Free

IInv == TypeOK /\ FlightInv /\ \A c \in Clients : Local(c)

LEMMA InitInv == Init => IInv
<1> SUFFICES ASSUME Init PROVE IInv
  OBVIOUS
<1>1. TypeOK
  BY UsersDaoAssumption DEF Init, TypeOK, Rows, Versions, Absent, NoRows, Labels, Errors
<1>2. FlightInv
  BY DEF Init, FlightInv, Loading
<1>3. ASSUME NEW c \in Clients PROVE Local(c)
  BY <1>3 DEF Init, Local, Getting, Gathering, Loading
<1>4. QED
  BY <1>1, <1>2, <1>3 DEF IInv

-----------------------------------------------------------------------------
(***************************************************************************)
(* Types                                                                   *)
(***************************************************************************)

LEMMA TypeNext == IInv /\ [Next]_vars => TypeOK'
<1> SUFFICES ASSUME IInv, [Next]_vars PROVE TypeOK'
  OBVIOUS
<1> TypeOK
  BY DEF IInv
<1> USE DEF database, cached, calls, results
<1>1. ASSUME NEW c \in Clients, Call(c) PROVE TypeOK'
  <2>1. PICK o \in Ops, I \in SUBSET Ids : Invoke(c, o, I)
    BY <1>1 DEF Call
  <2>2. FirstStep(o) \in Labels
    BY UsersDaoAssumption DEF FirstStep, Labels, Queries, Writes, Updates, Deletes, Creates,
       Single, Many
  <2>3. NoRows \in [Ids -> Rows \cup {Unread}]
    BY DEF NoRows
  <2>4. writes' \in 0..MaxWrites
    BY <2>1, UsersDaoAssumption DEF TypeOK, Invoke
  <2>5. QED
    BY <2>1, <2>2, <2>3, <2>4 DEF TypeOK, Invoke, Goto, Raise, Errors
<1>2. ASSUME NEW c \in Clients, Cancel(c) PROVE TypeOK'
  BY <1>2 DEF TypeOK, Cancel
<1>3. ASSUME NEW c \in Clients, CacheGet(c) PROVE TypeOK'
  <2>1. PICK i \in Ids :
          \/ Goto(c, "enter") /\ UNCHANGED results
          \/ /\ cache[i] # None
             /\ read' = [read EXCEPT ![c][i] = RowOf(cache[i])]
             /\ Raise(c, IF cache[i] = Placeholder THEN "notFound" ELSE "nil")
             /\ Return(c)
          \/ Raise(c, "failed") /\ Return(c) /\ UNCHANGED read
    BY <1>3 DEF TypeOK, CacheGet
  <2>2. pc' \in [Clients -> Labels] /\ err' \in [Clients -> Errors]
    BY <2>1 DEF TypeOK, Goto, Return, Raise, Labels, Errors
  <2>3. cache[i] # None => RowOf(cache[i]) \in Rows
    BY DEF TypeOK, RowOf, Rows, Versions, Absent
  <2>4. read' \in [Clients -> [Ids -> Rows \cup {Unread}]]
    <3>1. CASE cache[i] # None /\ read' = [read EXCEPT ![c][i] = RowOf(cache[i])]
      BY <2>3, <3>1, ReadType
    <3>2. CASE UNCHANGED read
      BY <3>2 DEF TypeOK
    <3>3. QED
      BY <2>1, <3>1, <3>2 DEF results
  <2>5. QED
    BY <1>3, <2>2, <2>4, ScopeType DEF TypeOK, CacheGet
<1>4. ASSUME NEW c \in Clients, EnterFlight(c) PROVE TypeOK'
  <2>1. pc' \in [Clients -> Labels]
    BY <1>4 DEF TypeOK, EnterFlight, Goto, Labels, Loading
  <2>2. flight' \in [Ids -> Clients \cup {Free}]
    BY <1>4 DEF TypeOK, EnterFlight
  <2>3. QED
    BY <1>4, <2>1, <2>2 DEF TypeOK, EnterFlight
<1>5. ASSUME NEW c \in Clients, Load(c) PROVE TypeOK'
  <2>1. pc' \in [Clients -> Labels]
    BY <1>5 DEF TypeOK, Load, Goto, Labels, Loading
  <2>2. err' \in [Clients -> Errors]
    BY <1>5 DEF TypeOK, Load, Raise, Errors
  <2>3. PICK i \in ids[c] : read' = [read EXCEPT ![c][i] = db[i]] \/ UNCHANGED read
    BY <1>5 DEF Load
  <2>4. read' \in [Clients -> [Ids -> Rows \cup {Unread}]]
    <3>1. i \in Ids /\ db[i] \in Rows
      BY DEF TypeOK
    <3>2. CASE read' = [read EXCEPT ![c][i] = db[i]]
      BY <3>1, <3>2, ReadType
    <3>3. CASE UNCHANGED read
      BY <3>3 DEF TypeOK
    <3>4. QED
      BY <2>3, <3>2, <3>3
  <2>5. QED
    BY <1>5, <2>1, <2>2, <2>4 DEF TypeOK, Load
<1>6. ASSUME NEW c \in Clients, Fill(c) PROVE TypeOK'
  <2>1. ids[c] \in SUBSET Ids /\ \A i \in ids[c] : read[c][i] # Unread
    BY <1>6 DEF IInv, TypeOK, Fill, Local, Fetched
  <2>2. QED
    BY <1>6, <2>1, PutType DEF TypeOK, Fill, Goto, Labels, Loading
<1>7. ASSUME NEW c \in Clients, Land(c) PROVE TypeOK'
  <2>1. /\ flight' \in [Ids -> Clients \cup {Free}]
        /\ pc' \in [Clients -> Labels]
        /\ err' \in [Clients -> Errors]
    BY <1>7 DEF TypeOK, Land, Labels
  <2>2. read' \in [Clients -> [Ids -> Rows \cup {Unread}]]
    BY <1>7 DEF TypeOK, Land
  <2>3. QED
    BY <1>7, <2>1, <2>2, ScopeType DEF TypeOK, Land
<1>8. ASSUME NEW c \in Clients, MultiGet(c) PROVE TypeOK'
  <2>1. pc' \in [Clients -> Labels] /\ err' \in [Clients -> Errors]
    BY <1>8 DEF TypeOK, MultiGet, Goto, Return, Raise, Labels, Errors
  <2>2. todo' \in [Clients -> SUBSET Ids]
    <3>1. {i \in ids[c] : cache[i] \in {None, Placeholder}} \in SUBSET Ids
      BY DEF TypeOK
    <3>2. \/ todo' = [todo EXCEPT ![c] = {i \in ids[c] : cache[i] \in {None, Placeholder}}]
          \/ todo' = todo
      BY <1>8 DEF MultiGet
    <3>3. QED
      BY <3>1, <3>2 DEF TypeOK
  <2>3. [i \in Ids |-> IF i \in ids[c] \ {j \in ids[c] : cache[j] \in {None, Placeholder}}
                       THEN cache[i] ELSE Unread] \in [Ids -> Rows \cup {Unread}]
    BY DEF TypeOK, Rows
  <2>4. read' \in [Clients -> [Ids -> Rows \cup {Unread}]]
    BY <1>8, <2>3 DEF TypeOK, MultiGet
  <2>5. QED
    BY <1>8, <2>1, <2>2, <2>4, ScopeType DEF TypeOK, MultiGet
<1>9. ASSUME NEW c \in Clients, Probe(c) PROVE TypeOK'
  <2>1. missed' \in [Clients -> SUBSET Ids] /\ todo' \in [Clients -> SUBSET Ids]
    BY <1>9 DEF TypeOK, Probe
  <2>2. pc' \in [Clients -> Labels]
    BY <1>9 DEF TypeOK, Probe, Goto, Labels
  <2>3. PICK i \in Ids : read' = [read EXCEPT ![c][i] = Absent] \/ UNCHANGED read
    BY <1>9 DEF TypeOK, Probe
  <2>4. read' \in [Clients -> [Ids -> Rows \cup {Unread}]]
    <3>1. Absent \in Rows
      BY DEF Rows
    <3>2. CASE read' = [read EXCEPT ![c][i] = Absent]
      BY <3>1, <3>2, ReadType
    <3>3. CASE UNCHANGED read
      BY <3>3 DEF TypeOK
    <3>4. QED
      BY <2>3, <3>2, <3>3
  <2>5. QED
    BY <1>9, <2>1, <2>2, <2>4, ScopeType DEF TypeOK, Probe
<1>10. ASSUME NEW c \in Clients, Find(c) PROVE TypeOK'
  <2>1. [i \in Ids |-> IF i \in missed[c] THEN db[i] ELSE read[c][i]]
          \in [Ids -> Rows \cup {Unread}]
    BY DEF TypeOK
  <2>2. read' \in [Clients -> [Ids -> Rows \cup {Unread}]]
    BY <1>10, <2>1 DEF TypeOK, Find
  <2>3. /\ pc' \in [Clients -> Labels] /\ err' \in [Clients -> Errors]
        /\ missed' \in [Clients -> SUBSET Ids]
    BY <1>10 DEF TypeOK, Find, Goto, Return, Raise, Labels, Errors
  <2>4. QED
    BY <1>10, <2>2, <2>3, ScopeType DEF TypeOK, Find
<1>11. ASSUME NEW c \in Clients, MultiSet(c) PROVE TypeOK'
  <2>1. Present(c) \in SUBSET Ids /\ \A i \in Present(c) : read[c][i] # Unread
    BY <1>11 DEF IInv, TypeOK, MultiSet, Local, Present
  <2>2. /\ cache' \in [Ids -> Versions \cup {None, Placeholder}]
        /\ raced' \in SUBSET Ids
    BY <1>11, <2>1, PutType DEF TypeOK, MultiSet
  <2>3. /\ todo' \in [Clients -> SUBSET Ids] /\ missed' \in [Clients -> SUBSET Ids]
        /\ pc' \in [Clients -> Labels]
    BY <1>11 DEF TypeOK, MultiSet, Goto, Labels
  <2>4. QED
    BY <1>11, <2>2, <2>3, ScopeType DEF TypeOK, MultiSet
<1>12. ASSUME NEW c \in Clients, SetPlaceholder(c) PROVE TypeOK'
  <2>1. PICK i \in todo[c] : Put(c, {i})
    BY <1>12 DEF SetPlaceholder
  <2>2. {i} \in SUBSET Ids /\ \A j \in {i} : read[c][j] # Unread
    BY <1>12, <2>1 DEF IInv, TypeOK, SetPlaceholder, Local
  <2>3. /\ cache' \in [Ids -> Versions \cup {None, Placeholder}]
        /\ raced' \in SUBSET Ids
    BY <2>1, <2>2, PutType
  <2>4. QED
    BY <1>12, <2>3, ScopeType DEF TypeOK, SetPlaceholder, Goto, Labels
<1>13. ASSUME NEW c \in Clients, Count(c) PROVE TypeOK'
  BY <1>13, ScopeType DEF TypeOK, Count, Goto, Return, Raise, Labels, Errors
<1>14. ASSUME NEW c \in Clients, Query(c) PROVE TypeOK'
  <2>1. \A page \in SUBSET Selected(c) :
          [i \in Ids |-> IF i \in page THEN db[i] ELSE Unread] \in [Ids -> Rows \cup {Unread}]
    BY DEF TypeOK
  <2>2. [i \in Ids |-> IF i \in ids[c] THEN Absent ELSE Unread] \in [Ids -> Rows \cup {Unread}]
    BY DEF Rows
  <2>3. read' \in [Clients -> [Ids -> Rows \cup {Unread}]]
    BY <1>14, <2>1, <2>2 DEF TypeOK, Query
  <2>4. pc' \in [Clients -> Labels] /\ err' \in [Clients -> Errors]
    BY <1>14 DEF TypeOK, Query, Goto, Return, Raise, Labels, Errors
  <2>5. QED
    BY <1>14, <2>3, <2>4, ScopeType DEF TypeOK, Query
<1>15. ASSUME NEW c \in Clients, Write(c) PROVE TypeOK'
  <2>1. db' \in [Ids -> Rows] /\ top' \in 0..MaxId
    BY <1>15, ApplyType, UsersDaoAssumption DEF TypeOK, Write
  <2>2. raced' \in SUBSET Ids
    BY <1>15 DEF TypeOK, Write, LeftBehind
  <2>3. pc' \in [Clients -> Labels] /\ err' \in [Clients -> Errors]
    BY <1>15 DEF TypeOK, Write, Goto, Raise, Labels, Errors
  <2>4. todo' \in [Clients -> SUBSET Ids]
    BY <1>15 DEF TypeOK, Write, Queue
  <2>5. QED
    BY <1>15, <2>1, <2>2, <2>3, <2>4, ScopeType DEF TypeOK, Write
<1>16. ASSUME NEW c \in Clients, WriteInTx(c) PROVE TypeOK'
  <2>1. pc' \in [Clients -> Labels] /\ err' \in [Clients -> Errors]
    BY <1>16 DEF TypeOK, WriteInTx, Goto, Raise, Labels, Errors
  <2>2. todo' \in [Clients -> SUBSET Ids]
    BY <1>16 DEF TypeOK, WriteInTx, Queue
  <2>3. QED
    BY <1>16, <2>1, <2>2, ScopeType DEF TypeOK, WriteInTx
<1>17. ASSUME NEW c \in Clients, Invalidate(c) PROVE TypeOK'
  <2>1. /\ cache' \in [Ids -> Versions \cup {None, Placeholder}]
        /\ raced' \in SUBSET Ids
    BY <1>17, DelType DEF TypeOK, Invalidate
  <2>2. QED
    BY <1>17, <2>1, ScopeType DEF TypeOK, Invalidate, Goto, Labels
<1>18. ASSUME NEW c \in Clients, Commit(c) PROVE TypeOK'
  <2>1. db' \in [Ids -> Rows] /\ top' \in 0..MaxId
    BY <1>18, ApplyType, UsersDaoAssumption DEF TypeOK, Commit
  <2>2. raced' \in SUBSET Ids
    BY <1>18 DEF TypeOK, Commit, LeftBehind
  <2>3. QED
    BY <1>18, <2>1, <2>2, ScopeType DEF TypeOK, Commit, Return, Goto, Labels
<1>19. ASSUME NEW i \in Ids, Expire(i) PROVE TypeOK'
  BY <1>19 DEF TypeOK, Expire
<1>20. ASSUME ExternalWrite PROVE TypeOK'
  <2>1. PICK o \in {"UpdateByID", "DeleteByID", "Create"}, i \in Ids : Apply(o, {i})
    BY <1>20 DEF ExternalWrite
  <2>2. db' \in [Ids -> Rows] /\ top' \in 0..MaxId
    BY <2>1, ApplyType, UsersDaoAssumption
  <2>3. writes' \in 0..MaxWrites /\ raced' \in SUBSET Ids
    BY <1>20, UsersDaoAssumption DEF TypeOK, ExternalWrite, LeftBehind
  <2>4. QED
    BY <1>20, <2>2, <2>3 DEF TypeOK, ExternalWrite
<1>21. CASE UNCHANGED vars
  BY <1>21 DEF TypeOK, vars
<1>22. QED
  BY <1>1, <1>2, <1>3, <1>4, <1>5, <1>6, <1>7, <1>8, <1>9, <1>10, <1>11, <1>12, <1>13,
     <1>14, <1>15, <1>16, <1>17, <1>18, <1>19, <1>20, <1>21 DEF Next, Step

-----------------------------------------------------------------------------
(***************************************************************************)
(* How far a method has come                                               *)
(***************************************************************************)

Kept(d) ==
  /\ pc'[d] = pc[d] /\ todo'[d] = todo[d] /\ missed'[d] = missed[d]
  /\ read'[d] = read[d] /\ err'[d] = err[d]

LEMMA LocalIdle ==
  ASSUME NEW d \in Clients, pc'[d] = "idle", op'[d] = "none", missed'[d] = {}
  PROVE  Local(d)'
BY DEF Local, Getting, Gathering, Loading

\* Who returns is done with its ids.
LEMMA LocalReturn ==
  ASSUME TypeOK, NEW d \in Clients, Scope, pc'[d] = "idle", missed'[d] = {}
  PROVE  Local(d)'
BY LocalIdle DEF TypeOK, Scope

LEMMA LocalKept ==
  ASSUME TypeOK, NEW d \in Clients, Local(d), Kept(d), op'[d] = op[d], ids'[d] = ids[d]
  PROVE  Local(d)'
BY DEF Local, Kept, Fetched

\* A step of one request leaves the others where they are.
LEMMA OthersKept ==
  ASSUME TypeOK, NEW d \in Clients, Local(d), Kept(d), Scope
  PROVE  Local(d)'
<1>1. CASE pc[d] = "idle"
  BY <1>1, LocalReturn DEF Kept, Local
<1>2. CASE pc[d] # "idle"
  <2>1. op'[d] = op[d] /\ ids'[d] = ids[d]
    BY <1>2 DEF Scope, Kept, TypeOK
  <2>2. QED
    BY <2>1, LocalKept
<1>3. QED
  BY <1>1, <1>2

\* What a call was made with stays while it runs.
LEMMA ScopeKeeps ==
  ASSUME TypeOK, Scope, NEW c \in Clients, pc'[c] # "idle"
  PROVE  op'[c] = op[c] /\ ids'[c] = ids[c]
BY DEF TypeOK, Scope

LEMMA LocalInvoke ==
  ASSUME TypeOK, UsersDaoAssumption, NEW c \in Clients, Local(c),
         NEW o \in Ops, NEW I \in SUBSET Ids, Invoke(c, o, I)
  PROVE  Local(c)'
<1>1. /\ pc'[c] = FirstStep(o) /\ op'[c] = o /\ ids'[c] = I /\ missed'[c] = {}
      /\ o = "GetByID" => Cardinality(I) = 1
  BY DEF TypeOK, Invoke, Goto, Local, Single
<1>0. /\ FirstStep("GetByID") = "cacheGet" /\ FirstStep("GetByIDs") = "multiGet"
  BY DEF FirstStep, Queries, Writes, Updates, Deletes, Creates
<1>2. CASE o = "GetByID"
  <2>1. \E i \in Ids : ids'[c] = {i}
    BY <1>1, <1>2, SingletonOfOne
  <2>2. QED
    BY <1>0, <1>1, <1>2, <2>1 DEF Local, Getting, Gathering, Loading
<1>3. CASE o = "GetByIDs"
  BY <1>0, <1>1, <1>3 DEF Local, Getting, Gathering, Loading
<1>4. CASE o \notin {"GetByID", "GetByIDs"}
  <2>1. o \in Queries \cup Writes
    BY <1>4, UsersDaoAssumption DEF Single, Many, Queries, Writes, Updates, Deletes, Creates
  <2>2. FirstStep(o) \in {"count", "query", "write"}
    BY <2>1 DEF FirstStep, Queries, Writes, Updates, Deletes, Creates
  <2>3. QED
    BY <1>1, <1>4, <2>2 DEF Local, Getting, Gathering, Loading
<1>5. QED
  BY <1>2, <1>3, <1>4

LEMMA LocalStep == IInv /\ [Next]_vars => \A d \in Clients : Local(d)'
<1> SUFFICES ASSUME IInv, [Next]_vars PROVE \A d \in Clients : Local(d)'
  OBVIOUS
<1>0. TypeOK /\ \A d \in Clients : Local(d)
  BY DEF IInv
<1> USE DEF database, cached, calls, results
<1>1. ASSUME NEW c \in Clients, Call(c) PROVE \A d \in Clients : Local(d)'
  <2>1. PICK o \in Ops, I \in SUBSET Ids : Invoke(c, o, I)
    BY <1>1 DEF Call
  <2>2. ASSUME NEW d \in Clients \ {c} PROVE Kept(d) /\ op'[d] = op[d] /\ ids'[d] = ids[d]
    BY <1>0, <2>1 DEF TypeOK, Invoke, Goto, Raise, Kept
  <2>3. QED
    BY <1>0, <2>1, <2>2, LocalKept, LocalInvoke, UsersDaoAssumption
<1>2. ASSUME NEW c \in Clients, Cancel(c) \/ EnterFlight(c) PROVE \A d \in Clients : Local(d)'
  <2>1. UNCHANGED <<todo, missed, read, err, op, ids>>
    BY <1>2 DEF Cancel, EnterFlight
  <2>2. \A d \in Clients \ {c} : pc'[d] = pc[d]
    BY <1>0, <1>2 DEF TypeOK, Cancel, EnterFlight, Goto
  <2>3. \/ pc'[c] = pc[c]
        \/ pc[c] = "enter" /\ pc'[c] \in {"load", "wait"}
    BY <1>0, <1>2 DEF TypeOK, Cancel, EnterFlight, Goto
  <2>4. CASE pc'[c] = pc[c]
    BY <1>0, <2>1, <2>2, <2>4, LocalKept DEF Kept
  <2>5. CASE pc[c] = "enter" /\ pc'[c] \in {"load", "wait"}
    <3>1. Local(c)'
      BY <1>0, <2>1, <2>5 DEF Local, Getting, Gathering, Loading
    <3>2. QED
      BY <1>0, <2>1, <2>2, <3>1, LocalKept DEF Kept
  <2>6. QED
    BY <2>3, <2>4, <2>5
<1>3. ASSUME NEW c \in Clients, CacheGet(c) PROVE \A d \in Clients : Local(d)'
  <2>1. \A d \in Clients \ {c} : Kept(d)
    BY <1>0, <1>3 DEF TypeOK, CacheGet, Goto, Return, Raise, Kept
  <2>2. Scope /\ pc[c] = "cacheGet" /\ missed' = missed
    BY <1>3 DEF CacheGet
  <2>3. pc'[c] \in {"idle", "enter"}
    BY <1>0, <1>3 DEF TypeOK, CacheGet, Goto, Return
  <2>4. Local(c)'
    <3>1. missed'[c] = {}
      BY <1>0, <2>2 DEF Local
    <3>2. CASE pc'[c] = "enter"
      BY <1>0, <2>2, <3>1, <3>2, ScopeKeeps DEF Local, Getting, Gathering, Loading
    <3>3. QED
      BY <1>0, <2>2, <2>3, <3>1, <3>2, LocalReturn
  <2>5. QED
    BY <1>0, <2>1, <2>2, <2>4, OthersKept
<1>4. ASSUME NEW c \in Clients, Load(c) PROVE \A d \in Clients : Local(d)'
  <2>1. \A d \in Clients \ {c} : Kept(d) /\ op'[d] = op[d] /\ ids'[d] = ids[d]
    BY <1>0, <1>4 DEF TypeOK, Load, Goto, Raise, Kept
  <2>2. PICK i \in Ids : ids[c] = {i}
    BY <1>0, <1>4 DEF Load, Local, Getting, Loading
  <2>3. /\ pc[c] = "load" /\ ids' = ids /\ op' = op /\ missed' = missed
        /\ \/ /\ read'[c][i] = db[i] /\ pc'[c] = "fill"
              /\ err'[c] = IF db[i] = Absent THEN "notFound" ELSE "nil"
           \/ pc'[c] = "land" /\ err'[c] = "failed"
    BY <1>0, <1>4, <2>2 DEF TypeOK, Load, Goto, Raise
  <2>4. db[i] # Unread
    BY <1>0, UsersDaoAssumption DEF TypeOK
  <2>5. Local(c)'
    BY <1>0, <2>2, <2>3, <2>4 DEF Local, Fetched, Getting, Gathering, Loading
  <2>6. QED
    BY <1>0, <2>1, <2>5, LocalKept
<1>5. ASSUME NEW c \in Clients, Fill(c) PROVE \A d \in Clients : Local(d)'
  <2>1. /\ UNCHANGED <<op, ids, todo, missed, read, err>>
        /\ pc[c] = "fill" /\ pc'[c] = "land" /\ \A d \in Clients \ {c} : pc'[d] = pc[d]
    BY <1>0, <1>5 DEF TypeOK, Fill, Goto
  <2>2. Local(c)'
    BY <1>0, <2>1 DEF Local, Fetched, Getting, Gathering, Loading
  <2>3. QED
    BY <1>0, <2>1, <2>2, LocalKept DEF Kept
<1>6. ASSUME NEW c \in Clients, Land(c) PROVE \A d \in Clients : Local(d)'
  <2>1. Scope /\ missed' = missed /\ todo' = todo
    BY <1>6 DEF Land
  <2>2. ASSUME NEW d \in Clients
        PROVE  Kept(d) \/ (pc'[d] = "idle" /\ pc[d] \in {"land", "wait"})
    BY <1>0, <1>6 DEF TypeOK, Land, Kept
  <2>3. ASSUME NEW d \in Clients, pc'[d] = "idle", pc[d] \in {"land", "wait"}
        PROVE  Local(d)'
    <3>1. missed'[d] = {}
      BY <1>0, <2>1, <2>3 DEF Local
    <3>2. QED
      BY <1>0, <2>1, <2>3, <3>1, LocalReturn
  <2>4. QED
    BY <1>0, <2>1, <2>2, <2>3, OthersKept
<1>7. ASSUME NEW c \in Clients, MultiGet(c) PROVE \A d \in Clients : Local(d)'
  <2>1. \A d \in Clients \ {c} : Kept(d)
    BY <1>0, <1>7 DEF TypeOK, MultiGet, Goto, Return, Raise, Kept
  <2>2. Scope /\ pc[c] = "multiGet" /\ missed' = missed
    BY <1>7 DEF MultiGet
  <2>3. missed'[c] = {}
    BY <1>0, <2>2 DEF Local
  <2>4. CASE pc'[c] = "idle"
    BY <1>0, <2>1, <2>2, <2>3, <2>4, LocalReturn, OthersKept
  <2>5. CASE pc'[c] # "idle"
    <3> DEFINE none == {i \in ids[c] : cache[i] \in {None, Placeholder}}
    <3>1. /\ pc'[c] = "probe" /\ todo'[c] = none
          /\ read'[c] = [i \in Ids |-> IF i \in ids[c] \ none THEN cache[i] ELSE Unread]
      BY <1>0, <1>7, <2>5 DEF TypeOK, MultiGet, Goto, Return
    <3>2. \A i \in ids[c] \ none : cache[i] # Unread
      BY <1>0, UsersDaoAssumption DEF TypeOK, Rows
    <3>3. \A i \in ids[c] \ none : read'[c][i] # Unread
      BY <1>0, <3>1, <3>2 DEF TypeOK
    <3>4. op'[c] = op[c] /\ ids'[c] = ids[c]
      BY <1>0, <2>2, <2>5, ScopeKeeps
    <3>5. Local(c)'
      BY <1>0, <2>2, <2>3, <3>1, <3>3, <3>4 DEF Local, Getting, Gathering, Loading
    <3>6. QED
      BY <1>0, <2>1, <2>2, <3>5, OthersKept
  <2>6. QED
    BY <2>4, <2>5
<1>8. ASSUME NEW c \in Clients, Probe(c) PROVE \A d \in Clients : Local(d)'
  <2>1. PICK i \in todo[c] :
          /\ \/ /\ read' = [read EXCEPT ![c][i] = Absent]
                /\ UNCHANGED missed
             \/ missed' = [missed EXCEPT ![c] = @ \cup {i}] /\ UNCHANGED read
          /\ todo' = [todo EXCEPT ![c] = @ \ {i}]
          /\ Goto(c, IF todo[c] # {i} THEN "probe"
                     ELSE IF missed'[c] = {} THEN "idle" ELSE "find")
    BY <1>8 DEF Probe
  <2>2. Scope /\ pc[c] = "probe" /\ err' = err
    BY <1>8 DEF Probe
  <2>3. \A d \in Clients \ {c} : Kept(d)
    BY <1>0, <2>1, <2>2 DEF TypeOK, Goto, Kept
  <2>4. /\ todo'[c] = todo[c] \ {i}
        /\ missed'[c] \in {missed[c], missed[c] \cup {i}}
        /\ \A j \in Ids \ {i} : read'[c][j] = read[c][j]
        /\ i \notin missed'[c] => read'[c][i] = Absent
        /\ pc'[c] = IF todo[c] # {i} THEN "probe"
                    ELSE IF missed'[c] = {} THEN "idle" ELSE "find"
    BY <1>0, <2>1 DEF TypeOK, Goto
  <2>5. Absent # Unread
    BY UsersDaoAssumption DEF Rows
  <2>6. CASE pc'[c] = "idle"
    BY <1>0, <2>2, <2>3, <2>4, <2>6, LocalReturn, OthersKept
  <2>7. CASE pc'[c] # "idle"
    <3>1. op'[c] = op[c] /\ ids'[c] = ids[c] /\ todo[c] \subseteq ids[c]
          /\ ids[c] \subseteq Ids
      BY <1>0, <2>2, <2>7, ScopeKeeps DEF Local, TypeOK
    <3>2. \A j \in ids[c] \ (todo'[c] \cup missed'[c]) : read'[c][j] # Unread
      BY <1>0, <2>2, <2>4, <2>5, <3>1 DEF Local
    <3>3. Local(c)'
      BY <1>0, <2>2, <2>4, <2>7, <3>1, <3>2 DEF Local, Getting, Gathering, Loading
    <3>4. QED
      BY <1>0, <2>2, <2>3, <3>3, OthersKept
  <2>8. QED
    BY <2>6, <2>7
<1>9. ASSUME NEW c \in Clients, Find(c) PROVE \A d \in Clients : Local(d)'
  <2>1. \A d \in Clients \ {c} : Kept(d)
    BY <1>0, <1>9 DEF TypeOK, Find, Goto, Return, Raise, Kept
  <2>2. Scope /\ pc[c] = "find"
    BY <1>9 DEF Find
  <2>3. CASE pc'[c] = "idle"
    <3>1. missed'[c] = {}
      BY <1>0, <1>9, <2>3 DEF TypeOK, Find, Goto
    <3>2. QED
      BY <1>0, <2>1, <2>2, <2>3, <3>1, LocalReturn, OthersKept
  <2>4. CASE pc'[c] # "idle"
    <3>1. /\ pc'[c] = "multiSet" /\ missed' = missed
          /\ read'[c] = [i \in Ids |-> IF i \in missed[c] THEN db[i] ELSE read[c][i]]
      BY <1>0, <1>9, <2>4 DEF TypeOK, Find, Goto, Return
    <3>2. op'[c] = op[c] /\ ids'[c] = ids[c] /\ ids[c] \subseteq Ids
      BY <1>0, <2>2, <2>4, ScopeKeeps DEF TypeOK
    <3>3. \A i \in ids[c] : read'[c][i] # Unread
      BY <1>0, <2>2, <3>1, <3>2, UsersDaoAssumption DEF Local, TypeOK
    <3>4. Local(c)'
      BY <1>0, <2>2, <3>1, <3>2, <3>3 DEF Local, Getting, Gathering, Loading
    <3>5. QED
      BY <1>0, <2>1, <2>2, <3>4, OthersKept
  <2>5. QED
    BY <2>3, <2>4
<1>10. ASSUME NEW c \in Clients, MultiSet(c) PROVE \A d \in Clients : Local(d)'
  <2>1. \A d \in Clients \ {c} : Kept(d)
    BY <1>0, <1>10 DEF TypeOK, MultiSet, Goto, Kept
  <2>2. Scope /\ pc[c] = "multiSet" /\ missed'[c] = {} /\ UNCHANGED results
        /\ todo'[c] = missed[c] \ Present(c) /\ pc'[c] \in {"idle", "placehold"}
    BY <1>0, <1>10 DEF TypeOK, MultiSet, Goto
  <2>3. CASE pc'[c] = "placehold"
    <3>1. op'[c] = op[c] /\ ids'[c] = ids[c]
      BY <1>0, <2>2, <2>3, ScopeKeeps
    <3>2. Local(c)'
      BY <1>0, <2>2, <2>3, <3>1 DEF Local, Getting, Gathering, Loading
    <3>3. QED
      BY <1>0, <2>1, <2>2, <3>2, OthersKept
  <2>4. QED
    BY <1>0, <2>1, <2>2, <2>3, LocalReturn, OthersKept
<1>11. ASSUME NEW c \in Clients, SetPlaceholder(c) PROVE \A d \in Clients : Local(d)'
  <2>1. \A d \in Clients \ {c} : Kept(d)
    BY <1>0, <1>11 DEF TypeOK, SetPlaceholder, Goto, Kept
  <2>2. Scope /\ pc[c] = "placehold" /\ UNCHANGED <<missed, read, err>>
        /\ todo'[c] \subseteq todo[c] /\ pc'[c] \in {"idle", "placehold"}
    BY <1>0, <1>11 DEF TypeOK, SetPlaceholder, Goto
  <2>3. missed'[c] = {}
    BY <1>0, <2>2 DEF Local
  <2>4. CASE pc'[c] = "placehold"
    <3>1. op'[c] = op[c] /\ ids'[c] = ids[c]
      BY <1>0, <2>2, <2>4, ScopeKeeps
    <3>2. Local(c)'
      BY <1>0, <2>2, <2>3, <2>4, <3>1 DEF Local, Getting, Gathering, Loading
    <3>3. QED
      BY <1>0, <2>1, <2>2, <3>2, OthersKept
  <2>5. QED
    BY <1>0, <2>1, <2>2, <2>3, <2>4, LocalReturn, OthersKept
<1>12. ASSUME NEW c \in Clients,
              \/ Count(c) \/ Query(c) \/ Write(c) \/ WriteInTx(c) \/ Invalidate(c) \/ Commit(c)
       PROVE  \A d \in Clients : Local(d)'
  <2> DEFINE Quiet == {"count", "query", "write", "invalidate", "commit"}
  <2>1. Scope /\ missed' = missed /\ pc[c] \in Quiet
    BY <1>12 DEF Count, Query, Write, WriteInTx, Invalidate, Commit
  <2>2. pc'[c] \in Quiet \cup {"idle"} /\ \A d \in Clients \ {c} : pc'[d] = pc[d]
    BY <1>0, <1>12 DEF TypeOK, Count, Query, Write, WriteInTx, Invalidate, Commit, Goto, Return
  <2>3. \A d \in Clients \ {c} :
          todo'[d] = todo[d] /\ read'[d] = read[d] /\ err'[d] = err[d]
    BY <1>0, <1>12 DEF TypeOK, Count, Query, Write, WriteInTx, Invalidate, Commit, Goto, Return,
       Raise, Queue
  <2>4. \A d \in Clients \ {c} : Kept(d)
    BY <2>1, <2>2, <2>3 DEF Kept
  <2>5. missed'[c] = {}
    BY <1>0, <2>1 DEF Local
  <2>6. CASE pc'[c] # "idle"
    <3>1. op'[c] = op[c] /\ ids'[c] = ids[c]
      BY <1>0, <2>1, <2>6, ScopeKeeps
    <3>2. Local(c)'
      BY <1>0, <2>1, <2>2, <2>5, <2>6, <3>1 DEF Local, Getting, Gathering, Loading
    <3>3. QED
      BY <1>0, <2>1, <2>4, <3>2, OthersKept
  <2>7. QED
    BY <1>0, <2>1, <2>4, <2>5, <2>6, LocalReturn, OthersKept
<1>13. CASE UNCHANGED <<pc, op, ids, todo, missed, read, err>>
  BY <1>0, <1>13, LocalKept DEF Kept
<1>14. QED
  BY <1>1, <1>2, <1>3, <1>4, <1>5, <1>6, <1>7, <1>8, <1>9, <1>10, <1>11, <1>12, <1>13
     DEF Next, Step, Expire, ExternalWrite, vars

-----------------------------------------------------------------------------
(***************************************************************************)
(* The singleflight group                                                  *)
(***************************************************************************)

\* Steps outside GetByID leave the flights alone.
LEMMA QuietStep ==
  ASSUME TypeOK, FlightInv, Scope, NEW c \in Clients, NEW label,
         label \notin Loading \cup {"wait"}, pc[c] \notin Loading,
         pc' = [pc EXCEPT ![c] = label], flight' = flight
  PROVE  FlightInv'
<1>1. pc'[c] = label /\ \A d \in Clients \ {c} : pc'[d] = pc[d]
  BY DEF TypeOK
<1>2. \A d \in Clients \ {c} : pc[d] \in Loading \cup {"wait"} => ids'[d] = ids[d]
  BY <1>1 DEF TypeOK, Scope, Loading
<1>3. QED
  BY <1>1, <1>2 DEF FlightInv

LEMMA FlightStep == IInv /\ [Next]_vars => FlightInv'
<1> SUFFICES ASSUME IInv, [Next]_vars PROVE FlightInv'
  OBVIOUS
<1>0. TypeOK /\ FlightInv /\ \A d \in Clients : Local(d)
  BY DEF IInv
<1> USE DEF database, cached, calls, results
<1>1. ASSUME NEW c \in Clients, Call(c) PROVE FlightInv'
  <2>1. PICK o \in Ops, I \in SUBSET Ids : Invoke(c, o, I)
    BY <1>1 DEF Call
  <2>2. pc[c] = "idle" /\ flight' = flight /\ pc'[c] = FirstStep(o)
        /\ \A d \in Clients \ {c} : ids'[d] = ids[d] /\ pc'[d] = pc[d]
    BY <1>0, <2>1 DEF TypeOK, Invoke, Goto
  <2>3. FirstStep(o) \notin Loading \cup {"wait"}
    <3>1. o \in {"GetByID", "GetByIDs"} \cup Queries \cup Writes
      BY UsersDaoAssumption DEF Single, Many, Queries, Writes, Updates, Deletes, Creates
    <3>2. QED
      BY <3>1 DEF FirstStep, Loading, Queries, Writes, Updates, Deletes, Creates
  <2>4. QED
    BY <1>0, <2>2, <2>3 DEF FlightInv, Loading
<1>2. ASSUME NEW c \in Clients, EnterFlight(c) PROVE FlightInv'
  <2>1. PICK i \in Ids : ids[c] = {i}
    BY <1>0, <1>2 DEF EnterFlight, Local, Getting
  <2>2. pc[c] = "enter" /\ ids' = ids
    BY <1>2 DEF EnterFlight
  <2>3. CASE flight[i] = Free /\ flight' = [flight EXCEPT ![i] = c] /\ Goto(c, "load")
    BY <1>0, <2>1, <2>2, <2>3, UsersDaoAssumption DEF TypeOK, FlightInv, Loading, Goto
  <2>4. CASE flight[i] # Free /\ Goto(c, "wait") /\ UNCHANGED flight
    BY <1>0, <2>1, <2>2, <2>4 DEF TypeOK, FlightInv, Loading, Goto
  <2>5. QED
    BY <1>2, <2>1, <2>3, <2>4 DEF EnterFlight
<1>3. ASSUME NEW c \in Clients, Load(c) \/ Fill(c) PROVE FlightInv'
  <2>1. pc[c] \in Loading /\ ids' = ids /\ flight' = flight
    BY <1>3 DEF Load, Fill, Loading
  <2>2. pc'[c] \in Loading /\ \A d \in Clients \ {c} : pc'[d] = pc[d]
    BY <1>0, <1>3 DEF TypeOK, Load, Fill, Goto, Loading
  <2>3. pc'[c] # "wait"
    BY <2>2 DEF Loading
  <2>4. QED
    BY <1>0, <2>1, <2>2, <2>3 DEF FlightInv
<1>4. ASSUME NEW c \in Clients, Land(c) PROVE FlightInv'
  <2>1. PICK i \in Ids : ids[c] = {i}
    BY <1>0, <1>4 DEF Land, Local, Getting, Loading
  <2>2. /\ flight' = [flight EXCEPT ![i] = Free] /\ Scope
        /\ pc' = [d \in Clients |->
                   IF d = c \/ (pc[d] = "wait" /\ i \in ids[d]) THEN "idle" ELSE pc[d]]
    BY <1>4, <2>1 DEF Land
  <2>3. \A d \in Clients : pc'[d] \in Loading \cup {"wait"} =>
          d # c /\ pc'[d] = pc[d] /\ ids'[d] = ids[d]
    BY <1>0, <2>2 DEF TypeOK, Scope, Loading
  <2>4. \A d \in Clients : pc'[d] = "wait" => i \notin ids[d]
    BY <2>2
  <2>5. \A d \in Clients : pc[d] \in Loading /\ d # c => pc'[d] = pc[d] /\ i \notin ids[d]
    <3>1. flight[i] = c
      BY <1>0, <1>4, <2>1 DEF Land, FlightInv, Loading
    <3>2. QED
      BY <1>0, <2>2, <3>1 DEF FlightInv, Loading
  <2>6. \A j \in Ids : flight'[j] # Free => j # i /\ flight'[j] = flight[j] /\ flight[j] # c
    <3>1. \A j \in Ids : j # i /\ flight[j] # Free => ids[flight[j]] = {j} /\ {j} # {i}
      BY <1>0 DEF FlightInv
    <3>2. QED
      BY <1>0, <2>1, <2>2, <3>1 DEF TypeOK
  <2>7. \A j \in Ids : j # i => flight'[j] = flight[j]
    BY <1>0, <2>2 DEF TypeOK
  <2>8. \A d \in Clients : pc'[d] \in Loading => \A j \in ids'[d] : flight'[j] = d
    BY <1>0, <2>3, <2>5, <2>7 DEF FlightInv, TypeOK
  <2>9. \A j \in Ids : flight'[j] # Free =>
          /\ flight'[j] \in Clients /\ pc'[flight'[j]] \in Loading
          /\ ids'[flight'[j]] = {j}
    BY <1>0, <2>3, <2>5, <2>6 DEF FlightInv
  <2>10. \A d \in Clients : pc'[d] = "wait" => \A j \in ids'[d] : flight'[j] # Free
    BY <1>0, <2>3, <2>4, <2>7 DEF FlightInv, TypeOK
  <2>11. QED
    BY <2>8, <2>9, <2>10 DEF FlightInv
<1>5. ASSUME NEW c \in Clients,
             \/ CacheGet(c)
             \/ MultiGet(c) \/ Probe(c) \/ Find(c) \/ MultiSet(c) \/ SetPlaceholder(c)
             \/ Count(c) \/ Query(c)
             \/ Write(c) \/ WriteInTx(c) \/ Invalidate(c) \/ Commit(c)
      PROVE  FlightInv'
  <2>1. pc[c] \notin Loading /\ flight' = flight /\ Scope
    BY <1>5 DEF CacheGet, MultiGet, Probe, Find, MultiSet, SetPlaceholder, Count, Query, Write,
       WriteInTx, Invalidate, Commit, Loading
  <2>2. \E label \in Labels \ (Loading \cup {"wait"}) : pc' = [pc EXCEPT ![c] = label]
    BY <1>5 DEF CacheGet, MultiGet, Probe, Find, MultiSet, SetPlaceholder, Count, Query, Write,
       WriteInTx, Invalidate, Commit, Goto, Return, Labels, Loading
  <2>3. QED
    BY <1>0, <2>1, <2>2, QuietStep
<1>6. CASE UNCHANGED <<pc, ids, flight>>
  BY <1>0, <1>6 DEF FlightInv
<1>7. QED
  BY <1>1, <1>2, <1>3, <1>4, <1>5, <1>6
     DEF Next, Step, Cancel, Expire, ExternalWrite, vars

LEMMA NextInv == IInv /\ [Next]_vars => IInv'
<1>1. QED
  BY TypeNext, LocalStep, FlightStep DEF IInv

LEMMA Invariant == Spec => []IInv
<1>1. QED
  BY InitInv, NextInv, PTL DEF Spec

\* Every variable keeps its type; in particular what is put in the cache is a row
\* that has been read.
THEOREM TypeInvariant == Spec => []TypeOK
<1>1. IInv => TypeOK
  BY DEF IInv
<1>2. QED
  BY <1>1, Invariant, PTL

\* For any number of concurrent requests: one load per id at a time.
THEOREM SingleLoadPerIdHolds == Spec => []SingleLoadPerId
<1>1. IInv => SingleLoadPerId
  BY DEF IInv, TypeOK, FlightInv, SingleLoadPerId
<1>2. QED
  BY <1>1, Invariant, PTL

\* Nobody waits for a load that nobody runs.
THEOREM WaitersAreServedHolds == Spec => []WaitersAreServed
<1>1. IInv => WaitersAreServed
  BY DEF IInv, TypeOK, FlightInv, WaitersAreServed, Loading
<1>2. QED
  BY <1>1, Invariant, PTL

-----------------------------------------------------------------------------
(***************************************************************************)
(* The cache against the database.  Each kind of change either keeps an    *)
(* entry coherent, records it in raced, or is followed by the deletion of  *)
(* the entry.                                                              *)
(***************************************************************************)

\* A request in the middle of its deletions stays there with the same ids.
Undisturbed(d) == pc[d] = "invalidate" => pc'[d] = "invalidate" /\ todo'[d] = todo[d]

Awaited(i) == \E c \in Clients : pc[c] = "invalidate" /\ i \in todo[c]

\* What a step must show to keep StaleIsExplained.
LEMMA Explained ==
  ASSUME StaleIsExplained, \A d \in Clients : Undisturbed(d),
         \A i \in Ids : ~Coherent(i)' => i \in raced' \/ Awaited(i)' \/ (~Coherent(i) /\ i \notin raced)
  PROVE  StaleIsExplained'
BY DEF StaleIsExplained, Undisturbed, Awaited

LEMMA QuietCache ==
  ASSUME StaleIsExplained, \A d \in Clients : Undisturbed(d), db' = db, cache' = cache, raced' = raced
  PROVE  StaleIsExplained'
BY Explained DEF Coherent

LEMMA PutExplained ==
  ASSUME TypeOK, StaleIsExplained, \A d \in Clients : Undisturbed(d), db' = db,
         NEW c \in Clients, NEW I \in SUBSET Ids, Put(c, I)
  PROVE  StaleIsExplained'
<1>1. CASE UNCHANGED cached
  BY <1>1, QuietCache DEF cached
<1>2. CASE /\ cache' = [i \in Ids |-> IF i \in I THEN Entry(read[c][i]) ELSE cache[i]]
           /\ raced' = (raced \ I) \cup {i \in I : read[c][i] # db[i]}
  <2>1. \A i \in Ids : ~Coherent(i)' => i \in raced' \/ (~Coherent(i) /\ i \notin raced)
    BY <1>2 DEF Coherent, TypeOK
  <2>2. QED
    BY <2>1, Explained
<1>3. QED
  BY <1>1, <1>2 DEF Put

\* A change of the table that nobody follows up is recorded.
LEMMA LeftBehindExplained ==
  ASSUME TypeOK, StaleIsExplained, \A d \in Clients : Undisturbed(d), cache' = cache,
         raced' = raced \cup LeftBehind
  PROVE  StaleIsExplained'
<1>1. \A i \in Ids : ~Coherent(i)' => i \in raced' \/ (~Coherent(i) /\ i \notin raced)
  BY DEF Coherent, LeftBehind
<1>2. QED
  BY <1>1, Explained

LEMMA StaleInit == Init => StaleIsExplained
BY DEF Init, StaleIsExplained, Coherent

LEMMA StaleStep == IInv /\ StaleIsExplained /\ [Next]_vars => StaleIsExplained'
<1> SUFFICES ASSUME IInv, StaleIsExplained, [Next]_vars PROVE StaleIsExplained'
  OBVIOUS
<1>0. TypeOK
  BY DEF IInv
<1> USE DEF database, cached, calls, results
<1>1. ASSUME NEW c \in Clients,
             \/ Call(c) \/ CacheGet(c) \/ EnterFlight(c) \/ Load(c)
             \/ MultiGet(c) \/ Probe(c) \/ Find(c) \/ Count(c) \/ Query(c) \/ WriteInTx(c)
      PROVE  StaleIsExplained'
  <2>1. UNCHANGED <<db, cache, raced>> /\ pc[c] # "invalidate"
    BY <1>1 DEF Call, Invoke, CacheGet, EnterFlight, Load, MultiGet, Probe, Find, Count, Query,
       WriteInTx
  <2>2. \A d \in Clients \ {c} : pc'[d] = pc[d] /\ todo'[d] = todo[d]
    BY <1>0, <1>1 DEF TypeOK, Call, Invoke, CacheGet, EnterFlight, Load, MultiGet, Probe, Find,
       Count, Query, WriteInTx, Goto, Return, Queue
  <2>3. QED
    BY <2>1, <2>2, QuietCache DEF Undisturbed
<1>2. ASSUME NEW c \in Clients, Land(c) \/ Cancel(c) PROVE StaleIsExplained'
  BY <1>2, QuietCache DEF Land, Cancel, Undisturbed
<1>3. ASSUME NEW c \in Clients, Fill(c) \/ MultiSet(c) \/ SetPlaceholder(c)
      PROVE  StaleIsExplained'
  <2>1. /\ db' = db /\ pc[c] # "invalidate"
        /\ \A d \in Clients \ {c} : pc'[d] = pc[d] /\ todo'[d] = todo[d]
    BY <1>0, <1>3 DEF TypeOK, Fill, MultiSet, SetPlaceholder, Goto
  <2>2. \A d \in Clients : Undisturbed(d)
    BY <2>1 DEF Undisturbed
  <2>3. UNCHANGED cached \/ \E I \in SUBSET Ids : Put(c, I)
    BY <1>0, <1>3 DEF TypeOK, Fill, MultiSet, SetPlaceholder, Present
  <2>4. QED
    BY <1>0, <2>1, <2>2, <2>3, PutExplained, QuietCache
<1>4. ASSUME NEW c \in Clients, Write(c) PROVE StaleIsExplained'
  <2>1. cache' = cache /\ pc[c] = "write"
    BY <1>4 DEF Write
  <2>2. \A d \in Clients \ {c} : pc'[d] = pc[d] /\ todo'[d] = todo[d]
    BY <1>0, <1>4 DEF TypeOK, Write, Goto, Queue
  <2>3. \A d \in Clients : Undisturbed(d)
    BY <2>1, <2>2 DEF Undisturbed
  <2>4. CASE raced' = raced \cup LeftBehind
    BY <1>0, <2>1, <2>3, <2>4, LeftBehindExplained
  <2>5. CASE raced' = raced /\ db' = db
    BY <2>1, <2>3, <2>5, QuietCache
  <2>6. CASE /\ Apply(op[c], ids[c]) /\ op[c] \in Updates \cup Deletes
             /\ Goto(c, "invalidate") /\ raced' = raced
    <3>1. pc'[c] = "invalidate" /\ todo'[c] = ids[c]
      BY <1>0, <1>4, <2>6 DEF TypeOK, Goto, Write, Queue
    <3>2. \A i \in Ids \ ids[c] : db'[i] = db[i]
      BY <2>6 DEF Apply, Updates, Deletes, Creates
    <3>3. \A i \in Ids : ~Coherent(i)' =>
            i \in raced' \/ Awaited(i)' \/ (~Coherent(i) /\ i \notin raced)
      BY <2>1, <2>6, <3>1, <3>2 DEF Coherent, Awaited
    <3>4. QED
      BY <2>3, <3>3, Explained
  <2>7. CASE /\ Apply(op[c], ids[c])
             /\ Goto(c, IF Invalidates(op[c]) THEN "invalidate" ELSE "idle")
             /\ raced' = IF op[c] \in Creates THEN raced \cup LeftBehind ELSE raced
    <3>1. op[c] \in Updates \cup Deletes \cup Creates
      BY <2>7 DEF Apply
    <3>2. QED
      BY <2>4, <2>6, <2>7, <3>1 DEF Invalidates
  <2>8. CASE /\ Apply(op[c], ids[c]) \/ UNCHANGED <<db, top>>
             /\ Goto(c, IF op[c] \in Updates THEN "invalidate" ELSE "idle")
             /\ raced' = IF op[c] \in Updates THEN raced ELSE raced \cup LeftBehind
    BY <2>4, <2>5, <2>6, <2>8
  <2>9. QED
    BY <1>4, <2>7, <2>8 DEF Write
<1>5. ASSUME NEW c \in Clients, Invalidate(c) PROVE StaleIsExplained'
  <2>1. PICK i \in todo[c] :
          /\ Del(c, i)
          /\ todo' = [todo EXCEPT ![c] = @ \ {i}]
          /\ Goto(c, IF todo[c] # {i} THEN "invalidate"
                     ELSE IF op[c] \in InTx THEN "commit" ELSE "idle")
    BY <1>5 DEF Invalidate
  <2>2. db' = db /\ i \in Ids
    BY <1>0, <1>5, <2>1 DEF TypeOK, Invalidate
  <2>3. \A j \in Ids \ {i} : Awaited(j) => Awaited(j)'
    BY <1>0, <2>1 DEF TypeOK, Awaited, Goto
  <2>4. ~Coherent(i)' => i \in raced'
    BY <1>0, <2>1, <2>2 DEF TypeOK, Del, Coherent, cached
  <2>5. \A j \in Ids \ {i} : (Coherent(j) => Coherent(j)') /\ (j \in raced => j \in raced')
    BY <1>0, <2>1, <2>2 DEF TypeOK, Del, Coherent
  <2>6. QED
    BY <2>3, <2>4, <2>5 DEF StaleIsExplained, Awaited
<1>6. ASSUME NEW c \in Clients, Commit(c) PROVE StaleIsExplained'
  <2>1. /\ cache' = cache /\ raced' = raced \cup LeftBehind /\ todo' = todo
        /\ pc[c] = "commit" /\ \A d \in Clients \ {c} : pc'[d] = pc[d]
    BY <1>0, <1>6 DEF TypeOK, Commit, Return, Goto
  <2>2. QED
    BY <1>0, <2>1, LeftBehindExplained DEF Undisturbed
<1>7. ASSUME NEW i \in Ids, Expire(i) PROVE StaleIsExplained'
  <2>1. /\ \A d \in Clients : Undisturbed(d)
        /\ db' = db /\ cache' = [cache EXCEPT ![i] = None] /\ raced' = raced \ {i}
    BY <1>7 DEF Expire, Undisturbed
  <2>2. \A j \in Ids : ~Coherent(j)' => j \in raced' \/ (~Coherent(j) /\ j \notin raced)
    BY <1>0, <2>1 DEF TypeOK, Coherent
  <2>3. QED
    BY <2>1, <2>2, Explained
<1>8. CASE ExternalWrite
  BY <1>0, <1>8, LeftBehindExplained DEF ExternalWrite, Undisturbed
<1>9. CASE UNCHANGED vars
  BY <1>9, QuietCache DEF vars, Undisturbed
<1>10. QED
  BY <1>1, <1>2, <1>3, <1>4, <1>5, <1>6, <1>7, <1>8, <1>9 DEF Next, Step

\* Whatever races, fails or bypasses the cache: an entry that contradicts the
\* database is about to be deleted, or is one of the kinds raced records.
THEOREM StaleIsExplainedHolds == Spec => []StaleIsExplained
<1>1. QED
  BY Invariant, StaleInit, StaleStep, PTL DEF Spec

-----------------------------------------------------------------------------
(***************************************************************************)
(* UsersDao implements StaleTable.  Every row a step puts in the cache or  *)
(* in a request was in circulation before, or is the one it writes.        *)
(***************************************************************************)

LEMMA ReadKnown ==
  ASSUME NEW d \in Clients, pc[d] # "idle", NEW i \in Ids
  PROVE  read[d][i] \in Known(i) \cup {Unread}
BY DEF Known

LEMMA CacheKnown ==
  ASSUME TypeOK, NEW i \in Ids, cache[i] # None
  PROVE  RowOf(cache[i]) \in Known(i)
<1>1. RowOf(cache[i]) # Unread
  BY UsersDaoAssumption DEF TypeOK, RowOf, Rows
<1>2. QED
  BY <1>1 DEF Known

LEMMA TableKnown ==
  ASSUME TypeOK, NEW i \in Ids
  PROVE  db[i] \in Known(i)
BY UsersDaoAssumption DEF TypeOK, Known

EntryKnown(i) == cache'[i] # None => RowOf(cache'[i]) \in Known(i) \cup {db'[i]}

\* What a request has read by a step was in circulation; an idle one keeps what
\* its last call has said.
ReadsKnown(d) ==
  IF pc[d] = "idle" /\ pc'[d] = "idle" THEN UNCHANGED <<read[d], err[d]>>
  ELSE \A i \in Ids : read'[d][i] \in Known(i) \cup {Unread}

LEMMA KeepsKnown ==
  ASSUME NEW d \in Clients, pc'[d] = pc[d], read'[d] = read[d], err'[d] = err[d]
  PROVE  ReadsKnown(d)
BY ReadKnown DEF ReadsKnown

LEMMA StepImplements ==
  ASSUME TypeOK, TypeOK', \A i \in Ids : EntryKnown(i), \A d \in Clients : ReadsKnown(d)
  PROVE  Table!Next
<1>1. ASSUME NEW i \in Ids PROVE db'[i] \in Known(i)'
  BY <1>1, UsersDaoAssumption DEF TypeOK, Known
<1>2. ASSUME NEW i \in Ids, NEW r \in Known(i)' PROVE r \in Known(i) \cup {db'[i]}
  <2>1. CASE r = db'[i]
    BY <2>1
  <2>2. CASE cache'[i] # None /\ r = RowOf(cache'[i])
    BY <2>2 DEF EntryKnown
  <2>3. ASSUME NEW d \in Clients, pc'[d] # "idle", r = read'[d][i] PROVE r \in Known(i)
    BY <1>2, <2>3 DEF ReadsKnown, Known
  <2>4. QED
    BY <1>2, <2>1, <2>2, <2>3 DEF Known
<1>3. Table!Circulate
  BY <1>1, <1>2 DEF Table!Circulate
<1>4. ASSUME NEW d \in Clients PROVE Table!Tell(d)
  <2>1. CASE pc'[d] # "idle" \/ err'[d] = "failed"
    BY <2>1 DEF Told, NoRows, Table!Tell
  <2>2. CASE pc'[d] = "idle" /\ err'[d] # "failed" /\ pc[d] # "idle"
    BY <2>2 DEF ReadsKnown, Told, Table!Tell
  <2>3. CASE pc'[d] = "idle" /\ pc[d] = "idle"
    BY <2>3 DEF ReadsKnown, Told, Table!Tell
  <2>4. QED
    BY <2>1, <2>2, <2>3
<1>5. QED
  BY <1>3, <1>4 DEF Table!Next

LEMMA PutKnown ==
  ASSUME TypeOK, NEW c \in Clients, pc[c] # "idle", NEW I \in SUBSET Ids,
         \A i \in I : read[c][i] # Unread, Put(c, I)
  PROVE  \A i \in Ids : EntryKnown(i)
<1>1. CASE UNCHANGED cached
  BY <1>1, CacheKnown DEF cached, EntryKnown
<1>2. CASE cache' = [i \in Ids |-> IF i \in I THEN Entry(read[c][i]) ELSE cache[i]]
  <2>1. ASSUME NEW i \in I PROVE EntryKnown(i)
    <3>1. read[c][i] \in Rows /\ read[c][i] \in Known(i)
      BY <2>1, ReadKnown DEF TypeOK
    <3>2. QED
      BY <1>2, <3>1, RowOfEntry DEF EntryKnown
  <2>2. ASSUME NEW i \in Ids \ I PROVE EntryKnown(i)
    BY <1>2, CacheKnown DEF EntryKnown
  <2>3. QED
    BY <2>1, <2>2
<1>3. QED
  BY <1>1, <1>2 DEF Put

LEMMA ReadOne ==
  ASSUME TypeOK, NEW c \in Clients, pc[c] # "idle", NEW i \in Ids, NEW r \in Known(i),
         read' = [read EXCEPT ![c][i] = r]
  PROVE  \A j \in Ids : read'[c][j] \in Known(j) \cup {Unread}
<1>1. read'[c] = [read[c] EXCEPT ![i] = r]
  BY DEF TypeOK
<1>2. \A j \in Ids : read'[c][j] = IF j = i THEN r ELSE read[c][j]
  BY <1>1 DEF TypeOK
<1>3. QED
  BY <1>2, ReadKnown

LEMMA NextImplements == IInv /\ IInv' /\ [Next]_vars => [Table!Next]_(Table!vars)
<1> SUFFICES ASSUME IInv, IInv', [Next]_vars PROVE Table!Next
  OBVIOUS
<1>0. TypeOK /\ TypeOK' /\ \A d \in Clients : Local(d)
  BY DEF IInv
<1> USE DEF database, cached, calls, results
<1>1. ASSUME cache' = cache PROVE \A i \in Ids : EntryKnown(i)
  BY <1>0, <1>1, CacheKnown DEF EntryKnown
<1>2. ASSUME NEW c \in Clients, Call(c) PROVE Table!Next
  <2>1. cache' = cache /\ pc'[c] # "idle" /\ read'[c] = NoRows
        /\ \A d \in Clients \ {c} : pc'[d] = pc[d] /\ read'[d] = read[d] /\ err'[d] = err[d]
    <3>1. PICK o \in Ops, I \in SUBSET Ids : Invoke(c, o, I)
      BY <1>2 DEF Call
    <3>2. o \in {"GetByID", "GetByIDs"} \cup Queries \cup Writes
      BY UsersDaoAssumption DEF Single, Many, Queries, Writes, Updates, Deletes, Creates
    <3>3. FirstStep(o) # "idle"
      BY <3>2 DEF FirstStep, Queries, Writes, Updates, Deletes, Creates
    <3>4. QED
      BY <1>0, <3>1, <3>3 DEF TypeOK, Invoke, Goto, Raise
  <2>2. ReadsKnown(c)
    BY <2>1 DEF ReadsKnown, NoRows
  <2>3. \A d \in Clients \ {c} : ReadsKnown(d)
    BY <2>1, KeepsKnown
  <2>4. QED
    BY <1>0, <1>1, <2>1, <2>2, <2>3, StepImplements
<1>3. ASSUME NEW c \in Clients, CacheGet(c) PROVE Table!Next
  <2>1. /\ cache' = cache /\ pc[c] = "cacheGet"
        /\ \A d \in Clients \ {c} : pc'[d] = pc[d] /\ read'[d] = read[d] /\ err'[d] = err[d]
    BY <1>0, <1>3 DEF TypeOK, CacheGet, Goto, Return, Raise
  <2>2. \/ read' = read
        \/ \E i \in Ids : cache[i] # None /\ read' = [read EXCEPT ![c][i] = RowOf(cache[i])]
    BY <1>0, <1>3 DEF TypeOK, CacheGet
  <2>3. \A j \in Ids : read'[c][j] \in Known(j) \cup {Unread}
    BY <1>0, <2>1, <2>2, ReadKnown, CacheKnown, ReadOne
  <2>4. QED
    BY <1>0, <1>1, <2>1, <2>3, KeepsKnown, StepImplements DEF ReadsKnown
<1>4. ASSUME NEW c \in Clients, Load(c) PROVE Table!Next
  <2>1. /\ cache' = cache /\ pc[c] = "load"
        /\ \A d \in Clients \ {c} : pc'[d] = pc[d] /\ read'[d] = read[d] /\ err'[d] = err[d]
    BY <1>0, <1>4 DEF TypeOK, Load, Goto, Raise
  <2>2. read' = read \/ \E i \in Ids : read' = [read EXCEPT ![c][i] = db[i]]
    BY <1>0, <1>4 DEF TypeOK, Load
  <2>3. \A j \in Ids : read'[c][j] \in Known(j) \cup {Unread}
    BY <1>0, <2>1, <2>2, ReadKnown, TableKnown, ReadOne
  <2>4. QED
    BY <1>0, <1>1, <2>1, <2>3, KeepsKnown, StepImplements DEF ReadsKnown
<1>5. ASSUME NEW c \in Clients, Fill(c) \/ MultiSet(c) \/ SetPlaceholder(c) PROVE Table!Next
  <2>1. UNCHANGED results /\ pc[c] # "idle"
        /\ \A d \in Clients \ {c} : pc'[d] = pc[d]
    BY <1>0, <1>5 DEF TypeOK, Fill, MultiSet, SetPlaceholder, Goto
  <2>2. UNCHANGED cached \/ \E I \in SUBSET Ids : Put(c, I) /\ \A i \in I : read[c][i] # Unread
    <3>1. CASE Fill(c)
      BY <1>0, <3>1 DEF TypeOK, Fill, Local, Fetched
    <3>2. CASE MultiSet(c)
      <4>1. Present(c) \in SUBSET Ids /\ \A i \in Present(c) : read[c][i] # Unread
        BY <1>0, <3>2 DEF TypeOK, MultiSet, Present, Local
      <4>2. QED
        BY <3>2, <4>1 DEF MultiSet
    <3>3. CASE SetPlaceholder(c)
      <4>1. PICK i \in todo[c] : Put(c, {i})
        BY <3>3 DEF SetPlaceholder
      <4>2. {i} \in SUBSET Ids /\ \A j \in {i} : read[c][j] # Unread
        BY <1>0, <3>3, <4>1 DEF TypeOK, SetPlaceholder, Local
      <4>3. QED
        BY <4>1, <4>2
    <3>4. QED
      BY <1>5, <3>1, <3>2, <3>3
  <2>3. \A i \in Ids : EntryKnown(i)
    BY <1>0, <1>1, <2>1, <2>2, PutKnown
  <2>4. ReadsKnown(c)
    BY <2>1, ReadKnown DEF ReadsKnown
  <2>5. QED
    BY <1>0, <2>1, <2>3, <2>4, KeepsKnown, StepImplements
<1>6. ASSUME NEW c \in Clients, Land(c) PROVE Table!Next
  <2>1. cache' = cache /\ pc[c] = "land"
    BY <1>6 DEF Land
  <2>2. ASSUME NEW d \in Clients PROVE ReadsKnown(d)
    <3>1. \/ pc'[d] = pc[d] /\ read'[d] = read[d] /\ err'[d] = err[d]
          \/ pc[d] # "idle" /\ read'[d] = read[c]
      BY <1>0, <1>6 DEF TypeOK, Land
    <3>2. QED
      BY <2>1, <3>1, KeepsKnown, ReadKnown DEF ReadsKnown
  <2>3. QED
    BY <1>0, <1>1, <2>1, <2>2, StepImplements
<1>7. ASSUME NEW c \in Clients, MultiGet(c) PROVE Table!Next
  <2>1. /\ cache' = cache /\ pc[c] = "multiGet"
        /\ \A d \in Clients \ {c} : pc'[d] = pc[d] /\ read'[d] = read[d] /\ err'[d] = err[d]
    BY <1>0, <1>7 DEF TypeOK, MultiGet, Goto, Return, Raise
  <2>2. ASSUME NEW j \in Ids PROVE read'[c][j] \in Known(j) \cup {Unread}
    <3>1. \/ read' = read
          \/ read'[c][j] = Unread
          \/ cache[j] \notin {None, Placeholder} /\ read'[c][j] = cache[j]
      BY <1>0, <1>7, <2>2 DEF TypeOK, MultiGet
    <3>2. QED
      BY <1>0, <2>1, <2>2, <3>1, ReadKnown, CacheKnown DEF RowOf
  <2>3. QED
    BY <1>0, <1>1, <2>1, <2>2, KeepsKnown, StepImplements DEF ReadsKnown
<1>8. ASSUME NEW c \in Clients, Probe(c) PROVE Table!Next
  <2>1. /\ cache' = cache /\ pc[c] = "probe"
        /\ \A d \in Clients \ {c} : pc'[d] = pc[d] /\ read'[d] = read[d] /\ err'[d] = err[d]
    BY <1>0, <1>8 DEF TypeOK, Probe, Goto
  <2>2. \/ read' = read
        \/ \E i \in Ids : cache[i] = Placeholder /\ read' = [read EXCEPT ![c][i] = Absent]
    BY <1>0, <1>8 DEF TypeOK, Probe
  <2>3. \A i \in Ids : cache[i] = Placeholder => Absent \in Known(i)
    BY <1>0, CacheKnown, UsersDaoAssumption DEF RowOf
  <2>4. \A j \in Ids : read'[c][j] \in Known(j) \cup {Unread}
    BY <1>0, <2>1, <2>2, <2>3, ReadKnown, ReadOne
  <2>5. QED
    BY <1>0, <1>1, <2>1, <2>4, KeepsKnown, StepImplements DEF ReadsKnown
<1>9. ASSUME NEW c \in Clients, Find(c) PROVE Table!Next
  <2>1. /\ cache' = cache /\ pc[c] = "find"
        /\ \A d \in Clients \ {c} : pc'[d] = pc[d] /\ read'[d] = read[d] /\ err'[d] = err[d]
    BY <1>0, <1>9 DEF TypeOK, Find, Goto, Return, Raise
  <2>2. \A j \in Ids : read'[c][j] \in {read[c][j], db[j]}
    BY <1>0, <1>9 DEF TypeOK, Find
  <2>3. \A j \in Ids : read'[c][j] \in Known(j) \cup {Unread}
    BY <1>0, <2>1, <2>2, ReadKnown, TableKnown
  <2>4. QED
    BY <1>0, <1>1, <2>1, <2>3, KeepsKnown, StepImplements DEF ReadsKnown
<1>10. ASSUME NEW c \in Clients, Query(c) PROVE Table!Next
  <2>1. /\ cache' = cache /\ pc[c] = "query"
        /\ \A d \in Clients \ {c} : pc'[d] = pc[d] /\ read'[d] = read[d] /\ err'[d] = err[d]
    BY <1>0, <1>10 DEF TypeOK, Query, Goto, Return, Raise
  <2>2. \A j \in Ids : \/ read'[c][j] \in {read[c][j], db[j], Unread}
    BY <1>0, <1>10 DEF TypeOK, Query, Selected
  <2>3. \A j \in Ids : read'[c][j] \in Known(j) \cup {Unread}
    BY <1>0, <2>1, <2>2, ReadKnown, TableKnown
  <2>4. QED
    BY <1>0, <1>1, <2>1, <2>3, KeepsKnown, StepImplements DEF ReadsKnown
<1>11. ASSUME NEW c \in Clients,
              Count(c) \/ Write(c) \/ WriteInTx(c) \/ Invalidate(c) \/ Commit(c)
       PROVE  Table!Next
  <2>1. /\ read' = read /\ pc[c] # "idle"
        /\ \A d \in Clients \ {c} : pc'[d] = pc[d] /\ err'[d] = err[d]
    BY <1>0, <1>11 DEF TypeOK, Count, Write, WriteInTx, Invalidate, Commit, Goto, Return, Raise
  <2>2. \A i \in Ids : cache'[i] \in {cache[i], None}
    BY <1>0, <1>11 DEF TypeOK, Count, Write, WriteInTx, Invalidate, Del, Commit
  <2>3. \A i \in Ids : EntryKnown(i)
    BY <1>0, <2>2, CacheKnown DEF EntryKnown
  <2>4. ReadsKnown(c)
    BY <2>1, ReadKnown DEF ReadsKnown
  <2>5. QED
    BY <1>0, <2>1, <2>3, <2>4, KeepsKnown, StepImplements
<1>12. CASE /\ UNCHANGED <<pc, read, err>>
            /\ \A i \in Ids : cache'[i] \in {cache[i], None}
  <2>1. \A i \in Ids : EntryKnown(i)
    BY <1>0, <1>12, CacheKnown DEF EntryKnown
  <2>2. QED
    BY <1>0, <1>12, <2>1, KeepsKnown, StepImplements
<1>13. ASSUME NEW c \in Clients, EnterFlight(c) PROVE Table!Next
  <2>1. /\ cache' = cache /\ read' = read /\ pc[c] = "enter"
        /\ \A d \in Clients \ {c} : pc'[d] = pc[d] /\ err'[d] = err[d]
    BY <1>0, <1>13 DEF TypeOK, EnterFlight, Goto
  <2>2. ReadsKnown(c)
    BY <2>1, ReadKnown DEF ReadsKnown
  <2>3. QED
    BY <1>0, <1>1, <2>1, <2>2, KeepsKnown, StepImplements
<1>14. ASSUME NEW c \in Clients, Cancel(c) PROVE UNCHANGED <<pc, read, err, cache>>
  BY <1>14 DEF Cancel
<1>15. ASSUME NEW i \in Ids, Expire(i)
       PROVE  /\ UNCHANGED <<pc, read, err>>
              /\ \A j \in Ids : cache'[j] \in {cache[j], None}
  BY <1>0, <1>15 DEF Expire, TypeOK
<1>16. ASSUME ExternalWrite PROVE UNCHANGED <<pc, read, err, cache>>
  BY <1>16 DEF ExternalWrite
<1>17. QED
  BY <1>2, <1>3, <1>4, <1>5, <1>6, <1>7, <1>8, <1>9, <1>10, <1>11, <1>12, <1>13, <1>14,
     <1>15, <1>16 DEF Next, Step, vars

LEMMA InitImplements == Init => Table!Init
<1> SUFFICES ASSUME Init PROVE Table!Init
  OBVIOUS
<1>1. \A i \in Ids : db[i] # Unread
  BY UsersDaoAssumption DEF Init, Rows, Versions, Absent
<1>2. \A i \in Ids : Known(i) = {db[i]}
  BY <1>1 DEF Init, Known
<1>3. \A c \in Clients : Told(c) = NoRows
  BY DEF Init, Told
<1>4. QED
  BY <1>2, <1>3 DEF Table!Init, Table!Nothing, NoRows

\* For any number of requests, ids and writes: what the methods of the dao return
\* are rows of a stale table.
THEOREM ImplementsStaleTable == Spec => StaleTableSpec
<1>1. QED
  BY InitInv, NextInv, InitImplements, NextImplements, PTL DEF Spec, StaleTableSpec, Table!Spec

-----------------------------------------------------------------------------
(***************************************************************************)
(* What a method answers                                                   *)
(***************************************************************************)

\* The answer of one call, over one step.
Whole(d) ==
  pc'[d] = "idle" /\ pc[d] # "idle" /\ err'[d] # "failed" =>
    /\ op[d] \in {"GetByID", "GetByIDs"} => \A i \in ids[d] : read'[d][i] # Unread
    /\ op[d] = "GetByID" => (err'[d] = "notFound" <=> \E i \in ids[d] : read'[d][i] = Absent)

LEMMA StepIsWhole == IInv /\ [Next]_vars => \A d \in Clients : Whole(d)
<1> SUFFICES ASSUME IInv, [Next]_vars, NEW d \in Clients,
                    pc'[d] = "idle", pc[d] # "idle", err'[d] # "failed"
             PROVE  Whole(d)
  BY DEF Whole
<1>0. TypeOK /\ TypeOK' /\ Local(d) /\ FlightInv /\ \A c \in Clients : Local(c)
  BY TypeNext DEF IInv
<1> USE DEF database, cached, calls, results
<1>1. ASSUME NEW c \in Clients, CacheGet(c) PROVE Whole(d)
  <2>1. d = c /\ pc[d] = "cacheGet"
    BY <1>0, <1>1 DEF TypeOK, CacheGet, Goto, Return
  <2>2. PICK i \in Ids : ids[d] = {i}
    BY <1>0, <2>1 DEF Local, Getting
  <2>3. /\ cache[i] # None /\ read' = [read EXCEPT ![d][i] = RowOf(cache[i])]
        /\ err'[d] = IF cache[i] = Placeholder THEN "notFound" ELSE "nil"
    BY <1>0, <1>1, <2>1, <2>2 DEF TypeOK, CacheGet, Goto, Return, Raise
  <2>4. read'[d][i] = RowOf(cache[i])
    BY <1>0, <2>3 DEF TypeOK
  <2>5. cache[i] \in Versions \cup {Placeholder}
    BY <1>0, <2>3 DEF TypeOK
  <2>6. /\ RowOf(cache[i]) # Unread
        /\ RowOf(cache[i]) = Absent <=> cache[i] = Placeholder
    BY <2>5, UsersDaoAssumption DEF RowOf, Rows, Versions, Absent
  <2>7. QED
    BY <2>2, <2>3, <2>4, <2>6 DEF Whole
<1>2. ASSUME NEW c \in Clients, Land(c) PROVE Whole(d)
  <2>1. PICK i \in Ids : ids[c] = {i}
    BY <1>0, <1>2 DEF Land, Local, Getting, Loading
  <2>2. /\ pc[c] = "land"
        /\ d = c \/ (pc[d] = "wait" /\ i \in ids[d])
        /\ read'[d] = read[c] /\ err'[d] = err[c]
    BY <1>0, <1>2, <2>1 DEF TypeOK, Land
  <2>3. ids[d] = {i}
    BY <1>0, <2>1, <2>2 DEF Local, Getting
  <2>4. Fetched(c)
    BY <1>0, <2>2 DEF Local
  <2>5. QED
    BY <2>1, <2>2, <2>3, <2>4 DEF Fetched, Whole
<1>3. ASSUME NEW c \in Clients, MultiGet(c) PROVE Whole(d)
  <2>1. d = c /\ pc[d] = "multiGet"
    BY <1>0, <1>3 DEF TypeOK, MultiGet, Goto, Return
  <2>2. op[d] # "GetByID"
    BY <1>0, <2>1 DEF Local, Getting, Loading
  <2>3. \A i \in ids[d] : cache[i] \notin {None, Placeholder} /\ read'[d][i] = cache[i]
    BY <1>0, <1>3, <2>1 DEF TypeOK, MultiGet, Goto, Return, Raise
  <2>4. \A i \in ids[d] : read'[d][i] # Unread
    BY <1>0, <2>3, UsersDaoAssumption DEF TypeOK, Rows
  <2>5. QED
    BY <2>2, <2>4 DEF Whole
<1>4. ASSUME NEW c \in Clients, Probe(c) PROVE Whole(d)
  <2>1. d = c /\ pc[d] = "probe"
    BY <1>0, <1>4 DEF TypeOK, Probe, Goto
  <2>2. op[d] # "GetByID" /\ ids[d] \in SUBSET Ids
    BY <1>0, <2>1 DEF Local, Getting, Loading, TypeOK
  <2>3. PICK i \in todo[d] :
          /\ \/ read' = [read EXCEPT ![d][i] = Absent] /\ missed' = missed
             \/ missed' = [missed EXCEPT ![d] = @ \cup {i}] /\ UNCHANGED read
          /\ todo[d] = {i} /\ missed'[d] = {}
    BY <1>0, <1>4, <2>1 DEF TypeOK, Probe, Goto
  <2>4. read' = [read EXCEPT ![d][i] = Absent] /\ missed[d] = {} /\ i \in Ids
    BY <1>0, <2>3 DEF TypeOK
  <2>5. \A j \in ids[d] \ {i} : read'[d][j] = read[d][j] /\ read[d][j] # Unread
    BY <1>0, <2>1, <2>2, <2>3, <2>4 DEF TypeOK, Local
  <2>6. read'[d][i] = Absent /\ Absent # Unread
    BY <1>0, <2>4, UsersDaoAssumption DEF TypeOK, Rows
  <2>7. QED
    BY <2>2, <2>5, <2>6 DEF Whole
<1>5. ASSUME NEW c \in Clients, MultiSet(c) \/ SetPlaceholder(c) PROVE Whole(d)
  <2>1. d = c /\ pc[d] \in {"multiSet", "placehold"} /\ read' = read
    BY <1>0, <1>5 DEF TypeOK, MultiSet, SetPlaceholder, Goto
  <2>2. QED
    BY <1>0, <2>1 DEF Local, Getting, Loading, Whole
<1>6. ASSUME NEW c \in Clients, Find(c) PROVE Whole(d)
  BY <1>0, <1>6 DEF TypeOK, Find, Goto, Return, Raise
<1>7. ASSUME NEW c \in Clients,
             \/ Count(c) \/ Query(c) \/ Write(c) \/ WriteInTx(c) \/ Invalidate(c) \/ Commit(c)
      PROVE  Whole(d)
  <2>1. d = c /\ pc[d] \in {"count", "query", "write", "invalidate", "commit"}
    BY <1>0, <1>7 DEF TypeOK, Count, Query, Write, WriteInTx, Invalidate, Commit, Goto, Return
  <2>2. op[d] \notin {"GetByID", "GetByIDs"}
    BY <1>0, <2>1 DEF Local, Getting, Gathering, Loading
  <2>3. QED
    BY <2>2 DEF Whole
<1>8. ASSUME NEW c \in Clients, Call(c) \/ EnterFlight(c) \/ Load(c) \/ Fill(c) PROVE Whole(d)
  <2>1. \A e \in Clients \ {c} : pc'[e] = pc[e]
    BY <1>0, <1>8 DEF TypeOK, Call, Invoke, EnterFlight, Load, Fill, Goto
  <2>2. pc[c] = "idle" \/ pc'[c] # "idle"
    BY <1>0, <1>8 DEF TypeOK, Call, Invoke, EnterFlight, Load, Fill, Goto
  <2>3. QED
    BY <2>1, <2>2
<1>9. CASE UNCHANGED pc
  BY <1>9
<1>10. QED
  BY <1>1, <1>2, <1>3, <1>4, <1>5, <1>6, <1>7, <1>8, <1>9
     DEF Next, Step, Cancel, Expire, ExternalWrite, vars

\* For any number of requests: a call that reports no failure has an answer for
\* every id, and "not found" means that the answer is an absence.
THEOREM AnswersAreWholeHolds == Spec => AnswersAreWhole
<1>1. IInv /\ [Next]_vars =>
        [\A c \in Clients : pc'[c] = "idle" /\ pc[c] # "idle" /\ err'[c] # "failed" =>
           /\ op[c] \in {"GetByID", "GetByIDs"} => \A i \in ids[c] : read'[c][i] # Unread
           /\ op[c] = "GetByID" =>
                (err'[c] = "notFound" <=> \E i \in ids[c] : read'[c][i] = Absent)]_vars
  BY StepIsWhole DEF Whole
<1>2. QED
  BY <1>1, Invariant, PTL DEF Spec, AnswersAreWhole

-----------------------------------------------------------------------------
(***************************************************************************)
(* The API runs the dao                                                    *)
(***************************************************************************)

\* A handler makes one call, with ids.
LEMMA HandleAsks ==
  ASSUME UsersDaoAssumption, NEW c \in Clients, Handle(c)
  PROVE  \E o \in Ops \ InTx, I \in SUBSET Ids : Ask(c, o, I)
<1> {} \in SUBSET Ids /\ \A i \in Ids : {i} \in SUBSET Ids
  OBVIOUS
<1> \A last : {i \in Ids : i < last} \in SUBSET Ids
  OBVIOUS
<1>1. \E o \in {"Create", "DeleteByID", "UpdateByID", "GetByID", "GetByColumns", "DeleteByIDs",
                "GetByCondition", "GetByIDs", "GetByLastID"}, I \in SUBSET Ids : Ask(c, o, I)
  BY DEF Handle, Create, DeleteByID, UpdateByID, GetByID, List, DeleteByIDs, GetByCondition,
     ListByIDs, ListByLastID
<1>2. QED
  BY <1>1 DEF Ask, InTx

LEMMA ApiStepIsStep == [ApiNext]_apiVars => [Next]_vars
<1> SUFFICES ASSUME [ApiNext]_apiVars PROVE [Next]_vars
  OBVIOUS
<1>1. CASE Work
  BY <1>1 DEF Work, Next
<1>2. ASSUME NEW c \in Clients, Handle(c) PROVE Next
  BY <1>2, HandleAsks, UsersDaoAssumption DEF Ask, Next, Call
<1>3. CASE UNCHANGED apiVars
  BY <1>3 DEF apiVars
<1>4. QED
  BY <1>1, <1>2, <1>3 DEF ApiNext

\* Whatever the handlers do, they use the dao as its other callers may: what is
\* proved of UsersDao holds of the API.
THEOREM ApiRunsTheDao == ApiSpec => Spec
<1>1. ApiInit => Init
  BY DEF ApiInit
<1>2. QED
  BY <1>1, ApiStepIsStep, PTL DEF ApiSpec, Spec

-----------------------------------------------------------------------------
(***************************************************************************)
(* How far a request has come                                              *)
(***************************************************************************)
Request(c) ==
  /\ doomed[c] \in SUBSET Ids /\ doomed[c] \subseteq 1..top
  /\ pc[c] = "idle" <=> op[c] = "none"
  /\ op[c] \notin InTx
  /\ doomed[c] # {} => op[c] \in Deletes
  /\ op[c] \in Deletes => doomed[c] \subseteq ids[c] /\ pc[c] \in {"write", "invalidate"}
  /\ op[c] \in Deletes /\ pc[c] = "invalidate" => \A i \in doomed[c] : db[i] = Absent
  /\ pc[c] # "commit"
  /\ err[c] = "notFound" => op[c] \in {"none", "GetByID"}

RequestInv == doomed \in [Clients -> SUBSET Ids] /\ \A c \in Clients : Request(c)

LEMMA RequestInit == ApiInit => RequestInv
BY DEF ApiInit, Init, RequestInv, Request, InTx, Deletes

\* A row that is gone stays away: an id is handed out once.
LEMMA GoneForGood ==
  ASSUME IInv, [Next]_vars
  PROVE  /\ top' \in Nat /\ top <= top'
         /\ \A i \in Ids : i \in 1..top /\ db[i] = Absent => db'[i] = Absent
<1> TypeOK /\ top \in Nat
  BY UsersDaoAssumption DEF IInv, TypeOK
<1> USE DEF database
<1>1. ASSUME NEW o, NEW I, Apply(o, I)
      PROVE  /\ top' \in Nat /\ top <= top'
             /\ \A i \in Ids : i \in 1..top /\ db[i] = Absent => db'[i] = Absent
  BY <1>1 DEF Apply, TypeOK
<1>2. CASE UNCHANGED <<db, top>>
  BY <1>2
<1>3. (\E o, I : Apply(o, I)) \/ UNCHANGED <<db, top>>
  <2>1. ASSUME NEW c \in Clients, Call(c)
        PROVE  UNCHANGED <<db, top>>
    BY <2>1 DEF Call, Invoke
  <2>2. ASSUME NEW c \in Clients, Step(c)
        PROVE  (\E o, I : Apply(o, I)) \/ UNCHANGED <<db, top>>
    BY <2>2 DEF Step, CacheGet, EnterFlight, Load, Fill, Land, MultiGet, Probe, Find, MultiSet,
       SetPlaceholder, Count, Query, Write, WriteInTx, Invalidate, Commit
  <2>3. ASSUME NEW c \in Clients, Cancel(c) PROVE UNCHANGED <<db, top>>
    BY <2>3 DEF Cancel
  <2>4. ASSUME NEW i \in Ids, Expire(i) PROVE UNCHANGED <<db, top>>
    BY <2>4 DEF Expire
  <2>5. CASE ExternalWrite
    BY <2>5 DEF ExternalWrite
  <2>6. CASE UNCHANGED vars
    BY <2>6 DEF vars
  <2>7. QED
    BY <2>1, <2>2, <2>3, <2>4, <2>5, <2>6 DEF Next
<1>4. QED
  BY <1>1, <1>2, <1>3

Still(d) ==
  /\ pc'[d] = pc[d] /\ op'[d] = op[d] /\ ids'[d] = ids[d]
  /\ err'[d] = err[d] /\ doomed'[d] = doomed[d]

LEMMA StillRequest ==
  ASSUME IInv, [Next]_vars, NEW d \in Clients, Request(d), Still(d)
  PROVE  Request(d)'
<1>1. top \in Nat
  BY UsersDaoAssumption DEF IInv, TypeOK
<1>2. QED
  BY <1>1, GoneForGood DEF Request, Still

LEMMA IdleRequest ==
  ASSUME NEW d \in Clients, pc'[d] = "idle", op'[d] = "none", doomed'[d] = {}
  PROVE  Request(d)'
BY DEF Request, Deletes, InTx

LEMMA RequestAsk ==
  ASSUME IInv, RequestInv, UsersDaoAssumption, [Next]_vars,
         NEW c \in Clients, NEW o \in Ops \ InTx, NEW I \in SUBSET Ids, Ask(c, o, I)
  PROVE  RequestInv'
<1> TypeOK
  BY DEF IInv
<1>1. /\ pc'[c] = FirstStep(o) /\ op'[c] = o /\ ids'[c] = I /\ err'[c] = "nil" /\ top' = top
      /\ doomed'[c] = IF o \in Deletes THEN I \cap 1..top ELSE {}
      /\ doomed' \in [Clients -> SUBSET Ids]
  BY DEF Ask, Invoke, Goto, Raise, TypeOK, RequestInv
<1>2. \A d \in Clients \ {c} : Still(d)
  BY DEF Ask, Invoke, Goto, Raise, TypeOK, RequestInv, Still
<1>3. /\ o \in Deletes => FirstStep(o) = "write"
      /\ FirstStep(o) \notin {"idle", "invalidate", "commit"}
      /\ o # "none"
  BY UsersDaoAssumption DEF FirstStep, Single, Many, Queries, Writes, Updates, Deletes, Creates
<1>4. Request(c)'
  BY <1>1, <1>3 DEF Request
<1>5. QED
  BY <1>1, <1>2, <1>4, StillRequest DEF RequestInv

-----------------------------------------------------------------------------
(***************************************************************************)
(* What a request has done when it returns                                 *)
(***************************************************************************)
Done(c) ==
  pc[c] # "idle" /\ pc'[c] = "idle" =>
    /\ op[c] \in Deletes /\ err'[c] = "nil" => \A i \in doomed[c] : db'[i] = Absent
    /\ err'[c] = "notFound" =>
         \/ op[c] = "GetByID"
         \/ op[c] = "GetByCondition" /\ \A i \in ids[c] : read'[c][i] = Absent

\* What a call was made with stays while it runs.
Scoped ==
  \A d \in Clients :
    IF pc'[d] = "idle" THEN op'[d] = "none" ELSE op'[d] = op[d] /\ ids'[d] = ids[d]

LEMMA ScopeScoped ==
  ASSUME TypeOK, Scope PROVE Scoped
BY ScopeKeeps DEF Scoped, Scope

LEMMA UnchangedScoped ==
  ASSUME RequestInv, UNCHANGED <<op, ids>>, \A d \in Clients : pc'[d] = "idle" => pc[d] = "idle"
  PROVE  Scoped
BY DEF Scoped, RequestInv, Request

\* The requests that are left alone.
LEMMA OthersRequest ==
  ASSUME IInv, RequestInv, [Next]_vars, Work, Scoped,
         NEW d \in Clients, pc'[d] = pc[d], err'[d] = err[d]
  PROVE  Request(d)' /\ Done(d)
<1> TypeOK /\ Request(d)
  BY DEF IInv, RequestInv
<1>1. CASE pc[d] = "idle"
  <2>1. op'[d] = "none" /\ doomed'[d] = {}
    BY <1>1 DEF Scoped, Work
  <2>2. QED
    BY <1>1, <2>1, IdleRequest DEF Done
<1>2. CASE pc[d] # "idle"
  <2>1. op'[d] = op[d] /\ ids'[d] = ids[d] /\ doomed'[d] = doomed[d]
    BY <1>2 DEF Scoped, Work
  <2>2. QED
    BY <1>2, <2>1, StillRequest DEF Done, Still
<1>3. QED
  BY <1>1, <1>2

\* The request that takes a step and does not return.
LEMMA GoesOn ==
  ASSUME IInv, RequestInv, [Next]_vars, Work, Scoped, NEW c \in Clients,
         pc[c] # "idle", pc'[c] \notin {"idle", "commit"},
         err'[c] = "notFound" => op[c] = "GetByID",
         op[c] \in Deletes =>
           pc'[c] = "invalidate" /\ \A i \in doomed[c] : db'[i] = Absent
  PROVE  Request(c)' /\ Done(c)
<1> TypeOK /\ Request(c) /\ top \in Nat
  BY UsersDaoAssumption DEF IInv, RequestInv, TypeOK
<1>1. op'[c] = op[c] /\ ids'[c] = ids[c] /\ doomed'[c] = doomed[c]
  BY DEF Scoped, Work
<1>2. doomed[c] \subseteq 1..top'
  BY GoneForGood DEF Request
<1>3. QED
  BY <1>1, <1>2 DEF Request, Done

\* The request that returns.
LEMMA Returns ==
  ASSUME Work, Scoped, NEW c \in Clients, pc'[c] = "idle", Done(c)
  PROVE  Request(c)' /\ Done(c)
<1>1. op'[c] = "none" /\ doomed'[c] = {}
  BY DEF Scoped, Work
<1>2. QED
  BY <1>1, IdleRequest

\* A step of GetByID or GetByIDs, but for the end of a load.
LEMMA LookupRequest ==
  ASSUME IInv, RequestInv, [Next]_vars, Work, NEW c \in Clients,
         \/ CacheGet(c) \/ EnterFlight(c) \/ Load(c) \/ Fill(c)
         \/ MultiGet(c) \/ Probe(c) \/ Find(c) \/ MultiSet(c) \/ SetPlaceholder(c)
  PROVE  \A d \in Clients : Request(d)' /\ Done(d)
<1> TypeOK /\ Local(c) /\ Request(c)
  BY DEF IInv, RequestInv
<1> USE DEF database, cached, calls, results
<1>1. pc[c] \in Getting \cup Gathering /\ op[c] \in {"GetByID", "GetByIDs"}
  BY DEF CacheGet, EnterFlight, Load, Fill, MultiGet, Probe, Find, MultiSet, SetPlaceholder,
     Local, Getting, Gathering, Loading
<1>2. op[c] \notin Deletes /\ pc[c] # "idle"
  BY <1>1 DEF Deletes, Getting, Gathering, Loading
<1>3. pc'[c] # "commit"
  BY DEF TypeOK, CacheGet, EnterFlight, Load, Fill, MultiGet, Probe, Find, MultiSet,
     SetPlaceholder, Goto, Return
<1>4. err'[c] = "notFound" => op[c] = "GetByID"
  BY <1>1 DEF TypeOK, CacheGet, EnterFlight, Load, Fill, MultiGet, Probe, Find, MultiSet,
     SetPlaceholder, Raise, Request, Local, Getting, Gathering, Loading
<1>5. \A d \in Clients \ {c} : pc'[d] = pc[d] /\ err'[d] = err[d]
  BY DEF TypeOK, CacheGet, EnterFlight, Load, Fill, MultiGet, Probe, Find, MultiSet,
     SetPlaceholder, Goto, Return, Raise
<1>6. Scoped
  <2>1. CASE Scope
    BY <2>1, ScopeScoped
  <2>2. CASE EnterFlight(c) \/ Load(c) \/ Fill(c)
    BY <1>2, <2>2, UnchangedScoped DEF TypeOK, EnterFlight, Load, Fill, Goto
  <2>3. QED
    BY <2>1, <2>2 DEF CacheGet, MultiGet, Probe, Find, MultiSet, SetPlaceholder
<1>7. Request(c)' /\ Done(c)
  <2>1. CASE pc'[c] = "idle"
    BY <1>2, <1>4, <1>6, <2>1, Returns DEF Done
  <2>2. CASE pc'[c] # "idle"
    BY <1>2, <1>3, <1>4, <1>6, <2>2, GoesOn
  <2>3. QED
    BY <2>1, <2>2
<1>8. QED
  BY <1>5, <1>6, <1>7, OthersRequest

\* The end of a load, for the request that led it and those that joined.
LEMMA LandRequest ==
  ASSUME IInv, RequestInv, [Next]_vars, Work, NEW c \in Clients, Land(c)
  PROVE  \A d \in Clients : Request(d)' /\ Done(d)
<1> SUFFICES ASSUME NEW d \in Clients PROVE Request(d)' /\ Done(d)
  OBVIOUS
<1> TypeOK /\ Local(d) /\ Request(d)
  BY DEF IInv, RequestInv
<1>1. Scope /\ Scoped
  BY ScopeScoped DEF Land
<1>2. \/ pc'[d] = pc[d] /\ err'[d] = err[d]
      \/ pc[d] \in {"land", "wait"} /\ pc'[d] = "idle"
  BY DEF TypeOK, Land
<1>3. CASE pc[d] \in {"land", "wait"} /\ pc'[d] = "idle"
  <2>1. op[d] = "GetByID"
    BY <1>3 DEF Local, Getting, Loading
  <2>2. Done(d)
    BY <2>1 DEF Done, Deletes
  <2>3. QED
    BY <1>1, <1>3, <2>2, Returns
<1>4. QED
  BY <1>1, <1>2, <1>3, OthersRequest

\* The queries, which pass by the cache.
LEMMA QueryRequest ==
  ASSUME IInv, RequestInv, [Next]_vars, Work, NEW c \in Clients, Count(c) \/ Query(c)
  PROVE  \A d \in Clients : Request(d)' /\ Done(d)
<1> TypeOK /\ Local(c) /\ Request(c)
  BY DEF IInv, RequestInv
<1> USE DEF results
<1>1. Scoped /\ pc[c] \in {"count", "query"} /\ pc[c] # "idle"
  BY ScopeScoped DEF Count, Query
<1>2. op[c] \notin Deletes
  BY <1>1 DEF Request
<1>3. \A d \in Clients \ {c} : pc'[d] = pc[d] /\ err'[d] = err[d]
  BY DEF TypeOK, Count, Query, Goto, Return, Raise
<1>4. CASE Count(c)
  <2>1. pc'[c] \in {"query", "idle"}
    BY <1>4 DEF TypeOK, Count, Goto, Return
  <2>2. err'[c] = "notFound" => op[c] = "GetByID"
    BY <1>4 DEF TypeOK, Count, Raise, Request
  <2>3. ASSUME pc'[c] = "idle" PROVE Request(c)' /\ Done(c)
    <3>1. Done(c)
      BY <1>2, <2>2 DEF Done
    <3>2. QED
      BY <1>1, <2>3, <3>1, Returns
  <2>4. ASSUME pc'[c] = "query" PROVE Request(c)' /\ Done(c)
    <3>1. pc'[c] \notin {"idle", "commit"}
      BY <2>4
    <3>2. QED
      BY <1>1, <1>2, <2>2, <3>1, GoesOn
  <2>5. QED
    BY <1>1, <1>3, <2>1, <2>3, <2>4, OthersRequest
<1>5. CASE Query(c)
  <2>1. pc'[c] = "idle"
    BY <1>5 DEF TypeOK, Query, Goto, Return
  <2>2. ids[c] \subseteq Ids
    BY DEF TypeOK
  <2>3. err'[c] = "notFound" =>
          op[c] = "GetByID" \/ (op[c] = "GetByCondition" /\ \A i \in ids[c] : read'[c][i] = Absent)
    BY <1>5, <2>2 DEF TypeOK, Query, Raise, Request
  <2>4. Done(c)
    BY <1>2, <2>3 DEF Done
  <2>5. QED
    BY <1>1, <1>3, <2>1, <2>4, OthersRequest, Returns
<1>6. QED
  BY <1>4, <1>5

\* The writes: a deletion that goes on to invalidate has been applied.
LEMMA WriteRequest ==
  ASSUME IInv, RequestInv, [Next]_vars, Work, NEW c \in Clients,
         Write(c) \/ WriteInTx(c) \/ Invalidate(c) \/ Commit(c)
  PROVE  \A d \in Clients : Request(d)' /\ Done(d)
<1> TypeOK /\ Local(c) /\ Request(c)
  BY DEF IInv, RequestInv
<1> USE DEF results
<1>1. Scoped /\ pc[c] \in {"write", "invalidate"} /\ pc[c] # "idle" /\ op[c] \notin InTx
  BY ScopeScoped DEF Write, WriteInTx, Invalidate, Commit, Request
<1>2. \A d \in Clients \ {c} : pc'[d] = pc[d] /\ err'[d] = err[d]
  BY DEF TypeOK, Write, WriteInTx, Invalidate, Commit, Goto, Return, Raise
<1>3. op[c] \notin {"GetByID", "none"}
  BY <1>1 DEF Local, Getting, Loading, Request
<1>4. err[c] # "notFound"
  BY <1>3 DEF Request
<1>5. CASE Write(c)
  <2>1. pc'[c] \in {"invalidate", "idle"} /\ err'[c] # "notFound"
    BY <1>4, <1>5 DEF TypeOK, Write, Goto, Raise
  <2>2. op[c] \in Deletes /\ pc'[c] = "idle" => err'[c] = "failed"
    BY <1>5 DEF TypeOK, Write, Goto, Raise, Invalidates, Deletes, Creates
  <2>3. op[c] \in Deletes /\ pc'[c] = "invalidate" => \A i \in doomed[c] : db'[i] = Absent
    <3>1. op[c] \in Deletes /\ pc'[c] = "invalidate" => Apply(op[c], ids[c])
      BY <1>5 DEF TypeOK, Write, Goto, Updates, Deletes
    <3>2. QED
      BY <3>1 DEF TypeOK, Apply, Updates, Deletes, Creates, Request
  <2>4. ASSUME pc'[c] = "idle" PROVE Request(c)' /\ Done(c)
    <3>1. Done(c)
      BY <2>1, <2>2, <2>4 DEF Done
    <3>2. QED
      BY <1>1, <2>4, <3>1, Returns
  <2>5. ASSUME pc'[c] = "invalidate" PROVE Request(c)' /\ Done(c)
    <3>1. pc'[c] \notin {"idle", "commit"}
      BY <2>5
    <3>2. QED
      BY <1>1, <2>1, <2>3, <2>5, <3>1, GoesOn
  <2>6. QED
    BY <1>1, <1>2, <2>1, <2>4, <2>5, OthersRequest
<1>6. CASE Invalidate(c)
  <2>1. pc'[c] \in {"invalidate", "idle"} /\ err' = err /\ db' = db /\ pc[c] = "invalidate"
    BY <1>1, <1>6 DEF TypeOK, Invalidate, Goto, results, database
  <2>2. op[c] \in Deletes => \A i \in doomed[c] : db'[i] = Absent
    BY <2>1 DEF Request
  <2>3. ASSUME pc'[c] = "idle" PROVE Request(c)' /\ Done(c)
    <3>1. Done(c)
      BY <1>4, <2>1, <2>2 DEF Done
    <3>2. QED
      BY <1>1, <2>3, <3>1, Returns
  <2>4. ASSUME pc'[c] = "invalidate" PROVE Request(c)' /\ Done(c)
    <3>1. pc'[c] \notin {"idle", "commit"} /\ err'[c] # "notFound"
      BY <1>4, <2>1, <2>4
    <3>2. QED
      BY <1>1, <2>2, <2>4, <3>1, GoesOn
  <2>5. QED
    BY <1>1, <1>2, <2>1, <2>3, <2>4, OthersRequest
<1>7. QED
  BY <1>1, <1>5, <1>6 DEF WriteInTx, Commit

LEMMA WorkRequest ==
  ASSUME IInv, RequestInv, Work
  PROVE  RequestInv' /\ \A d \in Clients : Done(d)
<1> USE DEF database, cached, calls, results
<1>0. [Next]_vars /\ TypeOK
  BY ApiStepIsStep DEF ApiNext, IInv
<1>1. doomed' \in [Clients -> SUBSET Ids]
  BY DEF Work, RequestInv
<1>2. ASSUME NEW c \in Clients, Step(c) PROVE \A d \in Clients : Request(d)' /\ Done(d)
  BY <1>0, <1>2, LookupRequest, LandRequest, QueryRequest, WriteRequest DEF Step
<1>3. ASSUME UNCHANGED <<pc, op, ids, err>> PROVE \A d \in Clients : Request(d)' /\ Done(d)
  <2>1. Scoped
    BY <1>3, UnchangedScoped
  <2>2. QED
    BY <1>0, <1>3, <2>1, OthersRequest
<1>4. QED
  BY <1>1, <1>2, <1>3 DEF Work, Cancel, Expire, ExternalWrite, RequestInv

LEMMA ApiStepInv ==
  ASSUME UsersDaoAssumption, IInv, RequestInv, [ApiNext]_apiVars
  PROVE  IInv' /\ RequestInv'
<1>1. [Next]_vars /\ IInv'
  BY ApiStepIsStep, NextInv
<1>2. CASE Work
  BY <1>1, <1>2, WorkRequest
<1>3. ASSUME NEW c \in Clients, Handle(c) PROVE RequestInv'
  BY <1>1, <1>3, HandleAsks, RequestAsk
<1>4. CASE UNCHANGED apiVars
  <2>1. \A d \in Clients : Still(d)
    BY <1>4 DEF apiVars, vars, Still
  <2>2. QED
    BY <1>1, <1>4, <2>1, StillRequest DEF RequestInv, apiVars
<1>5. QED
  BY <1>1, <1>2, <1>3, <1>4 DEF ApiNext

LEMMA ApiInvariant == ApiSpec => [](IInv /\ RequestInv)
<1>1. ApiInit => IInv /\ RequestInv
  BY InitInv, RequestInit DEF ApiInit
<1>2. IInv /\ RequestInv /\ [ApiNext]_apiVars => (IInv /\ RequestInv)'
  BY ApiStepInv, UsersDaoAssumption
<1>3. QED
  BY <1>1, <1>2, PTL DEF ApiSpec

\* Every variable of the API keeps its type, those of the dao included.
THEOREM ApiTypeInvariant == ApiSpec => []ApiTypeOK
<1>1. IInv /\ RequestInv => ApiTypeOK
  BY DEF IInv, RequestInv, ApiTypeOK
<1>2. QED
  BY <1>1, ApiInvariant, PTL

LEMMA TrueReply ==
  ASSUME UsersDaoAssumption, IInv, RequestInv, [ApiNext]_apiVars,
         NEW c \in Clients, pc[c] # "idle", pc'[c] = "idle"
  PROVE  /\ Code(op[c], err'[c]) = "Success" =>
              /\ \A i \in doomed[c] : db'[i] = Absent
              /\ op[c] = "GetByID" => \A i \in ids[c] : read'[c][i] \in Versions
         /\ Code(op[c], err'[c]) = "NotFound" => \A i \in ids[c] : read'[c][i] = Absent
         /\ Code(op[c], err'[c]) = "InternalServerError" => err'[c] = "failed"
<1>1. [Next]_vars /\ IInv' /\ TypeOK' /\ Local(c) /\ Request(c)
  BY ApiStepIsStep, NextInv DEF IInv, RequestInv
<1>2. Done(c)
  <2>1. CASE Work
    BY <2>1, WorkRequest
  <2>2. ASSUME NEW d \in Clients, Handle(d) PROVE FALSE
    <3>1. PICK o \in Ops \ InTx, I \in SUBSET Ids : Invoke(d, o, I)
      BY <2>2, HandleAsks DEF Ask
    <3>2. FirstStep(o) # "idle"
      BY UsersDaoAssumption DEF FirstStep, Single, Many, Queries, Writes, Updates, Deletes, Creates
    <3>3. QED
      BY <3>1, <3>2 DEF Invoke, Goto, IInv, TypeOK
  <2>3. QED
    BY <2>1, <2>2 DEF ApiNext, apiVars, vars
<1>3. err'[c] # "failed" => Whole(c)
  BY <1>1, StepIsWhole
<1>4. err'[c] \in Errors
  BY <1>1 DEF TypeOK
<1>5. ASSUME op[c] = "GetByID", err'[c] # "failed"
      PROVE  /\ err'[c] = "nil" => \A i \in ids[c] : read'[c][i] \in Versions
             /\ err'[c] = "notFound" => \A i \in ids[c] : read'[c][i] = Absent
  <2>1. PICK i \in Ids : ids[c] = {i}
    BY <1>1, <1>5 DEF Local
  <2>2. /\ read'[c][i] # Unread
        /\ err'[c] = "notFound" <=> read'[c][i] = Absent
    BY <1>3, <1>5, <2>1 DEF Whole
  <2>3. read'[c][i] \in Rows \cup {Unread}
    BY <1>1 DEF TypeOK
  <2>4. QED
    BY <2>1, <2>2, <2>3 DEF Rows
<1>6. CASE err'[c] = "nil"
  <2>1. doomed[c] # {} => op[c] \in Deletes
    BY <1>1 DEF Request
  <2>2. QED
    BY <1>2, <1>5, <1>6, <2>1 DEF Done, Code
<1>7. CASE err'[c] = "failed"
  BY <1>7 DEF Code, ErrorCode
<1>8. CASE err'[c] = "notFound"
  BY <1>2, <1>5, <1>8 DEF Done, Code, ErrorCode
<1>9. QED
  BY <1>4, <1>6, <1>7, <1>8 DEF Errors

\* For any number of concurrent requests: a reply can be taken at its word.
THEOREM RepliesAreTrueHolds == ApiSpec => RepliesAreTrue
<1>1. IInv /\ RequestInv /\ [ApiNext]_apiVars =>
        [\A c \in Clients : pc[c] # "idle" /\ pc'[c] = "idle" =>
           LET code == Code(op[c], err'[c])
           IN  /\ code = "Success" =>
                    /\ \A i \in doomed[c] : db'[i] = Absent
                    /\ op[c] = "GetByID" => \A i \in ids[c] : read'[c][i] \in Versions
               /\ code = "NotFound" =>
                    \A i \in ids[c] : read'[c][i] = Absent
               /\ code = "InternalServerError" => err'[c] = "failed"]_apiVars
  BY TrueReply, UsersDaoAssumption
<1>2. QED
  BY <1>1, ApiInvariant, PTL DEF ApiSpec, RepliesAreTrue

============================================================================
