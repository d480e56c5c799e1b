------------------------------ MODULE UsersDao ------------------------------
(***************************************************************************)
(* The users table behind its cache: usersDao of src/internal/dao, with    *)
(* the usersCache adapter it reads and invalidates, and the singleflight   *)
(* group that lets one goroutine load a missing row for all that want it.  *)
(*                                                                         *)
(* Each API request calls one method in a goroutine of its own (Clients).  *)
(* Every round trip to the database or to the cache is an action, so a     *)
(* method is interrupted between any two of them.  The Rails application   *)
(* behind the proxy writes the same database without touching the cache.   *)
(***************************************************************************)
EXTENDS Integers, FiniteSets

CONSTANTS
  Clients,      \* goroutines calling the dao
  MaxId,        \* bound on the ids the table may hand out
  MaxWrites,    \* bound on the writes of a behaviour
  Ops,          \* the methods clients call
  DbFails,      \* whether the database may fail by itself
  CacheFails,   \* whether the cache may fail by itself
  Cancels,      \* whether a client may hang up, or run out of time
  RailsWrites,  \* whether the Rails application writes the table as well
  None,         \* no cache entry
  Placeholder,  \* the entry that says the row does not exist
  Free,         \* no flight under way
  Unread        \* nothing known of a row

Ids == 1..MaxId

\* A row is abstracted to its version; an absent row has version 0.
Absent == 0
Versions == Nat \ {0}
Rows == Versions \cup {Absent}

Single == {"GetByID", "UpdateByID", "DeleteByID", "UpdateByTx", "DeleteByTx"}
Many == {"GetByIDs", "DeleteByIDs"}
Queries == {"GetByColumns", "GetByCondition", "GetByLastID"}
Updates == {"UpdateByID", "UpdateByTx"}
Deletes == {"DeleteByID", "DeleteByIDs", "DeleteByTx"}
Creates == {"Create", "CreateByTx"}
InTx == {"UpdateByTx", "DeleteByTx", "CreateByTx"}
Writes == Updates \cup Deletes \cup Creates

ASSUME UsersDaoAssumption ==
  /\ MaxId \in Nat /\ MaxWrites \in Nat
  /\ Ops \subseteq Single \cup Many \cup Queries \cup Creates
  /\ {DbFails, CacheFails, Cancels, RailsWrites} \subseteq BOOLEAN
  /\ None \notin Versions \cup {Placeholder} /\ Placeholder \notin Versions
  /\ Free \notin Clients /\ Unread \notin Rows

VARIABLES
  db,       \* Ids -> the committed row
  top,      \* the highest id ever handed out
  writes,   \* writes begun so far
  cache,    \* Ids -> row, Placeholder or None
  flight,   \* Ids -> the client leading the singleflight call, or Free
  pc,       \* Clients -> the round trip that comes next
  op,       \* Clients -> the method running
  ids,      \* Clients -> the ids it was called with, or that its query selects
  gone,     \* the clients whose context is done
  todo,     \* Clients -> the ids a loop of it has left
  missed,   \* Clients -> realMissedIDs of GetByIDs
  read,     \* Clients -> the rows it returns, as far as it has them
  err,      \* Clients -> the error it returns, as far as it is known
  raced     \* history: the ids whose entry was left or put in place stale

vars == <<db, top, writes, cache, flight, pc, op, ids, gone, todo, missed, read, err, raced>>
database == <<db, top, writes>>
cached == <<cache, raced>>
results == <<read, err>>
calls == <<op, ids, gone>>

Loading == {"load", "fill", "land"}
Labels == {"idle", "cacheGet", "enter", "wait", "multiGet", "probe", "find", "multiSet",
           "placehold", "count", "query", "write", "invalidate", "commit"} \cup Loading
Errors == {"nil", "notFound", "failed"}

TypeOK ==
  /\ db \in [Ids -> Rows]
  /\ top \in 0..MaxId
  /\ writes \in 0..MaxWrites
  /\ cache \in [Ids -> Versions \cup {None, Placeholder}]
  /\ flight \in [Ids -> Clients \cup {Free}]
  /\ pc \in [Clients -> Labels]
  /\ op \in [Clients -> Ops \cup {"none"}]
  /\ ids \in [Clients -> SUBSET Ids]
  /\ gone \in SUBSET Clients
  /\ todo \in [Clients -> SUBSET Ids]
  /\ missed \in [Clients -> SUBSET Ids]
  /\ read \in [Clients -> [Ids -> Rows \cup {Unread}]]
  /\ err \in [Clients -> Errors]
  /\ raced \in SUBSET Ids

NoRows == [i \in Ids |-> Unread]

Init ==
  /\ top \in 0..MaxId
  /\ db = [i \in Ids |-> IF i <= top THEN 1 ELSE Absent]
  /\ writes = 0
  /\ cache = [i \in Ids |-> None]
  /\ flight = [i \in Ids |-> Free]
  /\ pc = [c \in Clients |-> "idle"]
  /\ op = [c \in Clients |-> "none"]
  /\ ids = [c \in Clients |-> {}]
  /\ gone = {}
  /\ todo = [c \in Clients |-> {}]
  /\ missed = [c \in Clients |-> {}]
  /\ read = [c \in Clients |-> NoRows]
  /\ err = [c \in Clients |-> "nil"]
  /\ raced = {}

-----------------------------------------------------------------------------
(***************************************************************************)
(* The cache: what an entry says of a row, and the three ways one changes  *)
(***************************************************************************)

\* A round trip fails by itself, or because the context it runs under is done.
DbMayFail(c) == DbFails \/ c \in gone
CacheMayFail(c) == CacheFails \/ c \in gone

\* Mutated form: the absence of a row is cached as if it were a row.
RowEntry(row) == row

Entry(row) == IF row = Absent THEN Placeholder ELSE row

RowOf(entry) == IF entry = Placeholder THEN Absent ELSE entry

Coherent(i) == cache[i] \in {None, Entry(db[i])}

\* Set, MultiSet and SetPlaceholder: entries for the ids in I, from the rows read.
\* An error is logged and ignored.
Put(c, I) ==
  \/ /\ cache' = [i \in Ids |-> IF i \in I THEN Entry(read[c][i]) ELSE cache[i]]
     /\ raced' = (raced \ I) \cup {i \in I : read[c][i] # db[i]}
  \/ CacheMayFail(c) /\ UNCHANGED cached

\* Del; its error is dropped as well.
Del(c, i) ==
  \/ /\ cache' = [cache EXCEPT ![i] = None]
     /\ raced' = raced \ {i}
  \/ /\ CacheMayFail(c)
     /\ raced' = IF Coherent(i) THEN raced ELSE raced \cup {i}
     /\ UNCHANGED cache

-----------------------------------------------------------------------------
(***************************************************************************)
(* Calls                                                                   *)
(***************************************************************************)
Goto(c, label) == pc' = [pc EXCEPT ![c] = label]
Return(c) == Goto(c, "idle")
Raise(c, e) == err' = [err EXCEPT ![c] = e]

\* What a call was made with, and its context, are gone once it has returned.
Scope ==
  /\ op' = [c \in Clients |-> IF pc'[c] = "idle" THEN "none" ELSE op[c]]
  /\ ids' = [c \in Clients |-> IF pc'[c] = "idle" THEN {} ELSE ids[c]]
  /\ gone' = {c \in gone : pc'[c] # "idle"}

FirstStep(o) ==
  CASE o = "GetByID" -> "cacheGet"
    [] o = "GetByIDs" -> "multiGet"
    [] o = "GetByColumns" -> "count"
    [] o \in Queries \ {"GetByColumns"} -> "query"
    [] o \in Writes -> "write"

\* The table is bounded: an id is left for every creation under way.
Room == top + Cardinality({c \in Clients : op[c] \in Creates}) < MaxId

\* A request calls a method; a method reads or changes rows that may not exist.
Invoke(c, o, I) ==
  /\ pc[c] = "idle"
  /\ o \in Single => Cardinality(I) = 1
  /\ o \in Many => I # {}
  /\ o \in Creates => I = {} /\ Room
  /\ o \in Writes => writes < MaxWrites
  /\ writes' = IF o \in Writes THEN writes + 1 ELSE writes
  /\ op' = [op EXCEPT ![c] = o]
  /\ ids' = [ids EXCEPT ![c] = I]
  /\ Goto(c, FirstStep(o))
  /\ read' = [read EXCEPT ![c] = NoRows]
  /\ Raise(c, "nil")
  /\ UNCHANGED <<db, top, cached, flight, gone, todo, missed>>

Call(c) == \E o \in Ops, I \in SUBSET Ids : Invoke(c, o, I)

\* The client hangs up or the time for the request is over.
Cancel(c) ==
  /\ Cancels /\ pc[c] # "idle" /\ c \notin gone
  /\ gone' = gone \cup {c}
  /\ UNCHANGED <<database, cached, flight, pc, op, ids, todo, missed, results>>

-----------------------------------------------------------------------------
(***************************************************************************)
(* GetByID                                                                 *)
(***************************************************************************)

\* A row or a placeholder in the cache is the answer, and so is any error other
\* than "not found".
CacheGet(c) ==
  /\ pc[c] = "cacheGet"
  /\ \E i \in ids[c] :
       \/ cache[i] = None /\ Goto(c, "enter") /\ UNCHANGED results
       \/ /\ cache[i] # None
          /\ read' = [read EXCEPT ![c][i] = RowOf(cache[i])]
          /\ Raise(c, IF cache[i] = Placeholder THEN "notFound" ELSE "nil")
          /\ Return(c)
       \/ CacheMayFail(c) /\ Raise(c, "failed") /\ Return(c) /\ UNCHANGED read
  /\ Scope
  /\ UNCHANGED <<database, cached, flight, todo, missed>>

\* Mutated form: every caller runs the load itself.
UnsharedEnterFlight(c) ==
  /\ pc[c] = "enter"
  /\ \E i \in ids[c] : flight' = [flight EXCEPT ![i] = c]
  /\ Goto(c, "load")
  /\ UNCHANGED <<database, cached, calls, todo, missed, results>>

\* singleflight.Do: the first caller for an id runs the load, a later one joins.
EnterFlight(c) ==
  /\ pc[c] = "enter"
  /\ \E i \in ids[c] :
       \/ /\ flight[i] = Free
          /\ flight' = [flight EXCEPT ![i] = c]
          /\ Goto(c, "load")
       \/ flight[i] # Free /\ Goto(c, "wait") /\ UNCHANGED flight
  /\ UNCHANGED <<database, cached, calls, todo, missed, results>>

\* The query runs under the context of the caller that leads.
Load(c) ==
  /\ pc[c] = "load"
  /\ \E i \in ids[c] :
       \/ /\ read' = [read EXCEPT ![c][i] = db[i]]
          /\ Raise(c, IF db[i] = Absent THEN "notFound" ELSE "nil")
          /\ Goto(c, "fill")
       \/ DbMayFail(c) /\ Raise(c, "failed") /\ Goto(c, "land") /\ UNCHANGED read
  /\ UNCHANGED <<database, cached, flight, calls, todo, missed>>

\* Mutated form: the placeholder is set before the outcome is looked at.
HastyFill(c) ==
  /\ pc[c] = "fill"
  /\ cache' = [i \in Ids |-> IF i \in ids[c] THEN Placeholder ELSE cache[i]]
  /\ Goto(c, "land")
  /\ UNCHANGED <<database, flight, calls, todo, missed, results, raced>>

\* The row that was read, or the placeholder when there was none.
Fill(c) ==
  /\ pc[c] = "fill"
  /\ Put(c, ids[c])
  /\ Goto(c, "land")
  /\ UNCHANGED <<database, flight, calls, todo, missed, results>>

\* Mutated form: the key is forgotten before the callers who joined are told.
SilentLand(c) ==
  /\ pc[c] = "land"
  /\ \E i \in ids[c] : flight' = [flight EXCEPT ![i] = Free]
  /\ Return(c)
  /\ Scope
  /\ UNCHANGED <<database, cached, todo, missed, results>>

\* Mutated form: who joined a load that failed is told that there is no row.
BlurredLand(c) ==
  /\ pc[c] = "land"
  /\ \E i \in ids[c] :
       LET Joined(d) == d # c /\ pc[d] = "wait" /\ i \in ids[d]
       IN  /\ flight' = [flight EXCEPT ![i] = Free]
           /\ pc' = [d \in Clients |-> IF d = c \/ Joined(d) THEN "idle" ELSE pc[d]]
           /\ read' = [d \in Clients |-> IF Joined(d) THEN read[c] ELSE read[d]]
           /\ err' = [d \in Clients |->
                        IF ~Joined(d) THEN err[d]
                        ELSE IF err[c] = "failed" THEN "notFound" ELSE err[c]]
  /\ Scope
  /\ UNCHANGED <<database, cached, todo, missed>>

\* The load is over, with a row or an error: singleflight hands its result to
\* everyone who joined and forgets the key, in one critical section.
Land(c) ==
  /\ pc[c] = "land"
  /\ \E i \in ids[c] :
       LET Told == {c} \cup {d \in Clients : pc[d] = "wait" /\ i \in ids[d]}
       IN  /\ flight' = [flight EXCEPT ![i] = Free]
           /\ pc' = [d \in Clients |-> IF d \in Told THEN "idle" ELSE pc[d]]
           /\ read' = [d \in Clients |-> IF d \in Told THEN read[c] ELSE read[d]]
           /\ err' = [d \in Clients |-> IF d \in Told THEN err[c] ELSE err[d]]
  /\ Scope
  /\ UNCHANGED <<database, cached, todo, missed>>

-----------------------------------------------------------------------------
(***************************************************************************)
(* GetByIDs                                                                *)
(***************************************************************************)

\* MultiGet returns rows only: a placeholder counts as missed.
MultiGet(c) ==
  /\ pc[c] = "multiGet"
  /\ LET none == {i \in ids[c] : cache[i] \in {None, Placeholder}}
     IN  \/ /\ todo' = [todo EXCEPT ![c] = none]
            /\ read' = [read EXCEPT ![c] = [i \in Ids |->
                           IF i \in ids[c] \ none THEN cache[i] ELSE Unread]]
            /\ Goto(c, IF none = {} THEN "idle" ELSE "probe")
            /\ UNCHANGED err
         \/ CacheMayFail(c) /\ Raise(c, "failed") /\ Return(c) /\ UNCHANGED <<todo, read>>
  /\ Scope
  /\ UNCHANGED <<database, cached, flight, missed>>

\* Mutated form: what the cache could not answer counts as a placeholder.
TrustingProbe(c) ==
  /\ pc[c] = "probe"
  /\ \E i \in todo[c] :
       /\ \/ (cache[i] = Placeholder \/ CacheMayFail(c)) /\ UNCHANGED missed
          \/ cache[i] # Placeholder /\ missed' = [missed EXCEPT ![c] = @ \cup {i}]
       /\ read' = [read EXCEPT ![c][i] = IF cache[i] = Placeholder THEN Absent ELSE @]
       /\ todo' = [todo EXCEPT ![c] = @ \ {i}]
       /\ Goto(c, IF todo[c] # {i} THEN "probe"
                  ELSE IF missed'[c] = {} THEN "idle" ELSE "find")
  /\ Scope
  /\ UNCHANGED <<database, cached, flight, err>>

\* One turn of the loop over missedIDs: ids with a placeholder are not looked up.
Probe(c) ==
  /\ pc[c] = "probe"
  /\ \E i \in todo[c] :
       /\ \/ /\ cache[i] = Placeholder
             /\ read' = [read EXCEPT ![c][i] = Absent]
             /\ UNCHANGED missed
          \/ /\ cache[i] # Placeholder \/ CacheMayFail(c)
             /\ missed' = [missed EXCEPT ![c] = @ \cup {i}]
             /\ UNCHANGED read
       /\ todo' = [todo EXCEPT ![c] = @ \ {i}]
       /\ Goto(c, IF todo[c] # {i} THEN "probe"
                  ELSE IF missed'[c] = {} THEN "idle" ELSE "find")
  /\ Scope
  /\ UNCHANGED <<database, cached, flight, err>>

Find(c) ==
  /\ pc[c] = "find"
  /\ \/ /\ read' = [read EXCEPT ![c] = [i \in Ids |-> IF i \in missed[c] THEN db[i] ELSE @[i]]]
        /\ Goto(c, "multiSet")
        /\ UNCHANGED <<missed, err>>
     \/ /\ DbMayFail(c) /\ Raise(c, "failed") /\ Return(c)
        /\ missed' = [missed EXCEPT ![c] = {}]
        /\ UNCHANGED read
  /\ Scope
  /\ UNCHANGED <<database, cached, flight, todo>>

Present(c) == {i \in missed[c] : read[c][i] # Absent}

\* Rows that were found are cached in one call; the method returns here when
\* every missed id was found.
MultiSet(c) ==
  /\ pc[c] = "multiSet"
  /\ IF Present(c) = {} THEN UNCHANGED cached ELSE Put(c, Present(c))
  /\ todo' = [todo EXCEPT ![c] = missed[c] \ Present(c)]
  /\ missed' = [missed EXCEPT ![c] = {}]
  /\ Goto(c, IF Present(c) = missed[c] THEN "idle" ELSE "placehold")
  /\ Scope
  /\ UNCHANGED <<database, flight, results>>

SetPlaceholder(c) ==
  /\ pc[c] = "placehold"
  /\ \E i \in todo[c] :
       /\ Put(c, {i})
       /\ todo' = [todo EXCEPT ![c] = @ \ {i}]
       /\ Goto(c, IF todo[c] = {i} THEN "idle" ELSE "placehold")
  /\ Scope
  /\ UNCHANGED <<database, flight, missed, results>>

-----------------------------------------------------------------------------
(***************************************************************************)
(* GetByColumns, GetByCondition and GetByLastID, which pass by the cache   *)
(***************************************************************************)
Selected(c) == {i \in ids[c] : db[i] # Absent}

\* GetByColumns counts before it looks, unless it is asked not to; it fails as well
\* when the terms of the query do not name columns.
Count(c) ==
  /\ pc[c] = "count"
  /\ \/ Goto(c, "query") /\ UNCHANGED err
     \/ Selected(c) = {} /\ Return(c) /\ UNCHANGED err
     \/ Raise(c, "failed") /\ Return(c)
  /\ Scope
  /\ UNCHANGED <<database, cached, flight, todo, missed, read>>

\* A page of the rows selected; GetByCondition asks for the first of them, and fails
\* when its terms do not name columns.
Query(c) ==
  /\ pc[c] = "query"
  /\ \/ \E page \in SUBSET Selected(c) :
          /\ op[c] = "GetByCondition" => Cardinality(page) = 1
          /\ read' = [read EXCEPT ![c] = [i \in Ids |-> IF i \in page THEN db[i] ELSE Unread]]
          /\ UNCHANGED err
     \/ /\ op[c] = "GetByCondition" /\ Selected(c) = {}
        /\ read' = [read EXCEPT ![c] = [i \in Ids |-> IF i \in ids[c] THEN Absent ELSE Unread]]
        /\ Raise(c, "notFound")
     \/ /\ DbMayFail(c) \/ op[c] = "GetByCondition"
        /\ Raise(c, "failed") /\ UNCHANGED read
  /\ Return(c)
  /\ Scope
  /\ UNCHANGED <<database, cached, flight, todo, missed>>

-----------------------------------------------------------------------------
(***************************************************************************)
(* Create, UpdateByID, DeleteByID, DeleteByIDs and the methods that run in *)
(* a transaction of the caller                                             *)
(***************************************************************************)

\* What a method does to the table: an update or a deletion of rows that do not
\* exist succeeds and changes nothing; a new row gets an id nobody had before.
Apply(o, I) ==
  \/ /\ o \in Updates
     /\ db' = [i \in Ids |-> IF i \in I /\ db[i] # Absent THEN db[i] + 1 ELSE db[i]]
     /\ UNCHANGED top
  \/ /\ o \in Deletes
     /\ db' = [i \in Ids |-> IF i \in I THEN Absent ELSE db[i]]
     /\ UNCHANGED top
  \/ /\ o \in Creates /\ top < MaxId
     /\ top' = top + 1
     /\ db' = [db EXCEPT ![top + 1] = 1]

\* Entries a write leaves behind stale with nobody to invalidate them.
LeftBehind ==
  {i \in Ids : db'[i] # db[i] /\ cache[i] \notin {None, Entry(db'[i])}}

\* Mutated form: the batch deletion leaves the cache alone.
BatchlessInvalidates(o) == o \in (Updates \cup Deletes) \ {"DeleteByIDs"}

Invalidates(o) == o \in Updates \cup Deletes

\* The ids to invalidate, if there are any.
Queue(c) == todo' = [todo EXCEPT ![c] = IF pc'[c] = "invalidate" THEN ids[c] ELSE {}]

\* An update invalidates whether it succeeded or not, a deletion only if it did;
\* a creation touches the database alone.  An error may hide that the statement
\* has taken effect: it is the answer that was lost.
Write(c) ==
  /\ pc[c] = "write" /\ op[c] \notin InTx
  /\ \/ /\ Apply(op[c], ids[c])
        /\ Goto(c, IF Invalidates(op[c]) THEN "invalidate" ELSE "idle")
        /\ raced' = IF op[c] \in Creates THEN raced \cup LeftBehind ELSE raced
        /\ UNCHANGED err
     \/ /\ DbMayFail(c)
        /\ Apply(op[c], ids[c]) \/ UNCHANGED <<db, top>>
        /\ Goto(c, IF op[c] \in Updates THEN "invalidate" ELSE "idle")
        /\ raced' = IF op[c] \in Updates THEN raced ELSE raced \cup LeftBehind
        /\ Raise(c, "failed")
  /\ Queue(c)
  /\ Scope
  /\ UNCHANGED <<writes, cache, flight, missed, read>>

\* In a transaction the statement changes nothing others see; the caller commits
\* after the method has returned, or rolls back.
WriteInTx(c) ==
  /\ pc[c] = "write" /\ op[c] \in InTx
  /\ \/ Goto(c, IF Invalidates(op[c]) THEN "invalidate" ELSE "commit") /\ UNCHANGED err
     \/ /\ DbMayFail(c) /\ Raise(c, "failed")
        /\ Goto(c, IF op[c] \in Updates THEN "invalidate" ELSE "idle")
  /\ Queue(c)
  /\ Scope
  /\ UNCHANGED <<database, cached, flight, missed, read>>

Invalidate(c) ==
  /\ pc[c] = "invalidate"
  /\ \E i \in todo[c] :
       /\ Del(c, i)
       /\ todo' = [todo EXCEPT ![c] = @ \ {i}]
       /\ Goto(c, IF todo[c] # {i} THEN "invalidate"
                  ELSE IF op[c] \in InTx THEN "commit" ELSE "idle")
  /\ Scope
  /\ UNCHANGED <<database, flight, missed, results>>

\* What failed is not committed.
Commit(c) ==
  /\ pc[c] = "commit"
  /\ \/ err[c] = "nil" /\ Apply(op[c], ids[c])
     \/ UNCHANGED <<db, top>>
  /\ raced' = raced \cup LeftBehind
  /\ Return(c)
  /\ Scope
  /\ UNCHANGED <<writes, cache, flight, todo, missed, results>>

-----------------------------------------------------------------------------
(***************************************************************************)
(* The environment                                                         *)
(***************************************************************************)

\* Every entry has a TTL: five minutes for a row, ten for a placeholder.
Expire(i) ==
  /\ cache[i] # None
  /\ cache' = [cache EXCEPT ![i] = None]
  /\ raced' = raced \ {i}
  /\ UNCHANGED <<database, flight, pc, calls, todo, missed, results>>

\* The Rails application writes its table.
ExternalWrite ==
  /\ RailsWrites /\ writes < MaxWrites /\ writes' = writes + 1
  /\ \E o \in {"UpdateByID", "DeleteByID", "Create"}, i \in Ids :
       (o = "Create" => Room) /\ Apply(o, {i})
  /\ raced' = raced \cup LeftBehind
  /\ UNCHANGED <<cache, flight, pc, calls, todo, missed, results>>

-----------------------------------------------------------------------------
Step(c) ==
  \/ CacheGet(c) \/ EnterFlight(c) \/ Load(c) \/ Fill(c) \/ Land(c)
  \/ MultiGet(c) \/ Probe(c) \/ Find(c) \/ MultiSet(c) \/ SetPlaceholder(c)
  \/ Count(c) \/ Query(c)
  \/ Write(c) \/ WriteInTx(c) \/ Invalidate(c) \/ Commit(c)

Next ==
  \/ \E c \in Clients : Call(c) \/ Cancel(c) \/ Step(c)
  \/ \E i \in Ids : Expire(i)
  \/ ExternalWrite

Spec == Init /\ [][Next]_vars

\* Round trips return (a context ends them at the latest) and entries expire.
FairSpec ==
  /\ Spec
  /\ \A c \in Clients : WF_vars(Step(c))
  /\ \A i \in Ids : WF_vars(Expire(i))

-----------------------------------------------------------------------------
(***************************************************************************)
(* What a caller sees of all this                                          *)
(***************************************************************************)

\* The rows of an id in circulation: the committed one, that of the cache entry, and
\* what requests under way have read.
Known(i) ==
  ({db[i]} \cup {RowOf(e) : e \in {cache[i]} \ {None}}
           \cup {read[c][i] : c \in {d \in Clients : pc[d] # "idle"}}) \ {Unread}

\* A failure says nothing of the rows.
Told(c) == IF pc[c] = "idle" /\ err[c] # "failed" THEN read[c] ELSE NoRows

Table == INSTANCE StaleTable WITH
  known <- [i \in Ids |-> Known(i)],
  told <- [c \in Clients |-> Told(c)]

-----------------------------------------------------------------------------
(***************************************************************************)
(* Properties                                                              *)
(***************************************************************************)

\* However many requests miss the same id at once, one of them at a time loads it
\* through GetByID: "for the same id, prevent high concurrent simultaneous access
\* to database".
SingleLoadPerId ==
  \A c, d \in Clients :
    pc[c] \in Loading /\ pc[d] \in Loading /\ ids[c] \cap ids[d] # {} => c = d

\* Nobody is left waiting for a load that nobody runs: the flight a request has
\* joined is led by another one that is still on its way to land.
WaitersAreServed ==
  \A c \in Clients : pc[c] = "wait" =>
    \A i \in ids[c] : flight[i] # Free /\ flight[i] # c
                        /\ pc[flight[i]] \in Loading /\ ids[flight[i]] = {i}

\* Every write path of the dao mends the cache: an entry that contradicts the
\* database is about to be deleted by the request that changed the row, or it is
\* one the cache-aside scheme leaves behind: filled from a row read before the
\* write, a deletion that failed (or seemed to), a row created over its
\* placeholder, a commit after the deletion, or a write of the Rails application.
StaleIsExplained ==
  \A i \in Ids : ~Coherent(i) =>
    \/ i \in raced
    \/ \E c \in Clients : pc[c] = "invalidate" /\ i \in todo[c]

\* Readers have a stale table before them: whatever is loaded, shared, cached and
\* invalidated at once, a method returns rows the table has held, never one of
\* another id or an absence that never was; and a row that has left the table, the
\* cache and every request under way is not seen again until it is written again.
StaleTableSpec == Table!Spec

\* Old rows do not stay in circulation: once the writes stop, neither the cache nor
\* any request holds another row than the database, for good, whatever raced,
\* failed or bypassed the cache before.
EventuallyForgotten == <>[](\A i \in Ids : Known(i) = {db[i]})

\* A method that reports no failure has an answer for every id it was asked for,
\* from the cache, a placeholder or the database, and says "not found" exactly when
\* that answer is an absence: also a request that has joined another one's load.
AnswersAreWhole ==
  [][\A c \in Clients : pc'[c] = "idle" /\ pc[c] # "idle" /\ err'[c] # "failed" =>
       /\ op[c] \in {"GetByID", "GetByIDs"} => \A i \in ids[c] : read'[c][i] # Unread
       /\ op[c] = "GetByID" =>
            (err'[c] = "notFound" <=> \E i \in ids[c] : read'[c][i] = Absent)]_vars

\* Every call returns, also the ones that wait for another request's load when
\* that load fails.
CallsReturn == \A c \in Clients : pc[c] # "idle" ~> pc[c] = "idle"

\* What GetByIDs assumes of a placeholder when it skips the database: that the id
\* does not exist there.
PlaceholderMeansAbsent == \A i \in Ids : cache[i] = Placeholder => db[i] = Absent

=============================================================================
