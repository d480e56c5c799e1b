-------------------------- MODULE ProxyCacheProofs --------------------------
(***************************************************************************)
(* Theorems about ProxyCache, for any number of requests and responses and *)
(* any limits.                                                             *)
(***************************************************************************)
EXTENDS ProxyCache, SequenceTheorems, TLAPS

USE DEF Storing

LEMMA KeyInKeys ==
  \A c \in Calls : \A ns \in SUBSET HeaderNames : CacheKey(c, ns) \in Keys
BY DEF Keys

\* A cache lookup leaves either a stored entry or nothing in found.
LEMMA LookupType ==
  ASSUME TypeOK, NEW t \in Threads, NEW k \in Keys, Hit(t, k) \/ Miss(t)
  PROVE  /\ found' \in [Threads -> Entries \cup {NoEntry}]
         /\ pc' \in [Threads -> Ended \cup Working]
<1>1. store[k] \in Entries \cup {NoEntry}
  BY DEF TypeOK
<1>2. QED
  BY <1>1 DEF TypeOK, Hit, Miss, Goto, Ended, Working, Looking

LEMMA StashWriteType ==
  ASSUME NEW s \in [buf : Seq(Nat), over : BOOLEAN], NEW n \in Nat
  PROVE  StashWrite(s, n) \in [buf : Seq(Nat), over : BOOLEAN]
<1> DEFINE Rec == [buf : Seq(Nat), over : BOOLEAN]
<1>1. Append(s.buf, n) \in Seq(Nat)
  OBVIOUS
<1>2. [s EXCEPT !.over = TRUE] \in Rec /\ [s EXCEPT !.buf = Append(s.buf, n)] \in Rec
  BY <1>1
<1>3. QED
  BY <1>2 DEF StashWrite

LEMMA LifetimeType == ASSUME NEW r \in Responses PROVE Lifetime(r) \in Int
BY ProxyCacheAssumption DEF Lifetime

\* MemoryCache.Set: the clock goes on after CacheStatus and after Set have read it, and
\* Set goes on only with time left.
Clocked(t) ==
  /\ pc[t] \in Storing => finished[t] <= now
  /\ pc[t] = "set" => finished[t] <= checked[t] /\ checked[t] <= now /\ Ttl(t) > 0

ClockInv == \A t \in Threads : Clocked(t)

LEMMA NewEntryClock ==
  ASSUME NEW t \in Threads, TypeOK, Clocked(t), origin[t] \in Responses, pc[t] = "set"
  PROVE  LET e == NewEntry(t)
         IN  /\ e.until \in Nat /\ e.late \in 0..(now - finished[t])
             /\ e.until = e.done + Lifetime(e.resp) + e.late
<1>1. now \in Nat /\ finished[t] \in Nat /\ checked[t] \in Nat
  BY ProxyCacheAssumption DEF TypeOK
<1>2. Lifetime(origin[t]) \in Int
  BY LifetimeType
<1> DEFINE ttl == finished[t] + Lifetime(origin[t]) - checked[t]
<1>3. ttl \in Int /\ ttl > 0 /\ Ttl(t) = ttl
  BY <1>1, <1>2 DEF Clocked, Ttl, ExpiresAt
<1>4. NewEntry(t).until = now + ttl
  BY <1>3 DEF NewEntry
<1>5. /\ NewEntry(t).late = now - checked[t] /\ NewEntry(t).done = finished[t]
      /\ NewEntry(t).resp = origin[t]
  BY DEF NewEntry
<1>6. finished[t] <= checked[t] /\ checked[t] <= now
  BY DEF Clocked
<1>7. now - checked[t] \in 0..(now - finished[t])
  BY <1>1, <1>6
<1>8. now + ttl \in Nat
  BY <1>1, <1>3
<1>9. now + ttl = finished[t] + Lifetime(origin[t]) + (now - checked[t])
  BY <1>1, <1>2
<1>10. QED
  BY <1>4, <1>5, <1>7, <1>8, <1>9

LEMMA NewEntryType ==
  ASSUME NEW t \in Threads, TypeOK, Clocked(t), origin[t] \in Responses, pc[t] = "set"
  PROVE  NewEntry(t) \in Entries
<1>1. /\ call[t] \in Calls /\ names[t] \subseteq HeaderNames
      /\ stash[t].buf \in Seq(Nat) /\ finished[t] \in Nat /\ now \in Nat
      /\ checked[t] \in Nat
  BY ProxyCacheAssumption DEF TypeOK
<1>2. VariantHeader(call[t], names[t]) \in [HeaderNames -> HeaderValues \cup {<<>>}]
  BY <1>1, ProxyCacheAssumption DEF VariantHeader
<1>3. NewEntry(t).until \in Nat /\ NewEntry(t).late \in Nat
  BY <1>1, NewEntryClock
<1>4. QED
  BY <1>1, <1>2, <1>3 DEF NewEntry, Entries

-----------------------------------------------------------------------------
(***************************************************************************)
(* Type correctness.  That a stored entry holds a response of the          *)
(* application needs CacheStatus: the error page is never stored.          *)
(***************************************************************************)

StoringInv ==
  \A t \in Threads : pc[t] \in Storing =>
    CacheStatus(origin[t], stash[t].over) /\ names[t] = origin[t].vary

FoundInv ==
  \A t \in Threads : pc[t] \in {"learn", "serve", "hit", "notModified"} =>
    found[t] \in Entries

Sorted == TypeOK /\ StoringInv /\ FoundInv
TypeInv == TypeOK /\ StoringInv /\ FoundInv /\ ClockInv

\* What a step of thread t leaves alone of the other threads.
Others(t) ==
  \A u \in Threads \ {t} :
    /\ pc'[u] = pc[u] /\ found'[u] = found[u] /\ names'[u] = names[u]
    /\ origin'[u] = origin[u] /\ stash'[u] = stash[u]

\* A step of one thread keeps both parts if it keeps them for that thread.
LEMMA OneThread ==
  ASSUME StoringInv, FoundInv, NEW t \in Threads, Others(t),
         pc'[t] \in Storing => /\ CacheStatus(origin'[t], stash'[t].over)
                             /\ names'[t] = origin'[t].vary,
         pc'[t] \in {"learn", "serve", "hit", "notModified"} => found'[t] \in Entries
  PROVE  StoringInv' /\ FoundInv'
BY DEF StoringInv, FoundInv, Others

LEMMA EmptyStashType == EmptyStash \in [buf : Seq(Nat), over : BOOLEAN]
<1>1. <<>> \in Seq(Nat)
  OBVIOUS
<1>2. QED
  BY <1>1 DEF EmptyStash

LEMMA BadGatewayBody == BadGateway.body = <<>>
BY DEF BadGateway

LEMMA BadGatewayNotCacheable == \A b \in BOOLEAN : ~CacheStatus(BadGateway, b)
BY DEF CacheStatus, BadGateway

LEMMA TypeInvInit == Init => TypeInv
BY ProxyCacheAssumption
   DEF Init, TypeInv, TypeOK, StoringInv, FoundInv, ClockInv, Clocked, Ended, EmptyStash

LEMMA SortedNext == TypeInv /\ [Next]_vars => Sorted'
<1> SUFFICES ASSUME TypeInv, [Next]_vars PROVE Sorted'
  OBVIOUS
<1> USE DEF shared, lookup, stream
<1>1. ASSUME NEW t \in Threads, Arrive(t) PROVE Sorted'
  <2>1. TypeOK'
    BY <1>1, ProxyCacheAssumption, EmptyStashType
       DEF Sorted, TypeInv, TypeOK, Arrive, Goto, Ended, Working, Looking
  <2>2. Others(t) /\ pc'[t] = "load"
    BY <1>1 DEF Sorted, TypeInv, TypeOK, Others, Arrive, Goto
  <2>3. QED
    BY <2>1, <2>2, OneThread DEF Sorted, TypeInv
<1>2. ASSUME NEW t \in Threads, LoadVariantHeaders(t) PROVE Sorted'
  <2>1. BaseKey(call[t]) \in Keys
    BY KeyInKeys DEF Sorted, TypeInv, TypeOK, BaseKey
  <2>2. QED
    BY <1>2, <2>1 DEF Sorted, TypeInv, TypeOK, StoringInv, FoundInv, LoadVariantHeaders, Goto, Ended,
       Working, Looking
<1>3. ASSUME NEW t \in Threads, Get(t) PROVE Sorted'
  <2>1. CacheKey(call[t], names[t]) \in Keys
    BY KeyInKeys DEF Sorted, TypeInv, TypeOK
  <2>2. /\ found' \in [Threads -> Entries \cup {NoEntry}]
        /\ pc' \in [Threads -> Ended \cup Working]
    <3>1. CASE Goto(t, "getBase") /\ UNCHANGED found
      BY <3>1 DEF Sorted, TypeInv, TypeOK, Goto, Ended, Working, Looking
    <3>2. CASE Hit(t, CacheKey(call[t], names[t])) \/ Miss(t)
      BY <2>1, <3>2, LookupType DEF Sorted, TypeInv
    <3>3. QED
      BY <1>3, <3>1, <3>2 DEF Get
  <2>3. Others(t)
    BY <1>3 DEF Sorted, TypeInv, TypeOK, Others, Get, Hit, Miss, Goto
  <2>4. pc'[t] \in {"learn", "serve", "getBase", "forward"}
    BY <1>3 DEF Sorted, TypeInv, TypeOK, Get, Hit, Miss, Goto
  <2>5. pc'[t] \in {"learn", "serve"} => found'[t] \in Entries
    BY <1>3, <2>1 DEF Sorted, TypeInv, TypeOK, Get, Hit, Miss, Goto, Live
  <2>6. QED
    BY <1>3, <2>2, <2>3, <2>4, <2>5, OneThread DEF Sorted, TypeInv, TypeOK, Get
<1>4. ASSUME NEW t \in Threads, GetBase(t) PROVE Sorted'
  <2>1. BaseKey(call[t]) \in Keys
    BY KeyInKeys DEF Sorted, TypeInv, TypeOK, BaseKey
  <2>2. /\ found' \in [Threads -> Entries \cup {NoEntry}]
        /\ pc' \in [Threads -> Ended \cup Working]
    BY <1>4, <2>1, LookupType DEF GetBase, TypeInv
  <2>3. Others(t)
    BY <1>4 DEF Sorted, TypeInv, TypeOK, Others, GetBase, Hit, Miss, Goto
  <2>4. pc'[t] \in {"learn", "serve", "forward"}
    BY <1>4 DEF Sorted, TypeInv, TypeOK, GetBase, Hit, Miss, Goto
  <2>5. pc'[t] \in {"learn", "serve"} => found'[t] \in Entries
    BY <1>4, <2>1 DEF Sorted, TypeInv, TypeOK, GetBase, Hit, Miss, Goto, Live
  <2>6. QED
    BY <1>4, <2>2, <2>3, <2>4, <2>5, OneThread DEF Sorted, TypeInv, TypeOK, GetBase
<1>5. ASSUME NEW t \in Threads, Learn(t) PROVE Sorted'
  <2> DEFINE ns == found[t].resp.vary
  <2>1. ns \in SUBSET HeaderNames
    BY <1>5, ProxyCacheAssumption DEF Sorted, TypeInv, TypeOK, FoundInv, Entries, Learn
  <2>2. BaseKey(call[t]) \in Keys
    BY KeyInKeys DEF Sorted, TypeInv, TypeOK, BaseKey
  <2>3. varyIndex' \in [Keys -> SUBSET HeaderNames]
    BY <1>5, <2>1, <2>2 DEF Sorted, TypeInv, TypeOK, Learn, Remember
  <2>4. pc'[t] \in {"serve", "load"} /\ pc' \in [Threads -> Ended \cup Working]
    BY <1>5 DEF Sorted, TypeInv, TypeOK, Learn, LookAgain, Goto, Working, Looking
  <2>5. round' \in [Threads -> 1..2]
    <3>1. round' = round \/ round' = [round EXCEPT ![t] = 2]
      BY <1>5 DEF Learn, LookAgain
    <3>2. round \in [Threads -> 1..2] /\ 2 \in 1..2
      BY DEF Sorted, TypeInv, TypeOK
    <3>3. QED
      BY <3>1, <3>2
  <2>6. names' \in [Threads -> SUBSET HeaderNames]
    BY <1>5, <2>1 DEF Sorted, TypeInv, TypeOK, Learn
  <2>7. TypeOK'
    BY <1>5, <2>3, <2>4, <2>5, <2>6 DEF Sorted, TypeInv, TypeOK, Learn
  <2>8. Others(t)
    BY <1>5 DEF Sorted, TypeInv, TypeOK, Others, Learn, LookAgain, Goto
  <2>9. found'[t] \in Entries
    BY <1>5 DEF Sorted, TypeInv, FoundInv, Learn
  <2>10. QED
    BY <2>4, <2>7, <2>8, <2>9, OneThread DEF Sorted, TypeInv
<1>6. ASSUME NEW t \in Threads, Serve(t) PROVE Sorted'
  BY <1>6 DEF Sorted, TypeInv, TypeOK, StoringInv, FoundInv, Serve, Goto, Ended, Working, Looking
<1>7. ASSUME NEW t \in Threads, Bypass(t) PROVE Sorted'
  BY <1>7 DEF Sorted, TypeInv, TypeOK, StoringInv, FoundInv, Bypass, Goto, Ended, Working, Looking
<1>8. ASSUME NEW t \in Threads, OriginHeaders(t) PROVE Sorted'
  <2>1. Origin(call[t]) \subseteq Responses
    BY ProxyCacheAssumption DEF Sorted, TypeInv, TypeOK
  <2>2. QED
    BY <1>8, <2>1 DEF Sorted, TypeInv, TypeOK, StoringInv, FoundInv, OriginHeaders, Goto, Ended, Working,
       Looking
<1>9. ASSUME NEW t \in Threads, Chunk(t) PROVE Sorted'
  <2>1. origin[t].body \in Seq(Nat)
    <3>1. \A r \in Responses : r.body \in Seq(Nat)
      BY ProxyCacheAssumption
    <3>2. BadGateway.body \in Seq(Nat)
      BY BadGatewayBody
    <3>3. QED
      BY <3>1, <3>2 DEF Sorted, TypeInv, TypeOK
  <2>2. origin[t].body[sent[t] + 1] \in Nat
    BY <1>9, <2>1 DEF Sorted, TypeInv, TypeOK, Chunk
  <2>3. stash' \in [Threads -> [buf : Seq(Nat), over : BOOLEAN]]
    BY <1>9, <2>2, StashWriteType DEF Sorted, TypeInv, TypeOK, Chunk
  <2>4. QED
    BY <1>9, <2>3 DEF Sorted, TypeInv, TypeOK, StoringInv, FoundInv, Chunk
<1>10. ASSUME NEW t \in Threads, Abort(t) PROVE Sorted'
  BY <1>10 DEF Sorted, TypeInv, TypeOK, StoringInv, FoundInv, Abort, Goto, Ended, Working, Looking
<1>11. ASSUME NEW t \in Threads, Finish(t) PROVE Sorted'
  <2>1. BaseKey(call[t]) \in Keys
    BY KeyInKeys DEF Sorted, TypeInv, TypeOK, BaseKey
  <2>2. CASE CacheStatus(origin[t], stash[t].over)
    <3>1. origin[t] \in Responses
      BY <2>2, BadGatewayNotCacheable DEF Sorted, TypeInv, TypeOK
    <3>2. origin[t].vary \in SUBSET HeaderNames
      BY <3>1, ProxyCacheAssumption
    <3>3. TypeOK'
      BY <1>11, <2>1, <2>2, <3>2 DEF Sorted, TypeInv, TypeOK, Finish, Remember, Goto, Ended,
         Working, Looking
    <3>4. StoringInv' /\ FoundInv'
      BY <1>11, <2>2 DEF Sorted, TypeInv, TypeOK, StoringInv, FoundInv, Finish, Goto
    <3>5. QED
      BY <3>3, <3>4 DEF Sorted, TypeInv
  <2>3. CASE ~CacheStatus(origin[t], stash[t].over)
    BY <1>11, <2>3 DEF Sorted, TypeInv, TypeOK, StoringInv, FoundInv, Finish, Goto, Ended, Working, Looking
  <2>4. QED
    BY <2>2, <2>3
<1>12. ASSUME NEW t \in Threads, Admit(t) PROVE Sorted'
  <2>1. pc'[t] \in {"set", "miss"} /\ pc' = [pc EXCEPT ![t] = pc'[t]]
    BY <1>12 DEF TypeInv, TypeOK, Admit, Goto
  <2>2. TypeOK'
    BY <1>12, <2>1 DEF TypeInv, TypeOK, Admit, Ended, Working
  <2>3. StoringInv' /\ FoundInv'
    BY <1>12, <2>1 DEF TypeInv, TypeOK, StoringInv, FoundInv, Admit
  <2>4. QED
    BY <2>2, <2>3 DEF Sorted
<1>13. ASSUME NEW t \in Threads, StoreEntry(t) PROVE Sorted'
  <2>1. StoreKey(t) \in Keys
    BY KeyInKeys DEF TypeInv, TypeOK, StoreKey
  <2>2. origin[t] \in Responses /\ pc[t] = "set" /\ Clocked(t)
    BY <1>13, BadGatewayNotCacheable DEF TypeInv, TypeOK, StoringInv, ClockInv, StoreEntry
  <2>3. NewEntry(t) \in Entries
    BY <2>2, NewEntryType DEF TypeInv
  <2>4. store' \in [Keys -> Entries \cup {NoEntry}]
    BY <1>13, <2>1, <2>3 DEF TypeInv, TypeOK, StoreEntry
  <2>5. QED
    BY <1>13, <2>4 DEF Sorted, TypeInv, TypeOK, StoringInv, FoundInv, StoreEntry, Goto, Ended,
       Working, Looking
<1>14. ASSUME NEW k \in Keys, Evict(k) PROVE Sorted'
  BY <1>14 DEF Sorted, TypeInv, TypeOK, StoringInv, FoundInv, Evict
<1>15. ASSUME Tick PROVE Sorted'
  BY <1>15, ProxyCacheAssumption DEF Sorted, TypeInv, TypeOK, StoringInv, FoundInv, Tick
<1>16. CASE UNCHANGED vars
  BY <1>16 DEF Sorted, TypeInv, TypeOK, StoringInv, FoundInv, vars
<1>17. QED
  BY <1>1, <1>2, <1>3, <1>4, <1>5, <1>6, <1>7, <1>8, <1>9, <1>10, <1>11, <1>12,
     <1>13, <1>14, <1>15, <1>16 DEF Next, LookupStep, StreamStep

\* The clock only moves forward, and Set reads it once more before ristretto does.
LEMMA ClockStep == TypeInv /\ [Next]_vars => ClockInv'
<1> SUFFICES ASSUME TypeInv, [Next]_vars, NEW t \in Threads PROVE Clocked(t)'
  BY DEF ClockInv
<1> USE DEF shared, lookup, stream
<1>1. now \in Int /\ now' \in Int /\ now <= now' /\ Clocked(t)
  <2>1. now \in Int /\ Clocked(t)
    BY ProxyCacheAssumption DEF TypeInv, TypeOK, ClockInv
  <2>2. now' = now \/ now' = now + 1
    BY DEF Next, LookupStep, StreamStep, Arrive, LoadVariantHeaders, Get, GetBase, Learn, Serve,
       Bypass, OriginHeaders, Chunk, Abort, Finish, Admit, StoreEntry, Evict, Tick, vars
  <2>3. QED
    BY <2>1, <2>2
<1>2. finished[t] \in Int /\ checked[t] \in Int
  BY ProxyCacheAssumption DEF TypeInv, TypeOK
<1>3. ASSUME pc'[t] = pc[t], finished'[t] = finished[t], checked'[t] = checked[t],
             pc[t] \in Storing => origin'[t] = origin[t]
      PROVE  Clocked(t)'
  BY <1>1, <1>2, <1>3 DEF Clocked, Ttl, ExpiresAt
<1>4. CASE pc'[t] \notin Storing
  BY <1>4 DEF Clocked
<1>5. CASE Finish(t) /\ pc'[t] = "store"
  <2>1. finished'[t] = now /\ now' = now
    BY <1>5 DEF TypeInv, TypeOK, Finish, Goto
  <2>2. QED
    BY <1>1, <1>5, <2>1 DEF Clocked
<1>6. CASE Admit(t) /\ pc'[t] = "set"
  <2>1. /\ Admissible(t) /\ checked'[t] = now /\ finished'[t] = finished[t]
        /\ now' = now /\ origin'[t] = origin[t] /\ pc[t] = "store"
    BY <1>6 DEF TypeInv, TypeOK, Admit, Goto
  <2>2. origin[t] \in Responses
    BY <2>1, BadGatewayNotCacheable DEF TypeInv, TypeOK, StoringInv
  <2>3. Lifetime(origin[t]) \in Int
    BY <2>2, LifetimeType
  <2>4. Ttl(t)' = (finished[t] + Lifetime(origin[t])) - now
    BY <2>1 DEF Ttl, ExpiresAt
  <2>5. finished[t] + Lifetime(origin[t]) > now
    BY <2>1 DEF Admissible, ExpiresAt
  <2>6. finished[t] <= now
    BY <1>1, <2>1 DEF Clocked
  <2>7. QED
    BY <1>1, <1>2, <1>6, <2>1, <2>3, <2>4, <2>5, <2>6 DEF Clocked
<1>7. ASSUME NEW u \in Threads, Arrive(u) \/ LookupStep(u) \/ StreamStep(u)
      PROVE  Clocked(t)'
  <2>1. CASE u # t
    <3>1. /\ pc'[t] = pc[t] /\ finished'[t] = finished[t] /\ checked'[t] = checked[t]
          /\ origin'[t] = origin[t]
      BY <1>7, <2>1 DEF TypeInv, TypeOK, LookupStep, StreamStep, Arrive, LoadVariantHeaders, Get,
         GetBase, Hit, Miss, Learn, LookAgain, Serve, Bypass, OriginHeaders, Chunk, Abort, Finish,
         Admit, StoreEntry, Goto
    <3>2. QED
      BY <1>3, <3>1
  <2>2. CASE u = t
    <3>1. CASE Finish(t)
      BY <1>4, <1>5, <3>1 DEF TypeInv, TypeOK, Finish, Goto
    <3>2. CASE Admit(t)
      BY <1>4, <1>6, <3>2 DEF TypeInv, TypeOK, Admit, Goto
    <3>3. CASE Arrive(t) \/ LookupStep(t)
      BY <1>4, <3>3 DEF TypeInv, TypeOK, LookupStep, Arrive, LoadVariantHeaders, Get, GetBase,
         Hit, Miss, Learn, LookAgain, Serve, Goto
    <3>4. CASE Bypass(t) \/ OriginHeaders(t) \/ Chunk(t) \/ Abort(t) \/ StoreEntry(t)
      BY <1>4, <3>4 DEF TypeInv, TypeOK, Bypass, OriginHeaders, Chunk, Abort, StoreEntry, Goto
    <3>5. QED
      BY <1>7, <2>2, <3>1, <3>2, <3>3, <3>4 DEF StreamStep
  <2>3. QED
    BY <2>1, <2>2
<1>8. CASE UNCHANGED <<pc, finished, checked, origin>>
  BY <1>3, <1>8
<1>9. QED
  BY <1>7, <1>8 DEF Next, Evict, Tick, vars

LEMMA TypeInvNext == TypeInv /\ [Next]_vars => TypeInv'
BY SortedNext, ClockStep DEF Sorted, TypeInv

\* Every variable keeps its type, and what is about to be stored was judged
\* cacheable; nothing is stored with no time left, which would keep it for ever.
THEOREM TypeInvariant == Spec => [](TypeOK /\ StoringInv /\ FoundInv /\ ClockInv)
<1>1. TypeInv /\ [Next]_vars => TypeInv'
  BY TypeInvNext
<1>2. QED
  BY TypeInvInit, <1>1, PTL DEF Spec, TypeInv

-----------------------------------------------------------------------------
(***************************************************************************)
(* Clients get responses for their own variant.  HitMatchesVariant is not  *)
(* inductive: that the second lookup may be served unchecked rests on what *)
(* is stored, KeyedInv, and on the key telling variants apart.             *)
(***************************************************************************)

KeyedInv ==
  \A k \in Keys : store[k] # NoEntry =>
    k = CacheKey(store[k].call, store[k].resp.vary)

Replaying == {"learn", "serve", "hit", "notModified"}

MatchInv ==
  \A t \in Threads : pc[t] \in Replaying =>
    SameVariant(call[t], found[t].call, found[t].resp.vary)

LEMMA KeyedStep == TypeInv /\ KeyedInv /\ [Next]_vars => KeyedInv'
<1> SUFFICES ASSUME TypeInv, KeyedInv, [Next]_vars PROVE KeyedInv'
  OBVIOUS
<1>1. CASE UNCHANGED store
  BY <1>1 DEF KeyedInv
<1>2. ASSUME NEW t \in Threads, StoreEntry(t) PROVE KeyedInv'
  <2>1. NewEntry(t).call = call[t] /\ NewEntry(t).resp = origin[t]
    BY DEF NewEntry
  <2>2. StoreKey(t) = CacheKey(call[t], origin[t].vary)
    BY <1>2 DEF TypeInv, StoringInv, StoreKey, StoreEntry
  <2>3. CASE store' = [store EXCEPT ![StoreKey(t)] = NewEntry(t)]
    BY <2>1, <2>2, <2>3 DEF TypeInv, TypeOK, KeyedInv
  <2>4. QED
    BY <1>1, <1>2, <2>3 DEF StoreEntry
<1>3. ASSUME NEW k \in Keys, Evict(k) PROVE KeyedInv'
  BY <1>3 DEF TypeInv, TypeOK, KeyedInv, Evict
<1>4. QED
  BY <1>1, <1>2, <1>3
     DEF Next, LookupStep, StreamStep, Arrive, LoadVariantHeaders, Get, GetBase, Learn,
         Serve, Bypass, OriginHeaders, Chunk, Abort, Finish, Admit, Tick, vars, shared

\* Whatever a lookup finds was stored for the same variant.
LEMMA LookupMatches ==
  ASSUME TypeInv, KeyedInv, KeyInjective, ProxyCacheAssumption,
         NEW t \in Threads, NEW ns \in SUBSET HeaderNames,
         NEW k, k = CacheKey(call[t], ns), Live(k)
  PROVE  SameVariant(call[t], store[k].call, store[k].resp.vary)
<1>1. call[t] \in Calls /\ k \in Keys
  BY KeyInKeys DEF TypeInv, TypeOK
<1>2. store[k] \in Entries
  BY <1>1 DEF TypeInv, TypeOK, Live
<1>3. store[k].call \in Calls /\ store[k].resp.vary \in SUBSET HeaderNames
  BY <1>2, ProxyCacheAssumption DEF Entries
<1>4. k = CacheKey(store[k].call, store[k].resp.vary)
  BY <1>1 DEF KeyedInv, Live
<1>5. SameVariant(call[t], store[k].call, ns \cup store[k].resp.vary)
  BY <1>1, <1>3, <1>4 DEF KeyInjective
<1>6. QED
  BY <1>5 DEF SameVariant

\* What a step of thread t leaves alone of the other threads' lookups.
OtherLookups(t) ==
  \A u \in Threads \ {t} :
    pc'[u] = pc[u] /\ call'[u] = call[u] /\ found'[u] = found[u]

LEMMA MatchOneThread ==
  ASSUME MatchInv, NEW t \in Threads, OtherLookups(t),
         pc'[t] \in Replaying =>
           SameVariant(call'[t], found'[t].call, found'[t].resp.vary)
  PROVE  MatchInv'
BY DEF MatchInv, OtherLookups

LEMMA MatchStep ==
  ASSUME KeyInjective
  PROVE  TypeInv /\ KeyedInv /\ MatchInv /\ [Next]_vars => MatchInv'
<1> SUFFICES ASSUME TypeInv, KeyedInv, MatchInv, [Next]_vars PROVE MatchInv'
  OBVIOUS
<1> USE DEF shared, lookup, stream
<1>1. ASSUME NEW t \in Threads, Arrive(t) PROVE MatchInv'
  <2>1. OtherLookups(t) /\ pc'[t] = "load"
    BY <1>1 DEF TypeInv, TypeOK, OtherLookups, Arrive, Goto
  <2>2. QED
    BY <2>1, MatchOneThread DEF Replaying
<1>2. ASSUME NEW t \in Threads, Get(t) PROVE MatchInv'
  <2> DEFINE k == CacheKey(call[t], names[t])
  <2>1. OtherLookups(t) /\ call'[t] = call[t]
    BY <1>2 DEF TypeInv, TypeOK, OtherLookups, Get, Hit, Miss, Goto
  <2>2. pc'[t] \in Replaying => Live(k) /\ found'[t] = store[k]
    BY <1>2 DEF TypeInv, TypeOK, Replaying, Get, Hit, Miss, Goto
  <2>3. names[t] \in SUBSET HeaderNames
    BY DEF TypeInv, TypeOK
  <2>4. QED
    BY <2>1, <2>2, <2>3, LookupMatches, MatchOneThread, ProxyCacheAssumption
<1>3. ASSUME NEW t \in Threads, GetBase(t) PROVE MatchInv'
  <2> DEFINE k == BaseKey(call[t])
  <2>1. OtherLookups(t) /\ call'[t] = call[t]
    BY <1>3 DEF TypeInv, TypeOK, OtherLookups, GetBase, Hit, Miss, Goto
  <2>2. pc'[t] \in Replaying => Live(k) /\ found'[t] = store[k]
    BY <1>3 DEF TypeInv, TypeOK, Replaying, GetBase, Hit, Miss, Goto
  <2>3. k = CacheKey(call[t], {}) /\ {} \in SUBSET HeaderNames
    BY DEF BaseKey
  <2>4. QED
    BY <2>1, <2>2, <2>3, LookupMatches, MatchOneThread, ProxyCacheAssumption
<1>4. ASSUME NEW t \in Threads, Learn(t) \/ Serve(t) PROVE MatchInv'
  <2>1. OtherLookups(t) /\ call'[t] = call[t] /\ found'[t] = found[t]
    BY <1>4 DEF TypeInv, TypeOK, OtherLookups, Learn, LookAgain, Serve, Goto
  <2>2. pc[t] \in Replaying
    BY <1>4 DEF Learn, Serve, Replaying
  <2>3. QED
    BY <2>1, <2>2, MatchOneThread DEF MatchInv
<1>5. ASSUME NEW t \in Threads, LoadVariantHeaders(t) \/ StreamStep(t) PROVE MatchInv'
  <2>1. OtherLookups(t)
    BY <1>5 DEF TypeInv, TypeOK, OtherLookups, LoadVariantHeaders, StreamStep, Bypass,
       OriginHeaders, Chunk, Abort, Finish, Admit, StoreEntry, Goto
  <2>2. pc'[t] \in {"get", "bypassed", "body", "aborted", "store", "set", "miss"}
    BY <1>5 DEF TypeInv, TypeOK, LoadVariantHeaders, StreamStep, Bypass, OriginHeaders,
       Chunk, Abort, Finish, Admit, StoreEntry, Goto
  <2>3. QED
    BY <2>1, <2>2, MatchOneThread DEF Replaying
<1>6. CASE UNCHANGED <<pc, call, found>>
  BY <1>6 DEF MatchInv
<1>7. QED
  BY <1>1, <1>2, <1>3, <1>4, <1>5, <1>6 DEF Next, LookupStep, Evict, Tick, vars

\* For every set of requests, responses and header names: as long as the key
\* tells variants apart, no client is served another variant's response, in
\* whatever order concurrent requests rewrite varyIndex and the cache.
THEOREM HitMatchesVariantHolds ==
  ASSUME KeyInjective
  PROVE  Spec => []HitMatchesVariant
<1> DEFINE Inv == TypeInv /\ KeyedInv /\ MatchInv
<1>1. Init => Inv
  <2>1. Init => KeyedInv /\ MatchInv
    BY DEF Init, KeyedInv, MatchInv, Replaying
  <2>2. QED
    BY <2>1, TypeInvInit
<1>2. Inv /\ [Next]_vars => Inv'
  BY TypeInvNext, KeyedStep, MatchStep
<1>3. Inv => HitMatchesVariant
  BY DEF MatchInv, HitMatchesVariant, Replaying
<1>4. QED
  BY <1>1, <1>2, <1>3, PTL DEF Spec

-----------------------------------------------------------------------------
(***************************************************************************)
(* How long a lookup may return a response.                                *)
(***************************************************************************)

ExpiryInv ==
  \A k \in Keys : store[k] # NoEntry =>
    /\ store[k].until # Never
    /\ store[k].until = store[k].done + Lifetime(store[k].resp) + store[k].late

LEMMA ExpiryStep == TypeInv /\ ExpiryInv /\ [Next]_vars => ExpiryInv'
<1> SUFFICES ASSUME TypeInv, ExpiryInv, [Next]_vars PROVE ExpiryInv'
  OBVIOUS
<1>1. CASE UNCHANGED store
  BY <1>1 DEF ExpiryInv
<1>2. ASSUME NEW t \in Threads, StoreEntry(t) PROVE ExpiryInv'
  <2> DEFINE e == NewEntry(t)
  <2>1. pc[t] = "set" /\ origin[t] \in Responses
    BY <1>2, BadGatewayNotCacheable DEF TypeInv, TypeOK, StoringInv, StoreEntry
  <2>2. e.until \in Nat /\ e.until = e.done + Lifetime(e.resp) + e.late
    BY <2>1, NewEntryClock DEF TypeInv, ClockInv
  <2>3. e.until # Never
    BY <2>2 DEF Never
  <2> HIDE DEF e
  <2>4. CASE store' = [store EXCEPT ![StoreKey(t)] = e]
    BY <2>2, <2>3, <2>4 DEF TypeInv, TypeOK, ExpiryInv
  <2>5. QED
    BY <1>1, <1>2, <2>4 DEF StoreEntry, e
<1>3. ASSUME NEW k \in Keys, Evict(k) PROVE ExpiryInv'
  BY <1>3 DEF TypeInv, TypeOK, ExpiryInv, Evict
<1>4. QED
  BY <1>1, <1>2, <1>3
     DEF Next, LookupStep, StreamStep, Arrive, LoadVariantHeaders, Get, GetBase, Learn,
         Serve, Bypass, OriginHeaders, Chunk, Abort, Finish, Admit, Tick, vars, shared

\* The one place where found comes from: a live entry.
LEMMA FoundIsLive ==
  ASSUME TypeInv, [Next]_vars, NEW t \in Threads,
         pc[t] \in {"get", "getBase"}, pc'[t] \in {"learn", "serve"}
  PROVE  \E k \in Keys : Live(k) /\ found'[t] = store[k]
<1>1. CASE Get(t)
  <2>1. CacheKey(call[t], names[t]) \in Keys
    BY KeyInKeys DEF TypeInv, TypeOK
  <2>2. QED
    BY <1>1, <2>1 DEF TypeInv, TypeOK, Get, Hit, Miss, Goto
<1>2. CASE GetBase(t)
  <2>1. BaseKey(call[t]) \in Keys
    BY KeyInKeys DEF TypeInv, TypeOK, BaseKey
  <2>2. QED
    BY <1>2, <2>1 DEF TypeInv, TypeOK, GetBase, Hit, Miss, Goto
<1>3. CASE pc'[t] = pc[t]
  BY <1>3
<1>4. ASSUME NEW u \in Threads, Arrive(u) \/ LookupStep(u) \/ StreamStep(u), u # t
      PROVE  pc'[t] = pc[t]
  BY <1>4 DEF TypeInv, TypeOK, Arrive, LookupStep, StreamStep, LoadVariantHeaders, Get,
     GetBase, Hit, Miss, Learn, LookAgain, Serve, Bypass, OriginHeaders, Chunk, Abort,
     Finish, Admit, StoreEntry, Goto
<1>5. CASE Arrive(t) \/ LoadVariantHeaders(t) \/ Learn(t) \/ Serve(t) \/ StreamStep(t)
  BY <1>5 DEF Arrive, LoadVariantHeaders, Learn, Serve, StreamStep, Bypass, OriginHeaders,
     Chunk, Abort, Finish, Admit, StoreEntry, Ended
<1>6. QED
  BY <1>1, <1>2, <1>3, <1>4, <1>5 DEF Next, LookupStep, Evict, Tick, vars

\* For every clock bound and every set of lifetimes, and however long a request
\* pauses anywhere: a lookup returns a response past its lifetime by no more than the
\* pause, if any, inside Set, between its reading of the clock and ristretto's.
THEOREM HitIsFreshHolds == Spec => HitIsFresh
<1> DEFINE Fresh ==
      \A t \in Threads :
        pc[t] \in {"get", "getBase"} /\ pc'[t] \in {"learn", "serve"} =>
          now <= found'[t].done + Lifetime(found'[t].resp) + found'[t].late
<1>1. Init => TypeInv /\ ExpiryInv
  <2>1. Init => ExpiryInv
    BY DEF Init, ExpiryInv
  <2>2. QED
    BY <2>1, TypeInvInit
<1>2. TypeInv /\ ExpiryInv /\ [Next]_vars => (TypeInv /\ ExpiryInv)'
  BY TypeInvNext, ExpiryStep
<1>3. TypeInv /\ ExpiryInv /\ [Next]_vars => [Fresh]_vars
  <2> SUFFICES ASSUME TypeInv, ExpiryInv, [Next]_vars, NEW t \in Threads,
                      pc[t] \in {"get", "getBase"}, pc'[t] \in {"learn", "serve"}
               PROVE  now <= found'[t].done + Lifetime(found'[t].resp) + found'[t].late
    OBVIOUS
  <2>1. PICK k \in Keys : Live(k) /\ found'[t] = store[k]
    BY FoundIsLive
  <2>2. now <= store[k].until
    BY <2>1 DEF Live, ExpiryInv
  <2>3. QED
    BY <2>1, <2>2 DEF Live, ExpiryInv
<1>4. QED
  BY <1>1, <1>2, <1>3, PTL DEF Spec, HitIsFresh

-----------------------------------------------------------------------------
(***************************************************************************)
(* What is stored can be replayed to anyone.  While a response is streamed *)
(* its copy, unless marked incomplete, equals what has been sent so far.   *)
(***************************************************************************)

Copied(t) ==
  /\ ShouldCacheRequest(call[t])
  /\ origin[t] \in Origin(call[t]) \cup {BadGateway}
  /\ sent[t] <= Len(origin[t].body)
  /\ ~stash[t].over =>
       /\ Len(stash[t].buf) = sent[t]
       /\ \A i \in 1..sent[t] : stash[t].buf[i] = origin[t].body[i]

CopyInv ==
  \A t \in Threads :
    /\ pc[t] \in Looking \cup {"forward"} => sent[t] = 0 /\ stash[t] = EmptyStash
    /\ pc[t] \in {"body"} \cup Storing => Copied(t)
    /\ pc[t] \in Storing => sent[t] = Len(origin[t].body)

LEMMA BodyType == TypeInv => \A t \in Threads : origin[t].body \in Seq(Nat)
<1>1. \A r \in Responses : r.body \in Seq(Nat)
  BY ProxyCacheAssumption
<1>2. BadGateway.body \in Seq(Nat)
  BY BadGatewayBody
<1>3. QED
  BY <1>1, <1>2 DEF TypeInv, TypeOK

\* A mark stays, and one more chunk keeps an unmarked copy equal to what was sent.
LEMMA StashMarks ==
  ASSUME NEW s \in [buf : Seq(Nat), over : BOOLEAN], NEW m \in Nat, ~StashWrite(s, m).over
  PROVE  ~s.over /\ StashWrite(s, m) = [s EXCEPT !.buf = Append(s.buf, m)]
<1>1. [s EXCEPT !.over = TRUE].over = TRUE
  OBVIOUS
<1>2. StashWrite(s, m) = [s EXCEPT !.buf = Append(s.buf, m)]
  BY <1>1 DEF StashWrite
<1>3. [s EXCEPT !.buf = Append(s.buf, m)].over = s.over
  OBVIOUS
<1>4. QED
  BY <1>2, <1>3

LEMMA StashCopies ==
  ASSUME NEW buf \in Seq(Nat), NEW b \in Seq(Nat), NEW n \in Nat, n < Len(b),
         Len(buf) = n, \A i \in 1..n : buf[i] = b[i]
  PROVE  LET longer == Append(buf, b[n + 1])
         IN  Len(longer) = n + 1 /\ \A i \in 1..(n + 1) : longer[i] = b[i]
<1>1. b[n + 1] \in Nat
  OBVIOUS
<1>2. QED
  BY <1>1

\* What a step of thread t leaves alone of the other threads' streams.
OtherStreams(t) ==
  \A u \in Threads \ {t} :
    /\ pc'[u] = pc[u] /\ call'[u] = call[u] /\ origin'[u] = origin[u]
    /\ sent'[u] = sent[u] /\ stash'[u] = stash[u]

LEMMA CopyOneThread ==
  ASSUME CopyInv, NEW t \in Threads, OtherStreams(t),
         pc'[t] \in Looking \cup {"forward"} => sent'[t] = 0 /\ stash'[t] = EmptyStash,
         pc'[t] \in {"body"} \cup Storing => Copied(t)',
         pc'[t] \in Storing => sent'[t] = Len(origin'[t].body)
  PROVE  CopyInv'
<1>1. ASSUME NEW u \in Threads, u # t
      PROVE  /\ UNCHANGED <<sent[u], stash[u], origin[u], pc[u]>>
             /\ Copied(u) => Copied(u)'
  BY <1>1 DEF Copied, OtherStreams
<1>2. QED
  BY <1>1 DEF CopyInv

LEMMA CopyStep == TypeInv /\ CopyInv /\ [Next]_vars => CopyInv'
<1> SUFFICES ASSUME TypeInv, CopyInv, [Next]_vars PROVE CopyInv'
  OBVIOUS
<1> USE DEF shared, lookup, stream
<1>1. ASSUME NEW t \in Threads, Arrive(t) PROVE CopyInv'
  <2>1. OtherStreams(t) /\ pc'[t] = "load" /\ sent'[t] = 0 /\ stash'[t] = EmptyStash
    BY <1>1 DEF TypeInv, TypeOK, OtherStreams, Arrive, Goto
  <2>2. QED
    BY <2>1, CopyOneThread
<1>2. ASSUME NEW t \in Threads, LookupStep(t) PROVE CopyInv'
  <2>1. OtherStreams(t)
    BY <1>2 DEF TypeInv, TypeOK, OtherStreams, LookupStep, LoadVariantHeaders,
       Get, GetBase, Hit, Miss, Learn, LookAgain, Serve, Goto
  <2>2. pc'[t] \in Looking \cup {"forward", "hit", "notModified"} /\ pc[t] \in Looking
    BY <1>2 DEF TypeInv, TypeOK, Looking, LookupStep, LoadVariantHeaders,
       Get, GetBase, Hit, Miss, Learn, LookAgain, Serve, Goto
  <2>3. sent'[t] = sent[t] /\ stash'[t] = stash[t]
    BY <1>2 DEF LookupStep, LoadVariantHeaders, Get, GetBase, Learn, Serve
  <2>4. sent'[t] = 0 /\ stash'[t] = EmptyStash
    BY <2>2, <2>3 DEF CopyInv
  <2>5. pc'[t] \notin {"body"} \cup Storing
    BY <2>2 DEF Looking
  <2>6. QED
    BY <2>1, <2>4, <2>5, CopyOneThread
<1>3. ASSUME NEW t \in Threads, Bypass(t) \/ Abort(t) \/ StoreEntry(t) PROVE CopyInv'
  <2>1. OtherStreams(t) /\ pc'[t] \in {"bypassed", "aborted", "miss"}
    BY <1>3 DEF TypeInv, TypeOK, OtherStreams, Bypass, Abort, StoreEntry, Goto
  <2>2. QED
    BY <2>1, CopyOneThread DEF Looking
<1>4. ASSUME NEW t \in Threads, OriginHeaders(t) PROVE CopyInv'
  <2>1. OtherStreams(t) /\ pc'[t] = "body"
    BY <1>4 DEF TypeInv, TypeOK, OtherStreams, OriginHeaders, Goto
  <2>2. origin'[t].body \in Seq(Nat)
    <3>1. TypeInv'
      BY TypeInvNext
    <3>2. origin'[t] \in Responses \cup {BadGateway}
      BY <3>1 DEF TypeInv, TypeOK
    <3>3. (\A r \in Responses : r.body \in Seq(Nat)) /\ BadGateway.body \in Seq(Nat)
      BY ProxyCacheAssumption, BadGatewayBody
    <3>4. QED
      BY <3>2, <3>3
  <2>3. /\ call'[t] = call[t] /\ ShouldCacheRequest(call[t])
        /\ sent'[t] = 0 /\ stash'[t] = EmptyStash
    BY <1>4 DEF CopyInv, OriginHeaders
  <2>4. origin'[t] \in Origin(call[t]) \cup {BadGateway}
    BY <1>4 DEF TypeInv, TypeOK, OriginHeaders
  <2>5. Copied(t)'
    BY <2>2, <2>3, <2>4 DEF Copied, EmptyStash
  <2>6. QED
    BY <2>1, <2>5, CopyOneThread DEF Looking
<1>5. ASSUME NEW t \in Threads, Chunk(t) PROVE CopyInv'
  <2> DEFINE b == origin[t].body
             n == sent[t]
  <2>1. OtherStreams(t) /\ pc'[t] = "body" /\ call'[t] = call[t] /\ origin'[t] = origin[t]
    BY <1>5 DEF TypeInv, TypeOK, OtherStreams, Chunk
  <2>2. /\ sent'[t] = n + 1 /\ stash'[t] = StashWrite(stash[t], b[n + 1])
        /\ n \in Nat /\ n < Len(b) /\ b \in Seq(Nat)
        /\ stash[t] \in [buf : Seq(Nat), over : BOOLEAN]
    BY <1>5, BodyType DEF TypeInv, TypeOK, Chunk
  <2>3. Copied(t)
    BY <1>5 DEF CopyInv, Chunk
  <2>4. ~stash'[t].over =>
          Len(stash'[t].buf) = n + 1 /\ \A i \in 1..(n + 1) : stash'[t].buf[i] = b[i]
    <3> SUFFICES ASSUME ~stash'[t].over
                 PROVE  Len(stash'[t].buf) = n + 1 /\ \A i \in 1..(n + 1) : stash'[t].buf[i] = b[i]
      OBVIOUS
    <3> DEFINE buf == stash[t].buf
    <3>1. b[n + 1] \in Nat
      BY <2>2
    <3>2. ~stash[t].over /\ stash'[t] = [stash[t] EXCEPT !.buf = Append(buf, b[n + 1])]
      BY <2>2, <3>1, StashMarks
    <3>3. stash'[t].buf = Append(buf, b[n + 1])
      BY <2>2, <3>2
    <3>4. Len(buf) = n /\ (\A i \in 1..n : buf[i] = b[i]) /\ buf \in Seq(Nat)
      BY <2>2, <2>3, <3>2 DEF Copied
    <3>5. QED
      BY <2>2, <3>3, <3>4, StashCopies
  <2>5. Copied(t)'
    BY <2>1, <2>2, <2>3, <2>4 DEF Copied
  <2>6. QED
    BY <2>1, <2>5, CopyOneThread DEF Looking
<1>6. ASSUME NEW t \in Threads, Finish(t) PROVE CopyInv'
  <2>1. OtherStreams(t) /\ pc'[t] \in {"store", "miss"}
    BY <1>6 DEF TypeInv, TypeOK, OtherStreams, Finish, Goto
  <2>2. Copied(t) /\ sent[t] = Len(origin[t].body)
    BY <1>6 DEF CopyInv, Finish
  <2>3. UNCHANGED <<call[t], origin[t], sent[t], stash[t]>>
    BY <1>6 DEF Finish
  <2>4. QED
    BY <2>1, <2>2, <2>3, CopyOneThread DEF Copied, Looking
<1>7. ASSUME NEW t \in Threads, Admit(t) PROVE CopyInv'
  <2>1. OtherStreams(t) /\ pc'[t] \in {"set", "miss"}
    BY <1>7 DEF TypeInv, TypeOK, OtherStreams, Admit, Goto
  <2>2. Copied(t) /\ sent[t] = Len(origin[t].body)
    BY <1>7 DEF CopyInv, Admit
  <2>3. UNCHANGED <<call[t], origin[t], sent[t], stash[t]>>
    BY <1>7 DEF Admit
  <2>4. QED
    BY <2>1, <2>2, <2>3, CopyOneThread DEF Copied, Looking
<1>8. CASE UNCHANGED <<pc, call, origin, sent, stash>>
  BY <1>8 DEF CopyInv, Copied
<1>9. QED
  BY <1>1, <1>2, <1>3, <1>4, <1>5, <1>6, <1>7, <1>8 DEF Next, StreamStep, Evict, Tick, vars

\* A copy that may be stored is whole, and what it is a copy of answers no Range or
\* conditional request.
LEMMA CopyWhole ==
  ASSUME TypeInv, NEW t \in Threads, Copied(t), sent[t] = Len(origin[t].body),
         CacheStatus(origin[t], stash[t].over)
  PROVE  stash[t].buf = origin[t].body /\ origin[t].status \notin {206, 304}
<1>1. origin[t] \in Origin(call[t]) /\ call[t] \in Calls
  BY BadGatewayNotCacheable DEF TypeInv, TypeOK, Copied
<1>2. origin[t].status # 206 /\ origin[t].status # 304
  BY <1>1, OriginIsHTTP DEF Copied, ShouldCacheRequest, CacheStatus
<1>3. stash[t].buf \in Seq(Nat) /\ origin[t].body \in Seq(Nat)
  BY BodyType DEF TypeInv, TypeOK
<1>4. /\ Len(stash[t].buf) = Len(origin[t].body)
      /\ \A i \in 1..Len(stash[t].buf) : stash[t].buf[i] = origin[t].body[i]
  BY DEF Copied, CacheStatus
<1>5. QED
  BY <1>2, <1>3, <1>4, SeqEqual

\* The entry about to be stored is whole.
LEMMA NewEntryWhole ==
  ASSUME TypeInv, CopyInv, NEW t \in Threads, pc[t] \in Storing
  PROVE  LET e == NewEntry(t)
         IN  e.body = e.resp.body /\ e.resp.status \notin {206, 304} /\ ~e.cookie
<1>1. CacheStatus(origin[t], stash[t].over)
  BY DEF TypeInv, StoringInv
<1>2. stash[t].buf = origin[t].body /\ origin[t].status \notin {206, 304}
  BY <1>1, CopyWhole DEF CopyInv
<1>3. ~(origin[t].cookie /\ ~CacheStatus(origin[t], stash[t].over))
  BY <1>1
<1>4. QED
  BY <1>2, <1>3 DEF NewEntry

LEMMA WholeStep == TypeInv /\ CopyInv /\ StoredIsWhole /\ [Next]_vars => StoredIsWhole'
<1> SUFFICES ASSUME TypeInv, CopyInv, StoredIsWhole, [Next]_vars PROVE StoredIsWhole'
  OBVIOUS
<1>1. CASE UNCHANGED store
  BY <1>1 DEF StoredIsWhole
<1>2. ASSUME NEW t \in Threads, StoreEntry(t) PROVE StoredIsWhole'
  <2>1. CASE store' = [store EXCEPT ![StoreKey(t)] = NewEntry(t)]
    BY <1>2, <2>1, NewEntryWhole DEF TypeInv, TypeOK, StoredIsWhole, StoreEntry
  <2>2. QED
    BY <1>1, <1>2, <2>1 DEF StoreEntry
<1>3. ASSUME NEW k \in Keys, Evict(k) PROVE StoredIsWhole'
  BY <1>3 DEF TypeInv, TypeOK, StoredIsWhole, Evict
<1>4. QED
  BY <1>1, <1>2, <1>3
     DEF Next, LookupStep, StreamStep, Arrive, LoadVariantHeaders, Get, GetBase, Learn,
         Serve, Bypass, OriginHeaders, Chunk, Abort, Finish, Admit, Tick, vars, shared

\* For bodies of any length in chunks of any size, and any limits: only complete
\* responses that suit every client are stored.
THEOREM StoredIsWholeHolds == Spec => []StoredIsWhole
<1> DEFINE Inv == TypeInv /\ CopyInv /\ StoredIsWhole
<1>1. Init => Inv
  <2>1. Init => CopyInv /\ StoredIsWhole
    BY DEF Init, CopyInv, StoredIsWhole
  <2>2. QED
    BY <2>1, TypeInvInit
<1>2. Inv /\ [Next]_vars => Inv'
  BY TypeInvNext, CopyStep, WholeStep
<1>3. QED
  BY <1>1, <1>2, PTL DEF Spec

-----------------------------------------------------------------------------
(***************************************************************************)
(* What is stored stays within reach.  The names in varyIndex are written  *)
(* by every request that finds or stores a response, so the invariant has  *)
(* to say of all of them that they write what the resource's own Vary says *)
(* (IndexInv), and of what is found that it belongs to the resource.       *)
(***************************************************************************)

\* A resource, which is what shares a base key, sticks to one Vary header.
SteadyVary ==
  \A c, d \in Calls : BaseKey(c) = BaseKey(d) =>
    \A r \in Origin(c), s \in Origin(d) :
      CacheStatus(r, FALSE) /\ CacheStatus(s, FALSE) => r.vary = s.vary

\* An answer the application gave to the call, and that may be cached.
Given(c, r) == r \in Origin(c) /\ CacheStatus(r, FALSE)

OriginInv == \A t \in Threads : origin[t] \in Origin(call[t]) \cup {BadGateway}

GivenInv == \A k \in Keys : store[k] # NoEntry => Given(store[k].call, store[k].resp)

FoundGivenInv ==
  \A t \in Threads : pc[t] \in Replaying => Given(found[t].call, found[t].resp)

IndexInv ==
  /\ \A k \in Keys : store[k] # NoEntry =>
       varyIndex[BaseKey(store[k].call)] = store[k].resp.vary
  /\ \A t \in Threads : pc[t] \in Storing =>
       varyIndex[BaseKey(call[t])] = origin[t].vary

ReachInv == TypeInv /\ KeyedInv /\ MatchInv /\ OriginInv /\ GivenInv /\ FoundGivenInv

\* Headers have no part in the base key.
LEMMA SameBaseKey ==
  ASSUME NEW c \in Calls, NEW d \in Calls, NEW ns, SameVariant(c, d, ns)
  PROVE  BaseKey(c) = BaseKey(d)
<1> DEFINE Fields(e) ==
      [i \in DOMAIN HeaderOrder |->
         LET n == HeaderOrder[i]
         IN  IF n \in {} THEN <<n, "=">> \o e.headers[n] ELSE <<>>]
<1>1. Fields(c) = Fields(d)
  OBVIOUS
<1>2. Preimage(c, {}) = c.method \o c.path \o c.query \o c.host \o FlattenSeq(Fields(c))
  BY DEF Preimage
<1>3. Preimage(d, {}) = d.method \o d.path \o d.query \o d.host \o FlattenSeq(Fields(d))
  BY DEF Preimage
<1>4. Preimage(c, {}) = Preimage(d, {})
  <2> HIDE DEF Fields
  <2>1. QED
    BY <1>1, <1>2, <1>3 DEF SameVariant
<1>5. QED
  BY <1>4 DEF BaseKey, CacheKey

LEMMA OriginStep == TypeInv /\ OriginInv /\ [Next]_vars => OriginInv'
<1> SUFFICES ASSUME TypeInv, OriginInv, [Next]_vars PROVE OriginInv'
  OBVIOUS
<1> USE DEF lookup, stream
<1>1. ASSUME NEW t \in Threads, Arrive(t) PROVE OriginInv'
  BY <1>1 DEF TypeInv, TypeOK, OriginInv, Arrive
<1>2. ASSUME NEW t \in Threads, OriginHeaders(t) PROVE OriginInv'
  BY <1>2 DEF TypeInv, TypeOK, OriginInv, OriginHeaders
<1>3. CASE UNCHANGED <<origin, call>>
  BY <1>3 DEF OriginInv
<1>4. QED
  BY <1>1, <1>2, <1>3
     DEF Next, LookupStep, StreamStep, LoadVariantHeaders, Get, GetBase, Learn, Serve, Bypass,
         Chunk, Abort, Finish, Admit, StoreEntry, Evict, Tick, vars

\* What is about to be stored was given by the application.
LEMMA StoringGiven ==
  ASSUME TypeInv, OriginInv, NEW t \in Threads, CacheStatus(origin[t], stash[t].over)
  PROVE  Given(call[t], origin[t])
<1>1. origin[t] # BadGateway
  BY BadGatewayNotCacheable DEF TypeInv, TypeOK
<1>2. CacheStatus(origin[t], FALSE)
  BY DEF CacheStatus
<1>3. QED
  BY <1>1, <1>2 DEF OriginInv, Given

LEMMA GivenStep == TypeInv /\ OriginInv /\ GivenInv /\ [Next]_vars => GivenInv'
<1> SUFFICES ASSUME TypeInv, OriginInv, GivenInv, [Next]_vars PROVE GivenInv'
  OBVIOUS
<1>1. CASE UNCHANGED store
  BY <1>1 DEF GivenInv
<1>2. ASSUME NEW t \in Threads, StoreEntry(t) PROVE GivenInv'
  <2>1. NewEntry(t).call = call[t] /\ NewEntry(t).resp = origin[t]
    BY DEF NewEntry
  <2>2. Given(call[t], origin[t])
    BY <1>2, StoringGiven DEF TypeInv, StoringInv, StoreEntry
  <2>3. CASE store' = [store EXCEPT ![StoreKey(t)] = NewEntry(t)]
    BY <2>1, <2>2, <2>3 DEF TypeInv, TypeOK, GivenInv
  <2>4. QED
    BY <1>1, <1>2, <2>3 DEF StoreEntry
<1>3. ASSUME NEW k \in Keys, Evict(k) PROVE GivenInv'
  BY <1>3 DEF TypeInv, TypeOK, GivenInv, Evict
<1>4. QED
  BY <1>1, <1>2, <1>3
     DEF Next, LookupStep, StreamStep, Arrive, LoadVariantHeaders, Get, GetBase, Learn,
         Serve, Bypass, OriginHeaders, Chunk, Abort, Finish, Admit, Tick, vars, shared

\* A response that is replayed was found in the store, or was being replayed before.
LEMMA Replayed ==
  ASSUME TypeInv, [Next]_vars, NEW t \in Threads, pc'[t] \in Replaying
  PROVE  \/ \E k \in Keys : Live(k) /\ found'[t] = store[k]
         \/ pc[t] \in Replaying /\ found'[t] = found[t]
<1> USE DEF TypeInv, TypeOK, Replaying, Goto, lookup, stream
<1>1. CASE pc[t] \in {"get", "getBase"} /\ pc'[t] \in {"learn", "serve"}
  BY <1>1, FoundIsLive
<1>2. ASSUME NEW u \in Threads, Arrive(u) \/ LookupStep(u) \/ StreamStep(u), u # t
      PROVE  pc'[t] = pc[t] /\ found'[t] = found[t]
  BY <1>2 DEF LookupStep, StreamStep, Arrive, LoadVariantHeaders, Get, GetBase, Hit, Miss,
     Learn, LookAgain, Serve, Bypass, OriginHeaders, Chunk, Abort, Finish, Admit, StoreEntry
<1>3. CASE Arrive(t) \/ LoadVariantHeaders(t) \/ StreamStep(t)
  BY <1>3 DEF StreamStep, Arrive, LoadVariantHeaders, Bypass, OriginHeaders, Chunk, Abort,
     Finish, Admit, StoreEntry
<1>4. CASE Get(t) \/ GetBase(t)
  BY <1>1, <1>4 DEF Get, GetBase, Hit, Miss
<1>5. CASE Learn(t) \/ Serve(t)
  BY <1>5 DEF Learn, LookAgain, Serve
<1>6. CASE UNCHANGED <<pc, found>>
  BY <1>6
<1>7. QED
  BY <1>2, <1>3, <1>4, <1>5, <1>6 DEF Next, LookupStep, Evict, Tick, vars

LEMMA FoundGivenStep ==
  TypeInv /\ GivenInv /\ FoundGivenInv /\ [Next]_vars => FoundGivenInv'
BY Replayed DEF GivenInv, FoundGivenInv, Live

\* Names that are written for a resource are those of all it has in the cache.
LEMMA IndexedAgain ==
  ASSUME SteadyVary, ReachInv, IndexInv, ProxyCacheAssumption, NEW t \in Threads,
         NEW c \in Calls, NEW r, Given(c, r), BaseKey(c) = BaseKey(call[t]),
         varyIndex' = [varyIndex EXCEPT ![BaseKey(call[t])] = r.vary],
         store' = store, call' = call, origin' = origin,
         \A u \in Threads \ {t} : pc'[u] = pc[u],
         pc'[t] \in Storing => r = origin[t]
  PROVE  IndexInv'
<1>1. varyIndex \in [Keys -> SUBSET HeaderNames] /\ call \in [Threads -> Calls]
  BY DEF ReachInv, TypeInv, TypeOK
<1>2. \A d \in Calls : BaseKey(d) \in Keys
  BY KeyInKeys DEF BaseKey
<1>3. \A d \in Calls : \A s : Given(d, s) /\ BaseKey(d) = BaseKey(call[t]) => s.vary = r.vary
  BY DEF SteadyVary, Given
<1>4. \A d \in Calls : \A s :
        Given(d, s) /\ varyIndex[BaseKey(d)] = s.vary => varyIndex'[BaseKey(d)] = s.vary
  BY <1>1, <1>2, <1>3
<1>5. \A k \in Keys : store[k] # NoEntry =>
        varyIndex'[BaseKey(store[k].call)] = store[k].resp.vary
  <2> SUFFICES ASSUME NEW k \in Keys, store[k] # NoEntry
               PROVE  varyIndex'[BaseKey(store[k].call)] = store[k].resp.vary
    OBVIOUS
  <2>1. store[k].call \in Calls
    BY DEF ReachInv, TypeInv, TypeOK, Entries
  <2>2. QED
    BY <1>4, <2>1 DEF ReachInv, GivenInv, IndexInv
<1>6. \A u \in Threads : pc'[u] \in Storing => varyIndex'[BaseKey(call[u])] = origin[u].vary
  <2> SUFFICES ASSUME NEW u \in Threads, pc'[u] \in Storing
               PROVE  varyIndex'[BaseKey(call[u])] = origin[u].vary
    OBVIOUS
  <2>1. CASE u = t
    BY <1>1, <1>2, <2>1
  <2>2. CASE u # t
    <3>1. Given(call[u], origin[u])
      BY <2>2, StoringGiven DEF ReachInv, TypeInv, StoringInv
    <3>2. QED
      BY <1>1, <1>4, <2>2, <3>1 DEF IndexInv
  <2>3. QED
    BY <2>1, <2>2
<1>7. QED
  BY <1>5, <1>6 DEF IndexInv

LEMMA IndexStep ==
  ASSUME KeyInjective, SteadyVary
  PROVE  ReachInv /\ IndexInv /\ [Next]_vars => IndexInv'
<1> SUFFICES ASSUME ReachInv, IndexInv, [Next]_vars PROVE IndexInv'
  OBVIOUS
<1> TypeInv /\ TypeOK
  BY DEF ReachInv, TypeInv
<1> USE DEF shared, lookup, stream
<1>1. ASSUME NEW t \in Threads, Learn(t) PROVE IndexInv'
  <2>1. found[t].call \in Calls /\ Given(found[t].call, found[t].resp)
    BY <1>1 DEF ReachInv, TypeInv, FoundInv, FoundGivenInv, Entries, Replaying, Learn
  <2>2. BaseKey(found[t].call) = BaseKey(call[t])
    BY <1>1, <2>1, SameBaseKey DEF ReachInv, MatchInv, TypeOK, Replaying, Learn
  <2>3. varyIndex' = [varyIndex EXCEPT ![BaseKey(call[t])] = found[t].resp.vary]
    BY <1>1 DEF Learn, Remember
  <2>4. pc'[t] \notin Storing /\ \A u \in Threads \ {t} : pc'[u] = pc[u]
    BY <1>1 DEF TypeOK, Learn, LookAgain, Goto
  <2>5. QED
    BY <1>1, <2>1, <2>2, <2>3, <2>4, IndexedAgain, ProxyCacheAssumption DEF Learn
<1>2. ASSUME NEW t \in Threads, Finish(t) PROVE IndexInv'
  <2>1. CASE CacheStatus(origin[t], stash[t].over)
    <3>1. Given(call[t], origin[t])
      BY <2>1, StoringGiven DEF ReachInv
    <3>2. varyIndex' = [varyIndex EXCEPT ![BaseKey(call[t])] = origin[t].vary]
      BY <1>2, <2>1 DEF Finish, Remember
    <3>3. \A u \in Threads \ {t} : pc'[u] = pc[u]
      BY <1>2, <2>1 DEF TypeOK, Finish, Goto
    <3>4. call[t] \in Calls
      BY DEF TypeOK
    <3>5. QED
      BY <1>2, <3>1, <3>2, <3>3, <3>4, IndexedAgain, ProxyCacheAssumption DEF Finish
  <2>2. CASE ~CacheStatus(origin[t], stash[t].over)
    BY <1>2, <2>2 DEF TypeOK, IndexInv, Finish, Goto
  <2>3. QED
    BY <2>1, <2>2
<1>3. ASSUME NEW t \in Threads, StoreEntry(t) PROVE IndexInv'
  <2>1. NewEntry(t).call = call[t] /\ NewEntry(t).resp = origin[t]
    BY DEF NewEntry
  <2>2. varyIndex[BaseKey(call[t])] = origin[t].vary
    BY <1>3 DEF IndexInv, StoreEntry
  <2>3. \A k \in Keys : store'[k] = store[k] \/ store'[k] = NewEntry(t)
    BY <1>3 DEF TypeOK, StoreEntry
  <2>4. \A u \in Threads : pc'[u] \in Storing => pc[u] \in Storing
    BY <1>3 DEF TypeOK, StoreEntry, Goto
  <2>5. QED
    BY <1>3, <2>1, <2>2, <2>3, <2>4 DEF IndexInv, StoreEntry
<1>4. ASSUME NEW k \in Keys, Evict(k) PROVE IndexInv'
  BY <1>4 DEF TypeOK, IndexInv, Evict
<1>5. ASSUME NEW t \in Threads, Arrive(t) PROVE IndexInv'
  <2>1. pc'[t] \notin Storing /\ \A u \in Threads \ {t} :
          pc'[u] = pc[u] /\ call'[u] = call[u] /\ origin'[u] = origin[u]
    BY <1>5 DEF TypeOK, Arrive, Goto
  <2>2. QED
    BY <1>5, <2>1 DEF IndexInv, Arrive
<1>6. ASSUME NEW t \in Threads,
             LoadVariantHeaders(t) \/ Get(t) \/ GetBase(t) \/ Serve(t)
               \/ Bypass(t) \/ OriginHeaders(t) \/ Chunk(t) \/ Abort(t)
      PROVE  IndexInv'
  <2>1. /\ varyIndex' = varyIndex /\ store' = store /\ call' = call
        /\ pc'[t] \notin Storing
    BY <1>6 DEF TypeOK, LoadVariantHeaders, Get, GetBase, Hit, Miss, Serve, Bypass,
       OriginHeaders, Chunk, Abort, Goto
  <2>2. \A u \in Threads \ {t} : pc'[u] = pc[u] /\ origin'[u] = origin[u]
    BY <1>6 DEF TypeOK, LoadVariantHeaders, Get, GetBase, Hit, Miss, Serve, Bypass,
       OriginHeaders, Chunk, Abort, Goto
  <2>3. QED
    BY <2>1, <2>2 DEF IndexInv
<1>7. ASSUME NEW t \in Threads, Admit(t) PROVE IndexInv'
  <2>1. UNCHANGED <<store, varyIndex, call, origin>>
    BY <1>7 DEF Admit
  <2>2. \A u \in Threads : pc'[u] \in Storing => pc[u] \in Storing
    BY <1>7 DEF TypeOK, Admit, Goto
  <2>3. QED
    BY <2>1, <2>2 DEF IndexInv
<1>8. CASE UNCHANGED <<store, varyIndex, pc, call, origin>>
  BY <1>8 DEF IndexInv
<1>9. QED
  BY <1>1, <1>2, <1>3, <1>4, <1>5, <1>6, <1>7, <1>8 DEF Next, LookupStep, StreamStep, Tick, vars

\* For every number of requests, resources and header names: while keys tell variants
\* apart and every resource sticks to one Vary header, whoever rewrites varyIndex in the
\* meantime leaves in it the names under which each stored response is found again.
THEOREM StoredIsReachableHolds ==
  ASSUME KeyInjective, SteadyVary
  PROVE  Spec => []StoredIsReachable
<1> DEFINE Inv == ReachInv /\ IndexInv
<1>1. Init => Inv
  <2>1. Init => KeyedInv /\ MatchInv /\ OriginInv /\ GivenInv /\ FoundGivenInv /\ IndexInv
    BY DEF Init, KeyedInv, MatchInv, OriginInv, GivenInv, FoundGivenInv, IndexInv, Replaying
  <2>2. QED
    BY <2>1, TypeInvInit DEF ReachInv
<1>2. Inv /\ [Next]_vars => Inv'
  <2>1. ReachInv /\ [Next]_vars => ReachInv'
    BY TypeInvNext, KeyedStep, MatchStep, OriginStep, GivenStep, FoundGivenStep DEF ReachInv
  <2>2. QED
    BY <2>1, IndexStep
<1>3. Inv => StoredIsReachable
  BY DEF ReachInv, KeyedInv, IndexInv, StoredIsReachable
<1>4. QED
  BY <1>1, <1>2, <1>3, PTL DEF Spec

-----------------------------------------------------------------------------
(***************************************************************************)
(* ProxyCache implements SharedCache.  What is replayed is what lies in    *)
(* the store, so the invariants about the store are enough, with one more: *)
(* the header values an entry records are those of its request, whence     *)
(* ServeHTTP never looks a second time.                                    *)
(***************************************************************************)

Recorded(e) == e.variant = VariantHeader(e.call, e.resp.vary)

VariantInv == \A k \in Keys : store[k] # NoEntry => Recorded(store[k])
FoundVariantInv == \A t \in Threads : pc[t] \in Replaying => Recorded(found[t])

CacheInv ==
  /\ TypeInv /\ KeyedInv /\ MatchInv
  /\ ExpiryInv /\ CopyInv
  /\ VariantInv /\ FoundVariantInv

LEMMA VariantStep == TypeInv /\ VariantInv /\ [Next]_vars => VariantInv'
<1> SUFFICES ASSUME TypeInv, VariantInv, [Next]_vars PROVE VariantInv'
  OBVIOUS
<1>1. CASE UNCHANGED store
  BY <1>1 DEF VariantInv
<1>2. ASSUME NEW t \in Threads, StoreEntry(t) PROVE VariantInv'
  <2>1. Recorded(NewEntry(t))
    BY <1>2 DEF TypeInv, StoringInv, StoreEntry, Recorded, NewEntry
  <2>2. CASE store' = [store EXCEPT ![StoreKey(t)] = NewEntry(t)]
    BY <2>1, <2>2 DEF TypeInv, TypeOK, VariantInv
  <2>3. QED
    BY <1>1, <1>2, <2>2 DEF StoreEntry
<1>3. ASSUME NEW k \in Keys, Evict(k) PROVE VariantInv'
  BY <1>3 DEF TypeInv, TypeOK, VariantInv, Evict
<1>4. QED
  BY <1>1, <1>2, <1>3
     DEF Next, LookupStep, StreamStep, Arrive, LoadVariantHeaders, Get, GetBase, Learn,
         Serve, Bypass, OriginHeaders, Chunk, Abort, Finish, Admit, Tick, vars, shared

LEMMA FoundVariantStep ==
  TypeInv /\ VariantInv /\ FoundVariantInv /\ [Next]_vars => FoundVariantInv'
BY Replayed DEF VariantInv, FoundVariantInv, Live

LEMMA CacheInvInit == Init => CacheInv
<1>1. Init => /\ KeyedInv /\ MatchInv /\ ExpiryInv
              /\ CopyInv /\ VariantInv /\ FoundVariantInv
  BY DEF Init, KeyedInv, MatchInv, ExpiryInv, CopyInv, VariantInv, FoundVariantInv, Replaying
<1>2. QED
  BY <1>1, TypeInvInit DEF CacheInv

LEMMA CacheInvNext ==
  ASSUME KeyInjective
  PROVE  CacheInv /\ [Next]_vars => CacheInv'
BY TypeInvNext, KeyedStep, MatchStep, ExpiryStep, CopyStep, VariantStep, FoundVariantStep
   DEF CacheInv

LEMMA AsKeptFields ==
  ASSUME NEW e, NEW late
  PROVE  /\ AsKept(e, 0).done = e.done
         /\ [AsKept(e, 0) EXCEPT !.late = late] = AsKept(e, late)
BY DEF AsKept

\* What a step of thread t leaves alone of the other threads.
OtherHands(t) ==
  \A u \in Threads \ {t} :
    /\ pc'[u] = pc[u] /\ found'[u] = found[u] /\ call'[u] = call[u]
    /\ origin'[u] = origin[u] /\ stash'[u] = stash[u] /\ finished'[u] = finished[u]

LEMMA SameHeld ==
  ASSUME NEW u \in Threads, pc'[u] = pc[u], found'[u] = found[u], call'[u] = call[u],
         origin'[u] = origin[u], stash'[u] = stash[u], finished'[u] = finished[u]
  PROVE  Stage(pc'[u]) = Stage(pc[u]) /\ Held(u)' = Held(u)
<1>1. AsKept(NewEntry(u), 0)' = AsKept(NewEntry(u), 0)
  BY DEF AsKept, NewEntry
<1>2. QED
  BY <1>1 DEF Held, AsKept

\* A step of one thread is seen as a change of its stage and its answer.
LEMMA OneClient ==
  ASSUME NEW t \in Threads, OtherHands(t), NEW s, NEW a,
         Stage(pc'[t]) = s, Held(t)' = a
  PROVE  Contract!Becomes(t, s, a)
<1>1. \A u \in Threads \ {t} : Stage(pc'[u]) = Stage(pc[u]) /\ Held(u)' = Held(u)
  BY SameHeld DEF OtherHands
<1> DEFINE stages == [u \in Threads |-> Stage(pc[u])]
           answers == [u \in Threads |-> Held(u)]
<1>2. stages' = [stages EXCEPT ![t] = s]
  BY <1>1
<1>3. answers' = [answers EXCEPT ![t] = a]
  BY <1>1
<1>4. QED
  BY <1>2, <1>3 DEF Contract!Becomes

Asked == {"load", "get", "getBase", "forward", "body"}

LEMMA Stages ==
  /\ \A l \in Asked : Stage(l) = "asked"
  /\ \A l \in {"learn", "serve"} : Stage(l) = "found"
  /\ Stage("hit") = "replayed" /\ Stage("notModified") = "not modified"
  /\ \A l \in Storing : Stage(l) = "offering"
  /\ \A l \in {"miss", "bypassed", "aborted"} : Stage(l) = "passed on"
  /\ Stage("idle") = "idle"
BY DEF Stage, Asked

LEMMA HeldOf ==
  ASSUME NEW t \in Threads
  PROVE  /\ Stage(pc[t]) \in {"idle", "asked", "passed on"} => Held(t) = NoEntry
         /\ Stage(pc[t]) \in {"found", "replayed", "not modified"} =>
              Held(t) = AsKept(found[t], found[t].late)
         /\ Stage(pc[t]) = "offering" => Held(t) = AsKept(NewEntry(t), 0)
BY DEF Held

LEMMA HeldNext ==
  ASSUME NEW t \in Threads
  PROVE  /\ Stage(pc'[t]) \in {"idle", "asked", "passed on"} => Held(t)' = NoEntry
         /\ Stage(pc'[t]) \in {"found", "replayed", "not modified"} =>
              Held(t)' = AsKept(found'[t], found'[t].late)
         /\ Stage(pc'[t]) = "offering" => Held(t)' = AsKept(NewEntry(t), 0)'
BY DEF Held, AsKept

\* A step of a thread between two events of the shared cache.
LEMMA Silent ==
  ASSUME NEW t \in Threads, OtherHands(t), UNCHANGED <<now, store, call>>,
         Stage(pc'[t]) = Stage(pc[t]), Held(t)' = Held(t)
  PROVE  UNCHANGED Contract!vars
<1>1. \A u \in Threads : Stage(pc'[u]) = Stage(pc[u]) /\ Held(u)' = Held(u)
  BY SameHeld DEF OtherHands
<1>2. Kept' = Kept
  BY DEF Kept
<1>3. QED
  BY <1>1, <1>2 DEF Contract!vars

LEMMA NextImplements ==
  ASSUME KeyInjective, CacheInv, CacheInv', [Next]_vars
  PROVE  [Contract!Next]_(Contract!vars)
<1> TypeInv /\ TypeOK /\ TypeInv' /\ TypeOK'
  BY DEF CacheInv, TypeInv
<1> USE DEF shared, lookup, stream
<1>1. ASSUME NEW t \in Threads, Arrive(t) PROVE Contract!Ask(t)
  <2>1. OtherHands(t) /\ pc'[t] = "load"
    BY <1>1 DEF TypeOK, OtherHands, Arrive, Goto
  <2>2. Stage(pc'[t]) = "asked" /\ Held(t)' = NoEntry
    BY <2>1, Stages, HeldNext DEF Asked
  <2>3. Contract!Becomes(t, "asked", NoEntry)
    BY <2>1, <2>2, OneClient
  <2>4. Stage(pc[t]) \in Contract!Over
    BY <1>1, Stages DEF Arrive, Ended, Contract!Over
  <2>5. Kept' = Kept /\ now' = now
    BY <1>1 DEF Arrive, Kept
  <2>6. \E d \in Calls : call' = [call EXCEPT ![t] = d]
    BY <1>1 DEF Arrive
  <2>7. QED
    BY <2>3, <2>4, <2>5, <2>6 DEF Contract!Ask
<1>2. ASSUME NEW t \in Threads,
             LoadVariantHeaders(t) \/ OriginHeaders(t) \/ Chunk(t)
      PROVE  UNCHANGED Contract!vars
  <2>1. OtherHands(t) /\ UNCHANGED <<now, store, call>>
    BY <1>2 DEF TypeOK, OtherHands, LoadVariantHeaders, OriginHeaders, Chunk, Goto
  <2>2. pc[t] \in Asked /\ pc'[t] \in Asked
    BY <1>2 DEF TypeOK, LoadVariantHeaders, OriginHeaders, Chunk, Goto, Asked
  <2>3. Stage(pc'[t]) = "asked" /\ Stage(pc[t]) = "asked"
    BY <2>2, Stages
  <2>4. QED
    BY <2>1, <2>3, HeldOf, HeldNext, Silent
<1>3. ASSUME NEW t \in Threads, Get(t) \/ GetBase(t)
      PROVE  Contract!Find(t) \/ UNCHANGED Contract!vars
  <2>1. /\ OtherHands(t) /\ pc[t] \in {"get", "getBase"}
        /\ UNCHANGED <<now, store, call>>
    BY <1>3 DEF TypeOK, OtherHands, Get, GetBase, Hit, Miss, Goto
  <2>2. Stage(pc[t]) = "asked" /\ Held(t) = NoEntry
    BY <2>1, Stages, HeldOf DEF Asked
  <2>3. CASE pc'[t] \in {"getBase", "forward"}
    <3>1. Stage(pc'[t]) = "asked" /\ Held(t)' = NoEntry
      BY <2>3, Stages, HeldNext DEF Asked
    <3>2. QED
      BY <2>1, <2>2, <3>1, Silent
  <2>4. CASE pc'[t] \in {"learn", "serve"}
    <3>1. PICK k \in Keys : Live(k) /\ found'[t] = store[k]
      BY <2>1, <2>4, FoundIsLive
    <3>2. Stage(pc'[t]) = "found" /\ Held(t)' = AsKept(store[k], store[k].late)
      BY <2>4, <3>1, Stages, HeldNext
    <3>3. AsKept(store[k], store[k].late) \in Kept
      BY <3>1 DEF Kept, Live, TypeOK
    <3>4. Suits(call[t], AsKept(store[k], store[k].late).call, AsKept(store[k], store[k].late).answer)
      <4>1. SameVariant(call'[t], found'[t].call, found'[t].resp.vary)
        BY <2>4 DEF CacheInv, MatchInv, Replaying
      <4>2. QED
        BY <2>1, <3>1, <4>1 DEF Suits, AsKept
    <3>5. now <= AsKept(store[k], store[k].late).done
                   + Lifetime(AsKept(store[k], store[k].late).answer)
                   + AsKept(store[k], store[k].late).late
      <4>1. now <= store[k].done + Lifetime(store[k].resp) + store[k].late
        BY <3>1 DEF CacheInv, ExpiryInv, Live
      <4>2. QED
        BY <4>1 DEF AsKept
    <3>6. Contract!Becomes(t, "found", AsKept(store[k], store[k].late))
      BY <2>1, <3>2, OneClient
    <3>7. Kept' = Kept
      BY <2>1 DEF Kept
    <3>8. QED
      BY <2>1, <2>2, <3>3, <3>4, <3>5, <3>6, <3>7 DEF Contract!Find
  <2>5. QED
    BY <1>3, <2>3, <2>4 DEF TypeOK, Get, GetBase, Hit, Miss, Goto
<1>4. ASSUME NEW t \in Threads, Learn(t) PROVE UNCHANGED Contract!vars
  <2> DEFINE e == found[t]
  <2>1. /\ e \in Entries /\ Recorded(e)
        /\ SameVariant(call[t], e.call, e.resp.vary)
    BY <1>4 DEF CacheInv, TypeInv, FoundInv, MatchInv, FoundVariantInv, Replaying, Learn
  <2>2. e.resp.vary \subseteq HeaderNames
    BY <2>1, ProxyCacheAssumption DEF Entries
  <2>3. Matches(call[t], e.resp.vary, e.variant)
    BY <2>1, <2>2 DEF Matches, Recorded, VariantHeader, SameVariant
  <2>4. pc[t] = "learn" /\ pc'[t] = "serve" /\ found'[t] = found[t]
    BY <1>4, <2>3 DEF TypeOK, Learn, Goto
  <2>5. OtherHands(t) /\ UNCHANGED <<now, store, call>>
    BY <1>4, <2>3 DEF TypeOK, OtherHands, Learn, Goto
  <2>6. Stage(pc'[t]) = "found" /\ Stage(pc[t]) = "found"
    BY <2>4, Stages
  <2>7. QED
    BY <2>4, <2>5, <2>6, HeldOf, HeldNext, Silent
<1>5. ASSUME NEW t \in Threads, Serve(t) PROVE Contract!Reply(t)
  <2>1. pc[t] = "serve" /\ found'[t] = found[t] /\ OtherHands(t)
    BY <1>5 DEF TypeOK, OtherHands, Serve, Goto
  <2>2. Stage(pc[t]) = "found" /\ Held(t) = AsKept(found[t], found[t].late)
    BY <2>1, Stages, HeldOf
  <2>3. Kept' = Kept /\ now' = now /\ call' = call
    BY <1>5 DEF Serve, Kept
  <2>4. CASE WasNotModified(call[t], found[t].resp)
    <3>1. pc'[t] = "notModified"
      BY <1>5, <2>4 DEF TypeOK, Serve, Goto
    <3>2. Stage(pc'[t]) = "not modified" /\ Held(t)' = Held(t)
      BY <2>1, <2>2, <3>1, Stages, HeldNext
    <3>3. Contract!Becomes(t, "not modified", Held(t))
      BY <2>1, <3>2, OneClient
    <3>4. Held(t).answer = found[t].resp
      BY <2>2 DEF AsKept
    <3>5. QED
      BY <2>2, <2>3, <2>4, <3>3, <3>4 DEF Contract!Reply
  <2>5. CASE ~WasNotModified(call[t], found[t].resp)
    <3>1. pc'[t] = "hit"
      BY <1>5, <2>5 DEF TypeOK, Serve, Goto
    <3>2. Stage(pc'[t]) = "replayed" /\ Held(t)' = Held(t)
      BY <2>1, <2>2, <3>1, Stages, HeldNext
    <3>3. Contract!Becomes(t, "replayed", Held(t))
      BY <2>1, <3>2, OneClient
    <3>4. QED
      BY <2>2, <2>3, <3>3 DEF Contract!Reply
  <2>6. QED
    BY <2>4, <2>5
<1>6. ASSUME NEW t \in Threads, Bypass(t) \/ Abort(t) \/ Finish(t), pc'[t] \notin Storing
      PROVE  Contract!PassOn(t)
  <2>1. /\ OtherHands(t) /\ pc[t] \in Asked
        /\ pc'[t] \in {"miss", "bypassed", "aborted"}
    BY <1>6 DEF TypeOK, OtherHands, Bypass, Abort, Finish, Goto, Asked
  <2>2. Stage(pc[t]) = "asked" /\ Stage(pc'[t]) = "passed on" /\ Held(t)' = NoEntry
    BY <2>1, Stages, HeldNext
  <2>3. Contract!Becomes(t, "passed on", NoEntry)
    BY <2>1, <2>2, OneClient
  <2>4. Kept' = Kept /\ now' = now /\ call' = call
    BY <1>6 DEF Bypass, Abort, Finish, Kept
  <2>5. QED
    BY <2>2, <2>3, <2>4 DEF Contract!PassOn
<1>7. ASSUME NEW t \in Threads, Finish(t), pc'[t] = "store" PROVE Contract!Offer(t)
  <2> DEFINE r == origin[t]
  <2>1. CacheStatus(r, stash[t].over)
    BY <1>7 DEF TypeOK, Finish, Goto
  <2>2. /\ OtherHands(t) /\ pc[t] = "body" /\ pc'[t] = "store"
        /\ finished'[t] = now /\ origin'[t] = r
    BY <1>7, <2>1 DEF TypeOK, OtherHands, Finish, Goto
  <2>3. Kept' = Kept /\ now' = now /\ call' = call
    BY <1>7 DEF Finish, Kept
  <2>4. r \in Origin(call[t])
    BY <2>1, <2>2, BadGatewayNotCacheable DEF TypeOK, CacheInv, CopyInv, Copied
  <2>5. /\ stash[t].buf = r.body /\ r.status \notin {206, 304}
    BY <1>7, <2>1, <2>2, CopyWhole DEF CacheInv, CopyInv, Finish
  <2>6. Shareable(r)
    BY <2>1, <2>5 DEF Shareable, CacheStatus
  <2> DEFINE k == [call |-> call[t], answer |-> r, copy |-> Copy(r), done |-> now,
                   late |-> 0]
  <2>7. AsKept(NewEntry(t), 0)' = k
    <3>1. stash'[t] = stash[t] /\ call'[t] = call[t]
      BY <1>7 DEF Finish
    <3>2. ~(r.cookie /\ ~CacheStatus(r, stash[t].over)) /\ finished'[t] = now /\ origin'[t] = r
      BY <2>1, <2>2
    <3>3. (r.cookie /\ ~CacheStatus(r, stash[t].over)) = FALSE
      BY <3>2
    <3>4. AsKept(NewEntry(t), 0)' =
            [call |-> call[t], answer |-> r,
             copy |-> [body |-> stash[t].buf,
                       cookie |-> r.cookie /\ ~CacheStatus(r, stash[t].over)],
             done |-> now, late |-> 0]
      BY <3>1, <3>2 DEF AsKept, NewEntry
    <3>5. QED
      BY <2>5, <3>3, <3>4 DEF Copy
  <2>8. Stage(pc[t]) = "asked" /\ Stage(pc'[t]) = "offering" /\ Held(t)' = k
    BY <2>2, <2>7, Stages, HeldNext DEF Asked
  <2>9. Contract!Becomes(t, "offering", k)
    BY <2>2, <2>8, OneClient
  <2>10. QED
    BY <2>3, <2>4, <2>6, <2>8, <2>9 DEF Contract!Offer
<1>8. ASSUME NEW t \in Threads, Admit(t), pc'[t] = "set" PROVE UNCHANGED Contract!vars
  <2>1. /\ OtherHands(t) /\ pc[t] = "store" /\ UNCHANGED <<now, store, call>>
        /\ UNCHANGED <<call[t], origin[t], stash[t], finished[t]>>
    BY <1>8 DEF TypeOK, OtherHands, Admit, Goto
  <2>2. Stage(pc[t]) = "offering" /\ Stage(pc'[t]) = "offering"
    BY <1>8, <2>1, Stages
  <2>3. AsKept(NewEntry(t), 0)' = AsKept(NewEntry(t), 0)
    BY <2>1 DEF AsKept, NewEntry
  <2>4. Held(t)' = Held(t)
    BY <2>2, <2>3, HeldOf, HeldNext
  <2>5. QED
    BY <2>1, <2>2, <2>4, Silent
<1>9. ASSUME NEW t \in Threads, StoreEntry(t) \/ (Admit(t) /\ pc'[t] # "set")
      PROVE  Contract!Keep(t)
  <2>1. OtherHands(t) /\ pc[t] \in Storing /\ pc'[t] = "miss" /\ now' = now /\ call' = call
    BY <1>9 DEF TypeOK, OtherHands, Admit, StoreEntry, Goto
  <2>2. /\ Stage(pc[t]) = "offering" /\ Held(t) = AsKept(NewEntry(t), 0)
        /\ Stage(pc'[t]) = "passed on" /\ Held(t)' = NoEntry
    BY <2>1, Stages, HeldOf, HeldNext
  <2>3. Contract!Becomes(t, "passed on", NoEntry)
    BY <2>1, <2>2, OneClient
  <2>4. Held(t).done = finished[t]
    <3>1. NewEntry(t).done = finished[t]
      BY DEF NewEntry
    <3>2. QED
      BY <2>2, <3>1, AsKeptFields
  <2>5. now \in Nat /\ finished[t] \in Nat /\ finished[t] <= now
    BY <2>1, ProxyCacheAssumption DEF TypeOK, TypeInv, ClockInv, Clocked
  <2>6. \E late \in 0..(now - Held(t).done) :
          Kept' \subseteq Kept \cup {[Held(t) EXCEPT !.late = late]}
    <3>1. CASE UNCHANGED store
      <4>1. 0 \in 0..(now - Held(t).done)
        BY <2>4, <2>5
      <4>2. Kept' = Kept
        BY <3>1 DEF Kept
      <4>3. QED
        BY <4>1, <4>2
    <3>2. CASE StoreEntry(t)
      <4> DEFINE late == NewEntry(t).late
      <4>1. origin[t] \in Responses /\ pc[t] = "set" /\ Clocked(t)
        BY <3>2, BadGatewayNotCacheable DEF TypeInv, TypeOK, StoringInv, ClockInv, StoreEntry
      <4>2. late \in 0..(now - Held(t).done)
        BY <2>4, <4>1, NewEntryClock
      <4>3. [Held(t) EXCEPT !.late = late] = AsKept(NewEntry(t), late)
        BY <2>2, AsKeptFields
      <4>4. \A k \in DOMAIN store' :
              k \in DOMAIN store /\ store'[k] \in {store[k], NewEntry(t)}
        BY <3>2 DEF TypeOK, StoreEntry
      <4>5. Kept' \subseteq Kept \cup {AsKept(NewEntry(t), late)}
        BY <4>4 DEF Kept
      <4>6. QED
        BY <4>2, <4>3, <4>5
    <3>3. QED
      BY <1>9, <3>1, <3>2 DEF Admit
  <2>7. QED
    BY <2>1, <2>2, <2>3, <2>6 DEF Contract!Keep
<1>10. ASSUME NEW k \in Keys, Evict(k) PROVE Contract!Forget
  <2>1. \A u \in Threads : Stage(pc'[u]) = Stage(pc[u]) /\ Held(u)' = Held(u)
    BY <1>10, SameHeld DEF Evict
  <2>2. Kept' \subseteq Kept
    <3>1. \A j \in DOMAIN store' : j \in DOMAIN store /\ store'[j] \in {store[j], NoEntry}
      BY <1>10 DEF TypeOK, Evict
    <3>2. QED
      BY <3>1 DEF Kept
  <2>3. QED
    BY <1>10, <2>1, <2>2 DEF Contract!Forget, Evict
<1>11. ASSUME Tick PROVE Contract!Tick
  <2>1. \A u \in Threads : Stage(pc'[u]) = Stage(pc[u]) /\ Held(u)' = Held(u)
    BY <1>11, SameHeld DEF Tick
  <2>2. QED
    BY <1>11, <2>1 DEF Contract!Tick, Tick, Kept
<1>12. ASSUME UNCHANGED vars PROVE UNCHANGED Contract!vars
  <2>1. \A u \in Threads : Stage(pc'[u]) = Stage(pc[u]) /\ Held(u)' = Held(u)
    BY <1>12, SameHeld DEF vars
  <2>2. QED
    BY <1>12, <2>1 DEF Contract!vars, vars, Kept
<1>13. ASSUME NEW t \in Threads, Arrive(t) \/ LookupStep(t) \/ StreamStep(t)
       PROVE  Contract!Next \/ UNCHANGED Contract!vars
  <2>1. CASE Finish(t)
    <3>1. pc'[t] \in {"store", "miss"}
      BY <2>1 DEF TypeOK, Finish, Goto
    <3>2. QED
      BY <1>6, <1>7, <2>1, <3>1 DEF Contract!Next
  <2>2. CASE LookupStep(t)
    BY <1>2, <1>3, <1>4, <1>5, <2>2 DEF LookupStep, Contract!Next
  <2>3. CASE Arrive(t)
    BY <1>1, <2>3 DEF Contract!Next
  <2>4. CASE OriginHeaders(t) \/ Chunk(t)
    BY <1>2, <2>4
  <2>5. CASE Bypass(t) \/ Abort(t)
    <3>1. pc'[t] \notin Storing
      BY <2>5 DEF TypeOK, Bypass, Abort, Goto
    <3>2. QED
      BY <1>6, <2>5, <3>1 DEF Contract!Next
  <2>6. CASE Admit(t) \/ StoreEntry(t)
    BY <1>8, <1>9, <2>6 DEF Contract!Next
  <2>7. QED
    BY <1>13, <2>1, <2>2, <2>3, <2>4, <2>5, <2>6 DEF StreamStep
<1>14. QED
  <2>1. CASE \E k \in Keys : Evict(k)
    BY <1>10, <2>1 DEF Contract!Next
  <2>2. CASE Tick
    BY <1>11, <2>2 DEF Contract!Next
  <2>3. CASE UNCHANGED vars
    BY <1>12, <2>3
  <2>4. QED
    BY <1>13, <2>1, <2>2, <2>3 DEF Next

LEMMA InitImplements == Init => Contract!Init
<1> SUFFICES ASSUME Init PROVE Contract!Init
  OBVIOUS
<1>1. \A u \in Threads : Stage(pc[u]) = "idle" /\ Held(u) = NoEntry
  BY Stages, HeldOf DEF Init
<1>2. Kept = {}
  BY DEF Init, Kept
<1>3. QED
  BY <1>1, <1>2 DEF Init, Contract!Init

\* For every set of requests, responses, limits and delays: as far as keys tell
\* variants apart, ServeHTTP with its two lookups, the index of names and a store
\* that drops what it likes gives out nothing that a shared cache may not.
THEOREM ImplementsSharedCache ==
  ASSUME KeyInjective
  PROVE  Spec => SharedCacheSpec
<1>1. CacheInv /\ [Next]_vars => CacheInv'
  BY CacheInvNext
<1>2. CacheInv /\ CacheInv' /\ [Next]_vars => [Contract!Next]_(Contract!vars)
  BY NextImplements
<1>3. QED
  BY CacheInvInit, InitImplements, <1>1, <1>2, PTL DEF Spec, SharedCacheSpec, Contract!Spec

=============================================================================
