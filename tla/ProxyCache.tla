----------------------------- MODULE ProxyCache -----------------------------
(***************************************************************************)
(* The response cache in front of the reverse proxy: CacheHandler of       *)
(* src/internal/proxy/cache, the Variant it keys responses by, the         *)
(* CacheableResponse that records a response while it is streamed, and the *)
(* MemoryCache the records are kept in.                                    *)
(*                                                                         *)
(* Every HTTP request runs ServeHTTP in a goroutine of its own (Threads).  *)
(* The goroutines share two things only: the memory cache (store, which    *)
(* locks inside ristretto) and varyIndex (guarded by varyIndexMu).  Each   *)
(* access to one of them is an action of its own here, so every            *)
(* interleaving of concurrent requests is a behaviour.                     *)
(***************************************************************************)
EXTENDS Integers, Sequences, FiniteSets, Functions, SequencesExt

CONSTANTS
  Threads,        \* the goroutines that serve requests
  Calls,          \* the requests clients may send (records, see CallType)
  Responses,      \* the responses the application may give (see ResponseType)
  Origin(_),      \* Origin(c): the subset of Responses it may give to call c
  HeaderOrder,    \* the request header names Vary may list, in slices.Sort order
  HeaderValues,   \* values of those headers, as token sequences; <<>> when absent
  Hash(_),        \* FNV-64 of the bytes written to it
  BodyLimit,      \* maxBodySize of the handler
  MaxItemSize,    \* MemoryCache.maxItemSize
  Capacity,       \* MemoryCache.capacity
  Overhead,       \* bytes gob adds to a body when a response is encoded
  MaxTime,        \* bound on the clock
  NoEntry,        \* "not in the cache"
  NoEtag          \* a response without an Etag header

HeaderNames == Range(HeaderOrder)
GET  == <<"GET">>
HEAD == <<"HEAD">>

ASSUME ProxyCacheAssumption ==
  /\ \A c \in Calls : Origin(c) \subseteq Responses
  /\ \A c \in Calls : c.headers \in [HeaderNames -> HeaderValues]
  /\ \A r \in Responses :
       /\ r.vary \subseteq HeaderNames
       /\ r.sMaxAge \in Nat \cup {-1}
       /\ r.maxAge \in Nat \cup {-1}
       /\ r.body \in Seq(Nat)
       /\ r.cookie \in BOOLEAN
  /\ BodyLimit \in Nat \ {0} /\ MaxItemSize \in Nat \ {0}   \* proxy.go: all three
  /\ Capacity \in Nat \ {0} /\ Overhead \in Nat             \* limits are positive
  /\ MaxTime \in Nat

\* The application speaks HTTP: a part of a body answers a Range request only,
\* and "not modified" answers a conditional request only.
ASSUME OriginIsHTTP ==
  \A c \in Calls : \A r \in Origin(c) :
    /\ r.status = 206 => c.range
    /\ r.status = 304 => c.etags # {}

\* What proxyErrorHandler writes when the application cannot be reached: no
\* caching headers at all, so CacheStatus refuses it by its status.
BadGateway ==
  [status |-> 502, vary |-> {}, varyStar |-> FALSE, public |-> FALSE,
   noCache |-> FALSE, sMaxAge |-> -1, maxAge |-> -1, etag |-> NoEtag,
   cookie |-> FALSE, body |-> <<>>]

-----------------------------------------------------------------------------
(***************************************************************************)
(* Variant                                                                 *)
(***************************************************************************)

\* The bytes CacheKey writes to the hash: back to back, with no separator.
Preimage(c, ns) ==
  c.method \o c.path \o c.query \o c.host \o
  FlattenSeq([i \in DOMAIN HeaderOrder |->
                LET n == HeaderOrder[i]
                IN  IF n \in ns THEN <<n, "=">> \o c.headers[n] ELSE <<>>])

CacheKey(c, ns) == Hash(Preimage(c, ns))
BaseKey(c) == CacheKey(c, {})
Keys == {CacheKey(c, ns) : c \in Calls, ns \in SUBSET HeaderNames}

\* Mutated form: headers the response does not vary by have no value at all.
SparseVariantHeader(c, ns) == [n \in ns |-> c.headers[n]]

\* The values of the named headers; the others are left out (empty).
VariantHeader(c, ns) ==
  [n \in HeaderNames |-> IF n \in ns THEN c.headers[n] ELSE <<>>]

Matches(c, ns, variantHeader) ==
  \A n \in ns : variantHeader[n] = c.headers[n]

-----------------------------------------------------------------------------
(***************************************************************************)
(* Which requests and responses are cacheable                              *)
(***************************************************************************)

ShouldCacheRequest(c) == c.method \in {GET, HEAD} /\ ~c.upgrade /\ ~c.range

Lifetime(r) == IF r.sMaxAge # -1 THEN r.sMaxAge ELSE r.maxAge

\* Mutated form: any redirection may be kept, "not modified" too.
WideCacheStatus(r, overflowed) ==
  /\ ~overflowed
  /\ r.status \in 200..399
  /\ ~r.varyStar
  /\ r.public /\ ~r.noCache
  /\ Lifetime(r) > 0

CacheStatus(r, overflowed) ==
  /\ ~overflowed
  /\ r.status \in 200..399 /\ r.status # 304
  /\ ~r.varyStar
  /\ r.public /\ ~r.noCache
  /\ Lifetime(r) > 0

WasNotModified(c, r) == r.etag # NoEtag /\ r.etag \in c.etags

\* stashingWriter: one chunk is kept if it still fits, and the first one that
\* does not marks the whole copy as incomplete.
EmptyStash == [buf |-> <<>>, over |-> FALSE]

\* Mutated form: a later chunk that fits clears the mark again.
ForgetfulStashWrite(s, chunk) ==
  IF SumFunction(s.buf) + chunk > BodyLimit
  THEN [s EXCEPT !.over = TRUE]
  ELSE [s EXCEPT !.buf = Append(@, chunk), !.over = FALSE]

StashWrite(s, chunk) ==
  IF SumFunction(s.buf) + chunk > BodyLimit
  THEN [s EXCEPT !.over = TRUE]
  ELSE [s EXCEPT !.buf = Append(@, chunk)]

-----------------------------------------------------------------------------
VARIABLES
  now,        \* the clock, in seconds
  store,      \* the memory cache: Keys -> entry or NoEntry
  varyIndex,  \* Keys -> the Vary names remembered for a base key; {} when none
  pc,         \* Threads -> where ServeHTTP is, or how its last call ended
  call,       \* Threads -> the request being served
  names,      \* Threads -> variant.headerNames
  round,      \* Threads -> 1 in the first fetchFromCache, 2 in the second
  found,      \* Threads -> the entry fetchFromCache returned, or NoEntry
  origin,     \* Threads -> the response being streamed
  sent,       \* Threads -> how many chunks of it were written
  stash,      \* Threads -> the copy kept of it
  finished,   \* Threads -> when CacheStatus read the clock
  checked     \* Threads -> when MemoryCache.Set did

vars == <<now, store, varyIndex, pc, call, names, round, found, origin, sent,
          stash, finished, checked>>
shared == <<now, store, varyIndex>>
lookup == <<names, round, found>>
stream == <<origin, sent, stash, finished, checked>>

Ended == {"idle", "hit", "notModified", "miss", "bypassed", "aborted"}
Looking == {"load", "get", "getBase", "learn", "serve"}
Storing == {"store", "set"}
Working == Looking \cup {"forward", "body"} \cup Storing

Never == -1     \* ristretto: an item set with a zero TTL never expires

Entries ==
  [resp : Responses, call : Calls, variant : [HeaderNames -> HeaderValues \cup {<<>>}],
   body : Seq(Nat), cookie : BOOLEAN, until : Nat \cup {Never},
   done : Nat,   \* history: the end of the transfer
   late : Nat]   \* history: how long MemoryCache.Set took after it had read the clock

TypeOK ==
  /\ now \in 0..MaxTime
  /\ store \in [Keys -> Entries \cup {NoEntry}]
  /\ varyIndex \in [Keys -> SUBSET HeaderNames]
  /\ pc \in [Threads -> Ended \cup Working]
  /\ call \in [Threads -> Calls]
  /\ names \in [Threads -> SUBSET HeaderNames]
  /\ round \in [Threads -> 1..2]
  /\ found \in [Threads -> Entries \cup {NoEntry}]
  /\ origin \in [Threads -> Responses \cup {BadGateway}]
  /\ sent \in [Threads -> Nat]
  /\ stash \in [Threads -> [buf : Seq(Nat), over : BOOLEAN]]
  /\ finished \in [Threads -> 0..MaxTime]
  /\ checked \in [Threads -> 0..MaxTime]

Init ==
  /\ now = 0
  /\ store = [k \in Keys |-> NoEntry]
  /\ varyIndex = [k \in Keys |-> {}]
  /\ pc = [t \in Threads |-> "idle"]
  /\ call \in [Threads -> Calls]
  /\ names = [t \in Threads |-> {}]
  /\ round = [t \in Threads |-> 1]
  /\ found = [t \in Threads |-> NoEntry]
  /\ origin = [t \in Threads |-> BadGateway]
  /\ sent = [t \in Threads |-> 0]
  /\ stash = [t \in Threads |-> EmptyStash]
  /\ finished = [t \in Threads |-> 0]
  /\ checked = [t \in Threads |-> 0]

-----------------------------------------------------------------------------
(***************************************************************************)
(* ServeHTTP: the lookup                                                   *)
(***************************************************************************)

\* ristretto's Get: an item is returned up to and including its expiration.
Live(k) == store[k] # NoEntry /\ (store[k].until = Never \/ now <= store[k].until)

Goto(t, label) == pc' = [pc EXCEPT ![t] = label]

\* Mutated form: the names are remembered under the key of the variant.
MisfiledRemember(t, ns) ==
  varyIndex' = [varyIndex EXCEPT ![CacheKey(call[t], ns)] = ns]

\* rememberVariantHeaders: an empty list deletes the index entry.
Remember(t, ns) == varyIndex' = [varyIndex EXCEPT ![BaseKey(call[t])] = ns]

\* A client's request, in a goroutine with nothing but fresh locals.
Arrive(t) ==
  /\ pc[t] \in Ended
  /\ \E c \in Calls : call' = [call EXCEPT ![t] = c]
  /\ names' = [names EXCEPT ![t] = {}]
  /\ round' = [round EXCEPT ![t] = 1]
  /\ found' = [found EXCEPT ![t] = NoEntry]
  /\ origin' = [origin EXCEPT ![t] = BadGateway]
  /\ sent' = [sent EXCEPT ![t] = 0]
  /\ stash' = [stash EXCEPT ![t] = EmptyStash]
  /\ finished' = [finished EXCEPT ![t] = 0]
  /\ checked' = [checked EXCEPT ![t] = 0]
  /\ Goto(t, "load")
  /\ UNCHANGED shared

\* fetchFromCache, first half: names remembered for the base key replace the
\* ones the variant has; without any, the variant keeps its own.
LoadVariantHeaders(t) ==
  /\ pc[t] = "load"
  /\ LET ns == varyIndex[BaseKey(call[t])]
     IN  names' = [names EXCEPT ![t] = IF ns # {} THEN ns ELSE @]
  /\ Goto(t, "get")
  /\ UNCHANGED <<shared, call, round, found, stream>>

\* A lookup under key k that returned the entry.
Hit(t, k) ==
  /\ Live(k)
  /\ found' = [found EXCEPT ![t] = store[k]]
  /\ Goto(t, IF round[t] = 1 THEN "learn" ELSE "serve")

\* fetchFromCache returned nothing.
Miss(t) ==
  /\ found' = [found EXCEPT ![t] = NoEntry]
  /\ Goto(t, "forward")

Get(t) ==
  /\ pc[t] = "get"
  /\ LET k == CacheKey(call[t], names[t])
     IN  \/ Hit(t, k)
         \/ ~Live(k) /\ k # BaseKey(call[t]) /\ Goto(t, "getBase") /\ UNCHANGED found
         \/ ~Live(k) /\ k = BaseKey(call[t]) /\ Miss(t)
  /\ UNCHANGED <<shared, call, names, round, stream>>

GetBase(t) ==
  /\ pc[t] = "getBase"
  /\ LET k == BaseKey(call[t])
     IN  Hit(t, k) \/ (~Live(k) /\ Miss(t))
  /\ UNCHANGED <<shared, call, names, round, stream>>

LookAgain(t) == Goto(t, "load") /\ round' = [round EXCEPT ![t] = 2]

\* After the first hit: the names are taken from the cached response and
\* remembered; a response for another variant sends the request back to look
\* once more, and what the second lookup returns is served as it is.
Learn(t) ==
  /\ pc[t] = "learn"
  /\ LET ns == found[t].resp.vary
     IN  /\ names' = [names EXCEPT ![t] = ns]
         /\ Remember(t, ns)
         /\ IF Matches(call[t], ns, found[t].variant)
            THEN Goto(t, "serve") /\ UNCHANGED round
            ELSE LookAgain(t)
  /\ UNCHANGED <<now, store, call, found, stream>>

\* WriteCachedResponse
Serve(t) ==
  /\ pc[t] = "serve"
  /\ Goto(t, IF WasNotModified(call[t], found[t].resp) THEN "notModified" ELSE "hit")
  /\ UNCHANGED <<shared, call, lookup, stream>>

-----------------------------------------------------------------------------
(***************************************************************************)
(* ServeHTTP: the request is passed on to the reverse proxy                *)
(***************************************************************************)

\* The proxy streams the application's answer without recording it.
Bypass(t) ==
  /\ pc[t] = "forward" /\ ~ShouldCacheRequest(call[t])
  /\ Goto(t, "bypassed")
  /\ UNCHANGED <<shared, call, lookup, stream>>

\* The application's headers arrive, or the error handler answers in its place.
OriginHeaders(t) ==
  /\ pc[t] = "forward" /\ ShouldCacheRequest(call[t])
  /\ \E r \in Origin(call[t]) \cup {BadGateway} : origin' = [origin EXCEPT ![t] = r]
  /\ Goto(t, "body")
  /\ UNCHANGED <<shared, call, lookup, sent, stash, finished, checked>>

Chunk(t) ==
  /\ pc[t] = "body" /\ sent[t] < Len(origin[t].body)
  /\ sent' = [sent EXCEPT ![t] = @ + 1]
  /\ stash' = [stash EXCEPT ![t] = StashWrite(@, origin[t].body[sent[t] + 1])]
  /\ UNCHANGED <<shared, pc, call, lookup, origin, finished, checked>>

\* Reading from the application or writing to the client fails halfway: the
\* reverse proxy panics with ErrAbortHandler and ServeHTTP never comes back.
Abort(t) ==
  /\ pc[t] = "body" /\ origin[t] # BadGateway
  /\ Goto(t, "aborted")
  /\ UNCHANGED <<shared, call, lookup, stream>>

\* The body is complete.  CacheStatus decides; for a cacheable response the
\* names of its Vary header are remembered before it is stored.
Finish(t) ==
  /\ pc[t] = "body" /\ sent[t] = Len(origin[t].body)
  /\ IF CacheStatus(origin[t], stash[t].over)
     THEN /\ names' = [names EXCEPT ![t] = origin[t].vary]
          /\ Remember(t, origin[t].vary)
          /\ finished' = [finished EXCEPT ![t] = now]
          /\ Goto(t, "store")
     ELSE Goto(t, "miss") /\ UNCHANGED <<names, varyIndex, finished>>
  /\ UNCHANGED <<now, store, call, round, found, origin, sent, stash, checked>>

ExpiresAt(t) == finished[t] + Lifetime(origin[t])
ItemSize(t) == Overhead + SumFunction(stash[t].buf)
Fits(t) == ItemSize(t) <= MaxItemSize /\ ItemSize(t) <= Capacity

\* Mutated form: a response that expires this very moment is still set.
LaxAdmissible(t) == Fits(t) /\ ExpiresAt(t) >= now

Admissible(t) == Fits(t) /\ ExpiresAt(t) > now

\* MemoryCache.Set refuses an encoded response that is too large, or that has expired
\* by the time it reads the clock.
Admit(t) ==
  /\ pc[t] = "store"
  /\ checked' = [checked EXCEPT ![t] = now]
  /\ Goto(t, IF Admissible(t) THEN "set" ELSE "miss")
  /\ UNCHANGED <<shared, call, lookup, origin, sent, stash, finished>>

\* What was left of its lifetime then.
Ttl(t) == ExpiresAt(t) - checked[t]

\* ristretto counts that from a time it reads itself.
NewEntry(t) ==
  [resp |-> origin[t], call |-> call[t],
   variant |-> VariantHeader(call[t], names[t]),
   body |-> stash[t].buf,
   cookie |-> origin[t].cookie /\ ~CacheStatus(origin[t], stash[t].over),   \* ToBuffer
   until |-> IF Ttl(t) = 0 THEN Never ELSE now + Ttl(t),
   done |-> finished[t],
   late |-> now - checked[t]]

\* Mutated form: the key of the lookup is not computed anew.
StaleStoreKey(t) == BaseKey(call[t])

\* The key of the variant as the response's own Vary header defines it.
StoreKey(t) == CacheKey(call[t], names[t])

\* ristretto's SetWithTTL, which may turn any item down.
StoreEntry(t) ==
  /\ pc[t] = "set"
  /\ \/ store' = [store EXCEPT ![StoreKey(t)] = NewEntry(t)]
     \/ UNCHANGED store
  /\ Goto(t, "miss")
  /\ UNCHANGED <<now, varyIndex, call, lookup, stream>>

-----------------------------------------------------------------------------
(***************************************************************************)
(* The environment                                                         *)
(***************************************************************************)

\* ristretto drops an item to make room, or because it has expired.
Evict(k) ==
  /\ store[k] # NoEntry
  /\ store' = [store EXCEPT ![k] = NoEntry]
  /\ UNCHANGED <<now, varyIndex, pc, call, lookup, stream>>

Tick ==
  /\ now < MaxTime
  /\ now' = now + 1
  /\ UNCHANGED <<store, varyIndex, pc, call, lookup, stream>>

LookupStep(t) ==
  LoadVariantHeaders(t) \/ Get(t) \/ GetBase(t) \/ Learn(t) \/ Serve(t)

StreamStep(t) ==
  \/ Bypass(t) \/ OriginHeaders(t) \/ Chunk(t) \/ Abort(t) \/ Finish(t)
  \/ Admit(t) \/ StoreEntry(t)

Next ==
  \/ \E t \in Threads : Arrive(t) \/ LookupStep(t) \/ StreamStep(t)
  \/ \E k \in Keys : Evict(k)
  \/ Tick

Spec == Init /\ [][Next]_vars

-----------------------------------------------------------------------------
(***************************************************************************)
(* Properties                                                              *)
(***************************************************************************)

SameVariant(c, d, ns) ==
  /\ c.method = d.method /\ c.path = d.path /\ c.query = d.query /\ c.host = d.host
  /\ \A n \in ns : c.headers[n] = d.headers[n]

\* The key tells variants apart: two requests share a key only if the headers the
\* key was made of, and everything else in it, are the same.
KeyInjective ==
  \A c, d \in Calls : \A ns, ms \in SUBSET HeaderNames :
    CacheKey(c, ns) = CacheKey(d, ms) => SameVariant(c, d, ns \cup ms)

\* A client is only ever served from the cache what the application answered to
\* a request for the same resource with the same values of all the headers that
\* answer varies by, although ServeHTTP compares the headers after the first
\* lookup only, looks once more with whatever names other requests have put
\* into varyIndex in the meantime, and falls back to the base key.  It holds as
\* far as the key tells variants apart (KeyInjective).
HitMatchesVariant ==
  \A t \in Threads : pc[t] \in {"serve", "hit", "notModified"} =>
    SameVariant(call[t], found[t].call, found[t].resp.vary)

\* A lookup returns a response past its lifetime, counted from the end of the transfer,
\* by as long at most as Set took between its own reading of the clock and ristretto's;
\* however long ServeHTTP pauses before, between CacheStatus and Set, does not count.
\* (An item with no time left would be kept for ever by ristretto.)
HitIsFresh ==
  [][\A t \in Threads :
       pc[t] \in {"get", "getBase"} /\ pc'[t] \in {"learn", "serve"} =>
         now <= found'[t].done + Lifetime(found'[t].resp) + found'[t].late]_vars

\* What is stored can be replayed to anyone: it has the whole body (never a copy
\* with a hole where a chunk did not fit, or one cut off by an aborted transfer),
\* it is not an answer to one client's Range or conditional request, and it
\* sets no cookie.
StoredIsWhole ==
  \A k \in Keys : store[k] # NoEntry =>
    /\ store[k].body = store[k].resp.body
    /\ store[k].resp.status \notin {206, 304}
    /\ ~store[k].cookie

\* While every resource sticks to one Vary header, no stored response is out of
\* reach: the request it was stored for finds it again, by the names in
\* varyIndex or under the base key, at every moment after it was stored.
StoredIsReachable ==
  \A k \in Keys : store[k] # NoEntry =>
    LET c == store[k].call
    IN  k \in {BaseKey(c), CacheKey(c, varyIndex[BaseKey(c)])}

-----------------------------------------------------------------------------
(***************************************************************************)
(* ProxyCache as a shared cache.  An answer is kept from the moment it is  *)
(* stored, and offered from the moment CacheStatus has accepted it; that a *)
(* lookup has several steps, and that names of headers are remembered and  *)
(* forgotten between them, is not seen in SharedCache.                     *)
(***************************************************************************)

Shareable(r) ==
  r.public /\ ~r.noCache /\ ~r.varyStar /\ r.status \notin {206, 304} /\ Lifetime(r) > 0

Suits(c, d, r) == SameVariant(c, d, r.vary)

\* All of the body, and no cookie.
Copy(r) == [body |-> r.body, cookie |-> FALSE]

AsKept(e, late) ==
  [call |-> e.call, answer |-> e.resp, copy |-> [body |-> e.body, cookie |-> e.cookie],
   done |-> e.done, late |-> late]

Stage(label) ==
  CASE label = "idle" -> "idle"
    [] label \in {"load", "get", "getBase", "forward", "body"} -> "asked"
    [] label \in {"learn", "serve"} -> "found"
    [] label = "hit" -> "replayed"
    [] label = "notModified" -> "not modified"
    [] label \in Storing -> "offering"
    [] OTHER -> "passed on"

Held(t) ==
  CASE Stage(pc[t]) \in {"found", "replayed", "not modified"} ->
         AsKept(found[t], found[t].late)
    [] Stage(pc[t]) = "offering" -> AsKept(NewEntry(t), 0)
    [] OTHER -> NoEntry

Kept ==
  {AsKept(store[k], store[k].late) : k \in {k \in DOMAIN store : store[k] # NoEntry}}

Contract == INSTANCE SharedCache WITH
  Clients <- Threads,
  Answers <- Origin,
  Has <- WasNotModified,
  Nothing <- NoEntry,
  clock <- now,
  kept <- Kept,
  stage <- [t \in Threads |-> Stage(pc[t])],
  asked <- call,
  answer <- [t \in Threads |-> Held(t)]

\* Whatever the cache replays, or answers with "not modified", the application has
\* given, whole, for everyone and no longer ago than its lifetime (and the time it took
\* to store it), to a request of the same variant; what it was asked for first is what
\* it answers last.  It holds as far as the key tells variants apart (KeyInjective).
SharedCacheSpec == Contract!Spec

=============================================================================
