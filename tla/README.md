# thrustOauth2idServer: specifications

thrustOauth2idServer is a Go server put in front of a Rails application: it
terminates HTTP and HTTPS, forwards what it does not serve itself through a
caching reverse proxy, starts and stops the Rails server as a child process, and
offers a small JSON API on the application's `users` table through a cache of
its own. This directory holds TLA+ models of the parts that have state, the TLC
configurations that check them, and proofs for TLAPS. Paths below are relative
to `src/`.

## The system

| part | state | operations | how it interacts |
|---|---|---|---|
| response cache, `internal/proxy/cache` | the memory cache, `varyIndex`, one recording writer per request | `CacheHandler.ServeHTTP`, `Variant.CacheKey`, `CacheableResponse.Write`, `MemoryCache.Get/Set` | one goroutine per request; wraps the reverse proxy |
| reverse proxy, `internal/proxy/reverse_proxy.go` | none | `NewReverseProxy`, `proxyErrorHandler` | called by the response cache, calls the Rails server |
| sendfile handler, `internal/proxy/sendfile.go` | one writer per request | `WriteHeader`, `Write` | wraps the response cache |
| proxy wiring, `internal/routers/proxy.go` | none | chooses the target, stacks the handlers | at start |
| users dao, `internal/dao/users.go` | the table, the cache entries, the singleflight group | get, update, delete, create, query; by id, by ids, in a caller's transaction | one goroutine per API call; shares the table with Rails |
| users cache adapter, `internal/cache/users.go` | entries and placeholders with a TTL | `Set`, `MultiSet`, `Get`, `MultiGet`, `Del`, `SetPlaceholder` | called by the dao |
| users handlers, `internal/handler/users.go` | none | nine handlers, one dao call each; the code of the reply | called by the router |
| routers and session check, `internal/routers` | the list of registrations in gin | `NewRouter`, `usersRouter`, `VerifyRailsSessionUserIdIs` | at start; then gin calls the chain of a route |
| http middleware, `internal/server/httpmiddleware` | the recorder of a response | `Wrap` and its layers | around the router |
| http service, `internal/server/http.go` | one or two `http.Server`s, `errCh` | `NewHTTPServer` with its redirect; `Start`, `Stop`, `shutdownListenersOnStartError` | run by the application runtime |
| upstream supervisor, `internal/upstream/server.go` | `cmd`, `done`, `stopping`, the child process | `Start`, `Stop` | run by the application runtime |
| application lifecycle, `cmd/thrustOauth2idServer` | the list of services and of closes | `InitApp`, `CreateServices`, `Close` | calls the services' `Start` and `Stop` |
| the rest | database and cache clients, configuration, generated code | | once at start |

What is hard in it, and what makes each part correct:

- *Response cache.* `ServeHTTP` looks a request up at most twice, with names of
  `Vary` headers that other requests may replace between any two of its steps,
  compares the headers after the first lookup only, and stores under a key
  computed after the answer has arrived. It is correct if no client is ever
  given a response meant for other header values, if nothing is found past its
  lifetime (the time it takes to be stored apart), if only whole responses that suit
  everybody are stored, and if what is
  stored can be found again.
- *Users dao and API.* Classic cache-aside: a read fills the cache later than it reads
  the table, and invalidation is a step after the write, inside a transaction
  even a step before it; a load runs under the context of one request and
  answers many. It cannot be coherent at all times; it is correct if
  readers have a stale table before them, and nothing worse (rows the table has held,
  none that comes back once out of circulation), if
  every write path does its share of the mending, if staleness ends when the
  entries expire, if one request loads for all who miss the same id, if
  none of those waits in vain, and if the reply says what has happened.
- *Upstream supervisor and http service.* `Start` runs in one goroutine and
  `Stop` in another, at any moment, also before `Start` has got anywhere. They are
  correct if after `Stop` no request is taken and no process runs, if `Start` tells
  a crash from a stop, if both return, and if a failed half takes down the
  other.
- *Response writers.* A response passes up to five writers, each with its own idea
  of the status and of whether the header has been written, three of which may answer
  in place of the one before. They are correct if the client gets what the
  application meant, from the cache as from the application, as far as `http.ServeFile`
  serves the path it asked for, and the log says so.
- *Start-up.* The reverse proxy picks the address it dials, and the child process is
  told where to listen, in three files with a default in each, while
  `CreateServices` changes the configuration in between. It is correct if the two
  meet, and if the command line is cut into the words it was written for.
- *Front door.* Which layers a request passes follows from the order of calls in
  `NewRouter` and `Wrap`, from gin's own redirects, and from the two listeners,
  whose handlers are exchanged when TLS is on; a client that is redirected comes in
  again by another port. It is correct if nobody but the configured user
  reaches the users API, if no layer is passed twice or not at all, if nothing is
  answered in clear that should not be, and if a redirect leads to where the
  request would have got directly.
- *Paging.* Each page is a query of its own, between which rows come and go. It
  is correct if no row that stays is skipped or given twice, and if the walk ends.

`PROJECT.json` lists every hazard with its line and the properties that watch
over it, and for every definition the lines it models.

## Modules

```
module            used by
SharedCache       ProxyCache, which instantiates it as Contract
ProxyCache        MCProxyCache, ProxyCacheProofs
StaleTable        UsersDao, which instantiates it as Table
UsersDao          UsersApi, MCUsersDao
UsersApi          MCUsersApi, UsersProofs (about the dao and the API)
Upstream          MCUpstream, UpstreamProofs; instantiated by Lifecycle as Up
HttpServer        Lifecycle
Lifecycle         MCLifecycle, LifecycleProofs (about HttpServer too; uses UpstreamProofs)
ResponseWriters   MCResponseWriters, ResponseWritersProofs
FrontDoor         MCFrontDoor, FrontDoorProofs
Launch            MCLaunch, LaunchProofs
Paging            MCPaging, PagingProofs
```

`Lifecycle` extends `HttpServer` and instantiates `Upstream` (as `Up`); `UsersApi` extends
`UsersDao`, whose steps are among its own. The proof
modules extend the component, not the MC module. In every component
`pc`-like variables say which round trip, critical section or system call comes
next; between two of them anybody may run. Definitions introduced as *mutated
form* are not part of the model: each is a plausible bug in the definition next to
it, used to see that a property notices.

### ProxyCache

`Threads` are the goroutines in `ServeHTTP`. They share `store` (ristretto, which
locks internally) and `varyIndex` (under `varyIndexMu`); every access to either
is an action.

| code | model |
|---|---|
| `NewVariant`, entry of `ServeHTTP` | `Arrive` |
| `fetchFromCache`: `loadVariantHeaders`, `cache.Get` twice | `LoadVariantHeaders`, `Get`, `GetBase` (`Hit`, `Miss`) |
| `SetResponseHeader`, `rememberVariantHeaders`, `Matches`, the second `fetchFromCache` | `Learn` (`Remember`, `Matches`, `LookAgain`) |
| `WriteCachedResponse` | `Serve` |
| `shouldCacheRequest` false | `Bypass` |
| response headers, `Write` and the stashing writer | `OriginHeaders`, `Chunk` (`StashWrite`) |
| `ReverseProxy` panicking halfway | `Abort` |
| `CacheStatus` and the second `rememberVariantHeaders` | `Finish` |
| `MemoryCache.Set` up to its reading of the clock | `Admit` (`Admissible`, `ExpiresAt`) |
| `ToBuffer`, the rest of `MemoryCache.Set` with ristretto's own reading | `StoreEntry` (`NewEntry`, `Ttl`) |
| eviction, expiry, the clock | `Evict`, `Tick` |

Header values are short sequences of tokens, so that the key keeps what matters
of `Variant.CacheKey`: it writes its parts to the hash back to back
(`Preimage`). The hash is a parameter; the runs use the text itself, a hash without
collisions, and the theorems that need an injective key
say so by `KeyInjective`, which `MCProxyCache` assumes of the requests of both passing
runs, for TLC to confirm. A response is a record of what `CacheStatus` reads:
status, `Vary`, the directives of `Cache-Control`, lifetimes, `Etag`, cookie,
and the body as chunk sizes. `call`, `done` and `late` of an entry are history: the
program does not keep which request an entry answers, when it was complete, nor how long
`Set` took. `Set` turns the time of expiry into a time to live by its own clock
(`memory_cache_sponge.go:61`), and `SetWithTTL` turns that into a deadline by a later
reading; a goroutine that pauses between the two (`late`) prolongs the life of the item by
the pause, so the comment "when present and not expired" (line 92) is true up to that.

`SharedCache` is what an HTTP cache may do: find a kept answer that suits the request and
is within its lifetime, and replay it or say that it has not been modified; or pass the
request on, and keep the answer for others, whole and without its cookies, if it is for
everyone. `ProxyCache` implements it (`Contract`) with the stored entries for the kept
answers (`Kept`),
the names of `Stage` for its labels, and for what a client has in hand (`Held`) the entry
found or the one about to be stored. The two lookups and `varyIndex` are not seen there.
What is kept stays `late` longer than its lifetime.

### UsersDao

`Clients` are the goroutines of API calls, `cache` has for every id a row, a
placeholder or nothing, `flight` is the singleflight group. Rows are versions.
One action per round trip: `CacheGet`, `EnterFlight`, `Load`, `Fill`, `Land` for
`GetByID`; `MultiGet`, `Probe` (a turn of the loop over missed ids), `Find`,
`MultiSet`, `SetPlaceholder` for `GetByIDs`; `Count`, `Query` for the three queries
that pass by the cache; `Write`, `Invalidate` for the
writers; `WriteInTx`, `Invalidate`, `Commit` for the methods that take a
transaction, where the deletion of the entry comes before the commit. `Expire` is the
TTL of an entry, `ExternalWrite` a write of the Rails application. Any round
trip may fail, by itself (`DbFails`, `CacheFails`) or because the request's context is
done (`Cancel`; a load fails with its leader's, and so does everyone who
joined it); a failed statement may have taken effect. `read` and `err` are what the method
returns. `raced` is a history
variable: the ids whose entry became, or was left, stale in one of the ways the
scheme allows.

`StaleTable` says what callers may count on: for every id a set of rows in
circulation, which always has the committed one and grows by nothing else; a method
returns rows of it. `UsersDao` implements it (`Table`) with `Known(i)`, the
committed row, the row of the cache entry and what requests under way have read, for
the rows in circulation, and `Told(c)`, what the last call of a client has returned
unless it failed, for what its caller has been told. That the actions are many
steps, that loads are shared and entries put, deleted and expired in any order, is not
seen there.

### UsersApi

Extends `UsersDao`. Each of the nine handlers is an action that calls the dao
(`Ask`): `Create`, `DeleteByID`, `UpdateByID`, `GetByID`, `List`, `DeleteByIDs`,
`GetByCondition`, `ListByIDs`, `ListByLastID`. `Work` is a step of the dao or of its
surroundings; when a method returns its handler replies with `Code`, which follows
the handlers' `errors.Is(err, ErrNotFound)` and nothing else. `doomed` is
history: the ids a request is to delete that had been handed out when it came.

### Upstream

Two goroutines and a process. `Start`: `Prepare`, `Publish` (the critical section
that sets `cmd` and `done` and clears `stopping`), `Fork` and `SetProcess` (the
two halves of `cmd.Start`: the process exists before `cmd.Process` is assigned),
`Wait`, `ReadStopping`, then the deferred `CloseDone` and `Clear`. `Stop`: `Lock`,
`Check` (reads `cmd.Process`, without the mutex), `Signal`, `Await`, `Timeout`,
`Kill`, `AwaitKilled`. `Exit` is the process. A process that has exited stays a
zombie that can be signalled until `Wait` has reaped it; after that `os.Process`
answers "process already finished". The read of `cmd.Process` races its assignment; both outcomes
are behaviours here.

### HttpServer

The goroutines in `listenAndServe` (one per server), the one in `Start` that
receives from `errCh`, and the one in `Stop`. Go's `http.Server` is external and
reduced to what they can tell. `Listen` looks whether the server is shut down, `Open` is
the port and the registration of its listener in `Serve`, which refuses it if the server
has been shut down in the meantime: until then the port is open though nobody takes
connections off it. `Closed` and `Break` end `Serve`; `CloseServer` marks a server and
closes its listener, and the second half of `Shutdown` (`ShutdownListeners`, `StopDrain`)
waits for `Serve` to return and then for requests under way, or for the one context of
`Stop` to expire. `conn` is one connection per server: a request, or one that was hijacked
for an upgrade, which `Shutdown` neither waits for nor closes. `tlsEnabled` is a variable
that never changes, so that one run and one proof cover both set-ups.

### Lifecycle

`main`: both services run their `Start`, and the runtime of the application calls the
closes that `Close` has listed, one after another. `HttpStep` and `UpstreamStep` are the
steps of the two modules above, `Shutdown` and `StopUpstream` the calls of their
`Stop`, `CloseResources` the closes of database, cache, tracing and logger. The
runtime is a library: it may call the first close at any moment (a signal, a
service that fails to start), and after a close that returned an error it may go on
or give up (`GiveUp`).

### ResponseWriters

`w` holds the fields of all writers of one response and what the client has got.
A call of `WriteHeader` or `Write` is an operator on it that makes the calls further
down: `CopyHeaders` (`CacheableResponse`), `SendfileWriteHeader`, `SendfileWrite`,
then gin's writer, then `RecorderWriteHeader`, `RecorderWrite`. The actions are the
calls of the reverse proxy (`Inform`, `Respond`, `Write`, `Flush`, `Hijack`, and `Break`
for a transfer that fails), `Replay` for a response from the cache, `Finish`
for storing one, and gin after the handler (`Complete`, `Panic`). Gin, the
reverse proxy and `http.ServeFile` are external; the latter looks at the path of the
request before it looks for the file, and redirects `/index.html` (301) and refuses `..`
(400). Every request may be answered by a hit, an upgrade or a range too, because
`CacheHandler` looks it up before it asks whether it is cacheable (`Arrive`). gin keeps the
status back until
something is written and calls the handlers of `NoRoute` with 404 set, so an empty
404 of the application is given a page.

### FrontDoor

`Registered` is `NewRouter` as a list of its calls: `Use` for `r.Use` (on the engine or
on the users group), `Route` for a method and a path, `Group` where `usersRouter` opens
its group; what the configuration turns off is not in the list. gin is external and
reduced to what it makes of such a list: the chain of a route is the middlewares of
its scope registered *before* it (`Inherited`, `Chain`), a path spelled out wins
over one with a parameter (`BestRoute`), a path that fits with or without its last slash is
redirected (`OtherSlash`), the rest goes to `NoRoute` with all of the engine's
middlewares. What a request has still to go through is a set of names with their
places in the list (`todo`); it is always at the one with the least (`At`). `Wrap` is the
nesting in `httpmiddleware`, `PlainHandler`,
`RedirectTarget`, `FilterDomains` and `HostPolicy` are `NewHTTPServer`, `Uid` and
`Verified` the session check.

The actions follow one request: `Enter`, or `RefuseHandshake`, `Challenge`, `Redirect` at
the listener; `Dispatch` in the engine; `Pass`, `Refuse` at a layer; `Answer` by a
handler; and `Follow`, the client that goes where it was sent. The initial states are
pairs of a configuration and a request. A cookie is known by its outcome: what does
not decrypt, a session without a user, and a user id by its type after decoding.

### Launch

One pass through the start of the program: `ProxyOff`, `NoTarget`,
`RegisterReverseProxy` are `registerReverseProxy` (called while the HTTP service is
built), `UpstreamOff`, `NoCommand`, `CreateUpstream` the rest of `CreateServices`,
`RefuseCommand` and `StartUpstream` the preparation of the process in `Server.Start`.
The initial states range over the configurations. A URL is its port, if it
names one, and whether it parses; all URLs are `http`. `TargetURL`,
`UsesSocket`, `Dialled` say where the proxy connects, `DeriveTargetPort` and `PortEnv`
what the process finds in `PORT`. `splitCommandLine` is one turn of its loop (`Scan`)
after another, a recursive function of the characters (`Scanning`); of these only the
space, both quotes and the backslash are told apart. `written` and `cut` belong to
the configuration but not to the program: they say which words a shell reads in the
line, the empty ones that were quoted and the backslashes it keeps included. `kept` and
`lost` say the same without what the program drops. Both are said without the
loop: `Types` is one keystroke of somebody who writes the words, bare, in quotes or
escaped, and changes between these in the middle of a word at will, with a place in each of
the two lists; `Spelled` says that the line was typed so, to the end or, if it is cut, into
a quote that stays open.

### Paging

`ListByLastID` is one query and the client's reaction: it goes on from the last
row of the page and stops at an empty page or, if it is `hasty`, at one with less than
it asked for. `LastID` and `Limit` are the handler's defaults, `PageSize` is what sponge's
`query.NewPage` makes of the limit (below 1 or above 1000 it becomes 1000), `Selected`,
`Before` and `IsPage` the clauses of the query.
`Create` and `Delete` are other requests. `stable` and `repeated` are history.

## Runs

`tlc -config <run>.cfg <module>.tla`; each takes three minutes at most.

| run | asks | result |
|---|---|---|
| ProxyCacheVariants | with a `Vary` that comes and goes: `HitMatchesVariant` | holds |
| ProxyCacheSteady | with a steady `Vary`, a running clock, and ranges, 304s, cookie-setting, oversized and aborted responses besides: `StoredIsReachable`, `StoredIsWhole`, `HitIsFresh`, `SharedCacheSpec` | holds |
| ProxyCacheJoined | `HitMatchesVariant` for two URLs that join to one text | violated, see Findings |
| UsersApi | all handlers, two requests at a time, failures anywhere, Rails writing too: `StaleTableSpec`, `AnswersAreWhole`, `RepliesAreTrue`, `StaleIsExplained`, `SingleLoadPerId`, `WaitersAreServed` | holds |
| UsersDaoLive | also the methods in transactions, and clients that hang up: `EventuallyForgotten`, `CallsReturn` | holds |
| UsersDaoCreate | `PlaceholderMeansAbsent` | violated, see Findings |
| LifecycleShutdown | both services, shut down at any moment: `StopEndsAccepting`, `FailedStartEndsAccepting`, `StopIsNoFailure`, `StopEndsStart`, `StopWaitsForExit`, `ExitIsClassified`, `ServedToTheEnd`, `ShutdownEnds` | holds |
| UpstreamRace | `ShutdownSignals` | violated, see Findings |
| ResponseStack | bodies, files, early hints, upgrades, broken transfers, hits and misses: `GetsPromised`, `NothingMixed`, `LogAddsUp`, `PathStaysInside` | holds |
| FrontDoor | every combination of layers, sessions by routes, ways to name the server: `OnlyTheUserGetsIn`, `NothingSlipsBy`, `NothingInTheClear`, `RedirectLeadsHome` | holds |
| LaunchConfig | every combination of addresses, many command lines: `ProxyReachesUpstream`, `CommandIsAsWritten`, with the cases that fail named in them | holds |
| PagingWalk | walks in either order of the id, by patient and hasty clients: `WalkIsComplete`, `ListedOnce`, `WalkEnds` | holds |

Three properties state where the code departs from what one would ask of it, and are
checked to be exact about it: that is, the departures are part of the property and
everything else is excluded. `ProxyReachesUpstream` (a target URL without a port),
`CommandIsAsWritten` (empty words, stray backslashes) and `WalkIsComplete` (more rows asked
for than a page has, ascending ids); see Findings.

The type invariant is checked in one run of each component (`Launch` has none: its
variables are set once). Every property of a passing run has a
mutant in `PROJECT.json` that breaks it.

### Bounds

- *ProxyCache.* Two threads. A wrong hit takes a reader paused in its lookup and
  a writer that replaces an entry or the names; idle threads start over, so the
  writer may be any number of requests one after another, and the reader finds
  whatever they left. Two header names allow a `Vary` that is empty, one that is
  refined and one that is dropped. Limits (`BodyLimit` 3, `MaxItemSize` 3,
  `Overhead` 1, `Capacity` 4) are such that chunks of 1 to 3 give bodies that fit,
  bodies that fit the handler and not the item, and bodies with a middle chunk
  too large. In ProxyCacheSteady the lifetime is 1 and the clock runs to 2:
  enough to pass from "not yet expired" over "expires now", where a TTL would be
  zero, to "expired", and to pause inside `Set`, so that an entry is found at 2. In the other
  runs time stands still (`MaxTime` 0) because
  their properties do not mention it; an entry may vanish at any time all the same
  (`Evict`).
- *UsersDao, UsersApi.* Two ids (one in the runs about one row), two writes, two clients
  that call methods for ever, so that one can lead a load the other joins. Stale fills
  need one reader and one writer; a second write lets an entry be wrong, mended
  and wrong again. `MaxId` bounds what the table hands out; a `Create` beyond it
  is not begun (`Room`). `UsersApi` has no `Cancel`: there every round trip may fail
  anyway, which is all a context that is done can bring about. `UsersDaoLive` has both.
  What holds of more clients is proved.
- *Lifecycle.* No bounds: one `Start` and one `Stop` of each service, as the
  application calls them, at any moment, and the state space is finite. One connection per
  server at a time: what holds up a drain is that there is one.
- *ResponseWriters.* Two files, either of which may be missing, all three kinds of path,
  and bodies of up to two
  pieces: a hit needs one earlier response, and a mixture two pieces.
- *FrontDoor.* One request at a time, which is all the code has: nothing is shared. All
  1024 combinations of the ten optional layers with a request to a route, to the
  metrics, to the users API, to the proxy and with `OPTIONS`; all types of session, with
  the user's id and its neighbours, for all methods and paths around the users API;
  domains none, blank, padded, one and two, both kinds of TLS port, hosts known,
  unknown and missing with four ports. `MaxHops` 3 is one more than the two redirects
  `RedirectLeadsHome` allows.
- *Launch.* Proper ports beside the default and 80, a URL without a port, with port 0
  and one that does not parse, a negative port: one value for each branch, and two
  where a branch compares. Command lines are all lists of up to two words of up to two
  of the five characters, in four ways of writing them (one has a backslash before every
  character between double quotes), complete or without their last
  quote: two characters are enough for an escape in front of every character. `MCLaunch`
  assumes `LinesAreSpelled`, so TLC also shows that these lines are `Spelled`.
- *Paging.* Five ids, a longest page of 3 and limits none (2), negative, 1 and 4: up to
  five pages, full and not, and one that is full and looks short to its client, with rows
  inserted above the cursor and deleted on both sides.

### Fairness

- UsersDao: weak fairness of every step of a method once it is called (round trips
  end, with an answer or an error; `EnterFlight` never waits and whoever joins
  needs no step of its own), and of the expiry of each entry (every entry is
  set with a TTL). None of calls, nor of the Rails application.
- Lifecycle: goroutines and the runtime run, timers fire, the context of the HTTP
  service's `Stop` expires, and a process that was sent SIGKILL exits. No process has to
  exit by itself or because of the configured signal, connections may stay busy
  for ever, no listener has to fail, and no shutdown has to come.
- Paging: the client goes on asking and its queries end. The others state no
  liveness: what they model waits for nobody.

Deadlock is checked in every run.

## Proofs

`tlapm <module>Proofs.tla`. The theorems hold for every value of the constants
that meets the named assumptions (`ProxyCacheAssumption`, `OriginIsHTTP`,
`UsersDaoAssumption`, `WritersAssumption`, `FrontDoorAssumption`, `LaunchAssumption`,
`PagingAssumption`), which only say what the code and its callers guarantee.

- **ProxyCacheProofs**
  - `TypeInvariant`: `TypeOK` with two facts the rest needs: what is about to be
    stored was found cacheable under the names of its own `Vary`, and a thread
    past a hit holds an entry.
  - `HitMatchesVariantHolds`: `KeyInjective => []HitMatchesVariant`. The
    strengthening is `KeyedInv` (an entry lies under the key of its request for the names
    of its own response) and
    `MatchInv` (a thread past a lookup agrees with the entry's request in
    everything that lookup's key was made of). It explains why the second
    lookup needs no comparison: an entry under the key for names *ns* was
    stored for names *ms* with the same key, and by injectivity both requests
    agree on all of *ns* and *ms*.
  - `HitIsFreshHolds`: from `ExpiryInv`, an entry's `until` is never `Never` and never
    later than its completion plus its lifetime plus `late`, the pause inside `Set`. Without
    that the statement is false.
  - `StoredIsWholeHolds`: from `CopyInv`, a copy that is not marked as incomplete
    equals the chunks sent so far; uses `OriginIsHTTP` to conclude that a
    stored response is not partial.
  - `StoredIsReachableHolds`: `KeyInjective` and `SteadyVary` (requests that share a base key
    get one `Vary`) imply `[]StoredIsReachable`. `IndexInv`, that `varyIndex` has the names of
    whatever is stored or about to be, is kept by every request that writes it only
    because what it found belongs to the same resource (`MatchInv`, `SameBaseKey`) and was
    given by the application (`GivenInv`). The requests of ProxyCacheSteady meet
    `SteadyVary`, those of ProxyCacheVariants do not.
  - `ImplementsSharedCache`: `KeyInjective` implies that every step is one of
    `SharedCache` or leaves it alone. `Find` follows from `MatchInv` and `ExpiryInv`, `Offer` from
    `CopyInv`. One more invariant, `VariantInv` (the header values an entry records are
    those of its request), shows that with such keys the comparison after the first lookup always
    succeeds: the second lookup of `ServeHTTP` only ever runs after a collision.
- **UsersProofs**, of the dao:
  - `TypeInvariant`, together with `Local` (which ids and rows a request has at each of its
    steps) and `FlightInv` (a client on its way through a load leads
    the flight of its one id, and conversely), the three parts of `IInv`, from which
    `SingleLoadPerIdHolds`
    and `WaitersAreServedHolds`.
  - `StaleIsExplainedHolds`: `StaleIsExplained` is inductive given `IInv`.
  - `ImplementsStaleTable`: every step of the dao is one of `StaleTable` or leaves it
    alone. For each action two facts are enough: a new entry stands for a row in
    circulation or the one just committed (`EntryKnown`), and so does every row a
    request has come to hold or has been handed (`ReadsKnown`).
  - `AnswersAreWholeHolds`: from `Local`, which says that a request past its last lookup
    has a row or an absence for each of its ids, and `FlightInv`, which says whose result
    a waiting request gets.
- **UsersProofs**, of the API: `ApiRunsTheDao` (a handler's call is a call of the dao, so every
  theorem above holds of the API), `ApiTypeInvariant`, and
  `RepliesAreTrueHolds` from `RequestInv` (where each request stands with what it has
  been told and with the rows it is to delete) and `GoneForGood`: an id that has been handed
  out is never given to another row, so what a confirmed deletion has removed stays away.
- **UpstreamProofs**: `StopWaitsForExitHolds` and `ExitIsClassifiedHolds` from one
  invariant with three parts: where the process can be for each place of
  `Start` (`ChildInv`), what `Stop` may rely on when it has signalled
  (`StopInv`), and when `stopping` is set (`ExitInv`).
- **LifecycleProofs**, of the http service: `StopEndsAcceptingHolds`,
  `FailedStartEndsAcceptingHolds` and
  `StopIsNoFailureHolds` from `DownInv` (which servers are down, and which have been drained
  and so accept nothing, for each place of `Start` and `Stop`) and `ErrorInv` (an error on
  its way comes from a listener
  that failed).
- **LifecycleProofs**, of the application: `AppTypeInvariant`; `AppSpec` implements the
  specification of `HttpServer` and, under
  the renaming, that of `Upstream` (every step is one of theirs or leaves their
  variables alone), so their theorems hold of the application
  (`AppStopEndsAccepting`, `AppStopWaitsForExit`, `AppExitIsClassified`).
  `ServedToTheEndHolds` adds `DrainInv` (a
  server `Stop` has drained has no request or the time was over) and `OrderInv` (which close
  may have been called).
- **ResponseWritersProofs**: `TypeInvariant`, `GetsPromisedHolds`, `NothingMixedHolds`,
  `LogAddsUpHolds` and `PathStaysInsideHolds` from one invariant, `IInv`. `Sound` is what holds
  of the writers in whatever order they are called: the recorder's status and
  length are those of the wire as soon as anything is written (a redirect of
  `http.ServeFile` writes nothing and waits in gin's writer: `Pending`, `Redirecting`), a
  body is pieces only or one file,
  and no path has leaked. `Unanswered` says that while the application is silent,
  or gives early hints, no writer has taken a status for the final one;
  `Carries` and `Faithful` relate what has been written so far to what the application
  meant; `CopyInv` is what the cache keeps of it. There is one lemma per writer about a call
  from above. It needs final statuses of 200 and more, which is what `AnswerType` says: gin passes
  on a 1xx as a hint and waits for another.
- **FrontDoorProofs**: `TypeInvariant`, `OnlyTheUserGetsInHolds`, `NothingSlipsByHolds`,
  `NothingInTheClearHolds` and `RedirectLeadsHomeHolds`, for every configuration and
  request and for any number of redirects. The first half is about the list: `RouterShape` puts
  together, call by call (`Part`, `JoinedPart`), what `NewRouter` registers (the engine's
  middlewares, with nothing but the page of the metrics between them, then routes, then the
  group with the session check before its routes), and `ChainLeads` and `NoRouteLeads` derive
  from that shape which layers lie before a handler and in which order (`Leads`). The
  second half walks: `WalkInv` says that what a request has passed and what is before
  it together are the layers it should meet (`Wrapped` until the engine, `Routed` after), that
  none is met twice (`InOrder`), and that with TLS on nothing is under way in clear
  (`Secured`). `HomeInv` is for the redirects: the request differs from the one first asked
  by the port and the slash at most, each changed at most once, and is led to `Home`; that a
  slash is changed once only follows from gin redirecting to paths that have a route.
- **LaunchProofs**: `ProxyReachesUpstreamHolds` from an invariant that keeps, at each
  stage, how `dial`, `targetPort` and `port` follow from the configuration as it was
  read, and a case distinction over what that names (`PlacesAgree`). The
  property is about configurations that meet `NamesOnePlace`: `PORT` is not set
  in `upstream.env`, and `targetPort` does not contradict the port a target URL stands for,
  80 if it names none. `CommandIsAsWrittenHolds` is for every alphabet, any number of words of any
  length and every line that is `Spelled`, a set the run's lines are in. Its invariant is
  about the loop: after each character what is cut so far, the word in hand and the
  three flags are where the hand of the writer is (`Agrees`, kept by `TypesAgree`), and as
  long as nothing is lost the hand is at the same place in both lists (`Even`, `EvenStep`).
  That `Scanning` is what its recursion says (`ScanningTurns`), and that `Agrees` holds after
  the last character (`SplitsAsKept`, `NothingLost`), are inductions. The library's induction
  theorems take an operator, so `Induction` states it for a set of numbers instead, from
  the least element of what is left outside of it (`WFMin`).
- **PagingProofs**: `TypeInvariant`, `WalkIsCompleteHolds`, `ListedOnceHolds`, for every
  client. For descending ids from `AheadInv` (a row that stays is listed or still below the
  cursor) and `BehindInv` (what is listed is at or above it); for ascending ids from
  `AboveInv` (a row that stays and is not listed is above all that are) and `StayInv` (the
  cursor is among the listed).

Only model-checked: the liveness properties (`EventuallyForgotten`, `CallsReturn`,
`StopEndsStart`, `ShutdownEnds`, `WalkEnds`), which are out of the prover's reach.

## Findings

- `ProxyCacheJoined`: `CacheKey` joins method, path, query, host and headers
  without separators. Two requests for different URLs can have one key, and
  the second is given the first one's response. The comment on `CacheHandler`'s key
  (`internal/proxy/cache/cache_handler.go:11`) calls it unique.
- `UsersDaoCreate`: `Create` leaves a placeholder of its id alone, so the new
  row is reported as missing until the placeholder expires, although
  `internal/dao/users.go:309` takes a placeholder for "does not exist in
  database".
- `UpstreamRace`: a `Stop` that comes before `cmd.Process` is set returns without
  an error and without a signal; `Start` goes on and the process outlives the
  shutdown. `configs/thrustOauth2idServer.yml:66` documents a signal "sent when shutting
  down".

Four more are not runs of their own: the properties of the passing runs name them, and TLC
and the proofs show that there is nothing else.

- `ProxyReachesUpstream`: with a `targetURL` that names no port, no socket and no
  `targetPort`, the proxy dials 80 and `deriveTargetPort`
  (`cmd/thrustOauth2idServer/initial/createService.go:54`) tells the process 3000. The
  configuration has `targetURL` as the "upstream url to proxy requests to" (line 42) and
  `targetPort` as the "port the upstream process should bind to" (line 64).
- `CommandIsAsWritten`: `README.md:106` says that `command` is split by the rules of the
  shell. `splitCommandLine` (`internal/upstream/server.go:225-242`) drops a word that is
  quoted and empty, so the arguments after it move up, and drops the backslash before an
  ordinary character between double quotes, which a shell keeps.
- `WalkIsComplete`: a client that asks `ListByLastID` for more than 1000 rows and takes a
  shorter page for the last one stops after the first 1000.
- `WalkIsComplete`: in ascending order (`sort=id`), which `internal/handler/users.go:376`
  lets a client ask for, the second page is empty or repeats rows, and what is above the
  first page is never listed.

## What is left out

- ristretto's admission and eviction policy (any item may be turned down or
  dropped at any time), the gob encoding (a constant `Overhead`), `Age` and
  `X-Cache` headers, and `deriveNumCounters`.
- `CacheKey` hashes with 64-bit FNV; the likelihood of a collision cannot be
  stated here.
- `Vary` lists are sets: `VariantHeader` and the key do not depend on order or
  repetition, and of several `Vary` lines the code reads the first only.
- The dao without a cache (a `cacheType` that is neither redis nor memory): each method
  is its query alone. The fields of a partial update are one version number, and
  fields that are zero, which it leaves out, are not told apart. The order and
  the offset of a page are left open in `UsersDao`. `MultiGet` and `MultiSet` are one
  step each.
- The case of `cacheType`: `internal/cache/users.go:47` takes any, while
  `internal/database/redis.go:38` opens the client for "redis" only.
- Requests the handlers cannot bind change nothing and are not steps; the copies between
  structs cannot fail for these types.
- `FrontDoor` has no `httpsPort` of 0 (with which the TLS listener takes any free port and
  the redirect names none), no IPv6 hosts and no ids beyond the 53 bits of a float64; a layer
  that limits or breaks may
  refuse any request; timeouts of the servers and the
  account binding of certificates are left out. A 301 may turn a POST into a GET, so
  `RedirectLeadsHome` is about GET and HEAD.
- `ResponseWriters` serves whole files: conditions and ranges that `http.ServeFile`
  answers itself are left out, as are directories named by X-Sendfile, `Content-Length`,
  compression and the limit on request bodies. What makes a response storable is in `ProxyCache`.
- `Paging` orders by id, either way. The sort parameter may name any column; by another
  one a page ends in a row whose id says nothing about those that follow, and rows are
  skipped and repeated.
- The second lookup of `ServeHTTP` is in `ProxyCache` but runs only after a collision of
  keys, which the passing runs exclude (`KeyInjective`); see `ImplementsSharedCache`.
- What becomes of a hijacked connection after the upgrade: nobody in the program waits for
  it, and it ends with the process it leads to or with the program.
- That the application names files only when it has been sent `X-Sendfile-Type` is assumed
  (`Respond`), and `PathStaysInside` rests on it.
- Variables of the child's environment other than `PORT`, the table of signal
  names, certificates; database and cache clients, configuration and model,
  generated documentation, deployment files: libraries, generated code or I/O at
  start without state of their own; see the components in `PROJECT.json`.

## Plan

1. *Response cache* (done), *users dao* (done), *supervisor* and *http service*
   (done), each with its proofs.
2. `Lifecycle` (done), which composes `HttpServer` and `Upstream`, with its proofs.
3. `ResponseWriters` (done), with its proofs; conditional requests and ranges of files are left.
4. `Launch` and `Paging` (done, ascending ids and the longest page included), with their
   proofs; sort orders by other columns are left.
5. `UsersApi` over `UsersDao` (done), with its proofs; `StaleTable`, the abstract table
   (done), implemented by `UsersDao`, checked and proved.
6. `FrontDoor` (done), with its proofs.
7. `SharedCache`, the abstract cache (done), implemented by `ProxyCache` when keys are
   injective, checked and proved.
