------------------------------ MODULE FrontDoor ------------------------------
(***************************************************************************)
(* What a request meets before somebody answers it: the plain and the TLS  *)
(* listener of NewHTTPServer, the handlers of httpmiddleware.Wrap, the     *)
(* middlewares and routes of NewRouter, and the session check in front of  *)
(* the users API.                                                          *)
(*                                                                         *)
(* NewRouter is a list of registrations (Registered).  In gin a route gets *)
(* the middlewares that were registered before it, so the order of that    *)
(* list decides which of them a request passes; and a client that is sent  *)
(* elsewhere with a redirect goes through all of it again.                 *)
(***************************************************************************)
EXTENDS Integers, Sequences, SequencesExt

CONSTANTS
  Cases,      \* pairs of a configuration and a request (see ConfigType, RequestType)
  Names,      \* host names
  Segments,   \* the segments of paths
  MaxHops     \* bound on the redirects a client follows

Blank == ""       \* a host name, a domain or a segment that is empty
NoPort == 0       \* a host without a port
TlsPort == 443

\* The layers the configuration turns on or off, in Wrap and in NewRouter.
Optional == {"log", "body", "gzip", "start",
             "timeout", "metrics", "limit", "breaker", "trace", "profile"}

ConfigType ==
  [domains : SUBSET [name : Names \cup {Blank}, padded : BOOLEAN],  \* http.tls.domains
   httpsPort : Nat \ {0},
   on : SUBSET Optional,
   prod : BOOLEAN,        \* app.env is "prod"
   proxy : BOOLEAN,       \* proxy.enabled
   secret : BOOLEAN,      \* rails.secretKeyBase is not "change-me"
   userID : Int]          \* rails.userID

\* A session cookie: none, one that does not decrypt, a session without a user, or one
\* with a user id, of some type after decoding.
NoCookie == [type |-> "no cookie", val |-> 0]
Forged == [type |-> "forged", val |-> 0]
Anonymous == [type |-> "anonymous", val |-> 0]
Numbers == {"int64", "int", "float64", "numeral"}
SessionType ==
  {NoCookie, Forged, Anonymous} \cup [type : Numbers \cup {"word", "bool"}, val : Int]

\* A path is the sequence of its segments; one that ends in a slash has an empty last one.
RequestType ==
  [tls : BOOLEAN, host : [name : Names \cup {Blank}, port : Nat],
   method : {"GET", "HEAD", "POST", "PUT", "DELETE", "OPTIONS"},
   path : Seq(Segments), session : SessionType]

ASSUME FrontDoorAssumption ==
  /\ Cases \subseteq ConfigType \X RequestType
  /\ Blank \notin Names /\ Blank \in Segments
  /\ MaxHops \in Nat

-----------------------------------------------------------------------------
(***************************************************************************)
(* NewRouter                                                               *)
(***************************************************************************)
Use(scope, layer) ==
  <<[do |-> "use", scope |-> scope, name |-> layer, method |-> "", path |-> <<>>]>>
Route(scope, method, path, handler) ==
  <<[do |-> "route", scope |-> scope, name |-> handler, method |-> method, path |-> path]>>
Group(scope) ==
  <<[do |-> "group", scope |-> scope, name |-> "", method |-> "", path |-> <<>>]>>

If(condition, registrations) == IF condition THEN registrations ELSE <<>>
UseIf(c, layer) == If(layer \in c.on, Use("engine", layer))

\* metrics.Metrics registers its route before it returns the middleware.
Metrics(c) ==
  If("metrics" \in c.on,
     Route("engine", "GET", <<"metrics">>, "Metrics") \o Use("engine", "metrics"))

EngineUses(c) ==
  Use("engine", "recovery") \o Use("engine", "cors") \o UseIf(c, "timeout")
  \o Use("engine", "requestID") \o Metrics(c)
  \o UseIf(c, "limit") \o UseIf(c, "breaker") \o UseIf(c, "trace")

EngineRoutes(c) ==
  If("profile" \in c.on, Route("engine", "GET", <<"debug", "pprof", "">>, "Profile"))
  \o Route("engine", "GET", <<"health">>, "CheckHealth")
  \o Route("engine", "GET", <<"ping">>, "Ping")
  \o Route("engine", "GET", <<"codes">>, "ListCodes")
  \o If(~c.prod,
        Route("engine", "GET", <<"config">>, "ShowConfig")
        \o Route("engine", "GET", <<"swagger", "*any">>, "Swagger"))

SessionUses(c) == If(c.secret, Use("users", "railsCookie") \o Use("users", "sessionUser"))

UsersPath(rest) == <<"api", "v1", "users">> \o rest

UsersRoutes ==
  Route("users", "POST", UsersPath(<<"">>), "Create")
  \o Route("users", "DELETE", UsersPath(<<":id">>), "DeleteByID")
  \o Route("users", "PUT", UsersPath(<<":id">>), "UpdateByID")
  \o Route("users", "GET", UsersPath(<<":id">>), "GetByID")
  \o Route("users", "POST", UsersPath(<<"list">>), "List")
  \o Route("users", "POST", UsersPath(<<"delete", "ids">>), "DeleteByIDs")
  \o Route("users", "POST", UsersPath(<<"condition">>), "GetByCondition")
  \o Route("users", "POST", UsersPath(<<"list", "ids">>), "ListByIDs")
  \o Route("users", "GET", UsersPath(<<"list">>), "ListByLastID")

\* Mutated form: the session is checked in front of the routes that follow.
LateUsersRouter(c) == Group("users") \o UsersRoutes \o SessionUses(c)

UsersRouter(c) == Group("users") \o SessionUses(c) \o UsersRoutes

\* Mutated form: the routes of the engine come first.
EarlyRegistered(c) == EngineRoutes(c) \o EngineUses(c) \o UsersRouter(c)

\* Mutated form: the configuration can always be read.
OpenRegistered(c) == EngineUses(c) \o EngineRoutes([c EXCEPT !.prod = FALSE]) \o UsersRouter(c)

\* All that NewRouter registers, in its order; the proxy is the handler of NoRoute.
Registered(c) == EngineUses(c) \o EngineRoutes(c) \o UsersRouter(c)

-----------------------------------------------------------------------------
(***************************************************************************)
(* gin                                                                     *)
(***************************************************************************)

\* Where the middlewares of a scope stand in the list.
Uses(reg, scope) == {j \in DOMAIN reg : reg[j].do = "use" /\ reg[j].scope = scope}

\* The group takes over the middlewares the engine has when it is opened.
Inherited(reg, scope) ==
  {j \in Uses(reg, "engine") :
     \E k \in DOMAIN reg : j < k /\ reg[k].do = "group" /\ reg[k].scope = scope}

\* What a request is to go through, in ascending order: the registrations in J.
Handlers(reg, J) == {[at |-> j, name |-> reg[j].name] : j \in J}

\* The handlers of the k-th registration, a route.
Chain(reg, k) ==
  Handlers(reg, Inherited(reg, reg[k].scope) \cup {j \in Uses(reg, reg[k].scope) : j < k} \cup {k})

\* The handlers of NoRoute: a middleware of the engine is one of them whenever it is used.
NoRoute(reg, fallback) ==
  Handlers(reg, Uses(reg, "engine")) \cup {[at |-> Len(reg) + 1, name |-> fallback]}

\* A pattern that ends in "*any" takes all that follows, if only a slash.
Fits(pattern, path) ==
  /\ \/ Len(pattern) = Len(path)
     \/ Len(pattern) < Len(path) /\ \E i \in DOMAIN pattern : pattern[i] = "*any"
  /\ \A i \in DOMAIN pattern :
       pattern[i] = path[i] \/ pattern[i] = "*any" \/ (pattern[i] = ":id" /\ path[i] # "")

Routes(reg, method, path) ==
  {k \in DOMAIN reg : reg[k].do = "route" /\ reg[k].method = method /\ Fits(reg[k].path, path)}

\* A path that is spelled out comes before one with a parameter.
BestRoute(reg, method, path) ==
  LET fitting == Routes(reg, method, path)
      exact == {k \in fitting : reg[k].path = path}
  IN  CHOOSE k \in fitting : exact # {} => k \in exact

\* The same path with or without the slash at its end.
OtherSlash(path) ==
  IF path # <<>> /\ Last(path) = "" THEN Front(path) ELSE Append(path, "")

-----------------------------------------------------------------------------
(***************************************************************************)
(* NewHTTPServer                                                           *)
(***************************************************************************)
Trim(domain) == [domain EXCEPT !.padded = FALSE]

FilterDomains(c) == {d \in {Trim(e) : e \in c.domains} : d.name # Blank}

TlsEnabled(c) == FilterDomains(c) # {}

\* autocert has certificates for the whitelisted hosts only.
HostPolicy(c, name) == [name |-> name, padded |-> FALSE] \in FilterDomains(c)

\* Wrap puts the logging outside, the start header next to the engine.
Nesting == <<"log", "body", "gzip", "start", "engine">>

Wrap(c) ==
  {[at |-> i, name |-> Nesting[i]] :
     i \in {i \in DOMAIN Nesting : Nesting[i] \in c.on \cup {"engine"}}}

\* Mutated form: the port of the TLS listener is forgotten.
PortlessTarget(c, host) == [name |-> host.name, port |-> NoPort]

\* httpRedirectHandler: the port of the request's host is cut off, and the one of the
\* TLS listener takes its place unless it is the usual one.
RedirectTarget(c, host) ==
  [name |-> host.name,
   port |-> IF host.name # Blank /\ c.httpsPort # TlsPort THEN c.httpsPort ELSE NoPort]

\* Mutated form: the plain listener keeps the handler of the application.
OpenPlainHandler(c) == "app"

\* The handler of the plain listener.
PlainHandler(c) == IF TlsEnabled(c) THEN "autocert" ELSE "app"

IsChallenge(path) ==
  Len(path) >= 3 /\ path[1] = ".well-known" /\ path[2] = "acme-challenge"

-----------------------------------------------------------------------------
(***************************************************************************)
(* The session check                                                       *)
(***************************************************************************)

\* The user id of a session, if it has one that can be read.
Uid(s) == IF s.type \in Numbers THEN {s.val} ELSE {}

\* VerifyRailsSessionUserIdIs: 401 without a user id, 403 for another one than ours.
Verified(c, s) == Uid(s) = {c.userID}

-----------------------------------------------------------------------------
VARIABLES
  config,   \* the configuration; never changes
  asked,    \* history: the request the client began with; never changes
  req,      \* the request it makes now
  todo,     \* the layers and the handler req has still to go through, each with its place
  passed,   \* the layers it has been through
  answer,   \* who has answered it: a handler, or the layer that refused it
  hops      \* the redirects the client has followed

vars == <<config, asked, req, todo, passed, answer, hops>>

Open == "open"    \* nobody has answered

UsersHandlers == {"Create", "DeleteByID", "UpdateByID", "GetByID", "List", "DeleteByIDs",
                  "GetByCondition", "ListByIDs", "ListByLastID"}
SessionChecks == {"railsCookie", "sessionUser"}
Refusals == {"cors", "limit", "breaker"} \cup SessionChecks
Redirects == {"redirect", "slash"}
Layers == Optional \cup {"engine", "recovery", "cors", "requestID"} \cup SessionChecks

\* Who may answer under configuration c.
Answerers(c) ==
  Refusals \cup Redirects \cup UsersHandlers
  \cup {"CheckHealth", "Ping", "ListCodes", "challenge", "no certificate", "unreachable"}
  \cup (IF c.proxy THEN {"proxy"} ELSE {"not found"})
  \cup (IF c.prod THEN {} ELSE {"ShowConfig", "Swagger"})
  \cup (IF "metrics" \in c.on THEN {"Metrics"} ELSE {})
  \cup (IF "profile" \in c.on THEN {"Profile"} ELSE {})

TypeOK ==
  /\ <<config, asked>> \in Cases
  /\ req \in RequestType
  /\ todo \subseteq [at : Nat, name : Layers \cup Answerers(config)]
  /\ passed \in Seq(Layers)
  /\ answer \in Answerers(config) \cup {Open}
  /\ hops \in 0..MaxHops

Init ==
  /\ \E k \in Cases : config = k[1] /\ asked = k[2]
  /\ req = asked
  /\ todo = {} /\ passed = <<>> /\ answer = Open /\ hops = 0

-----------------------------------------------------------------------------
(***************************************************************************)
(* A request comes in                                                      *)
(***************************************************************************)
Incoming == answer = Open /\ todo = {}

\* It reaches the application's handler, on either port.
Enter ==
  /\ Incoming
  /\ IF req.tls THEN TlsEnabled(config) /\ HostPolicy(config, req.host.name)
     ELSE PlainHandler(config) = "app"
  /\ todo' = Wrap(config)
  /\ UNCHANGED <<config, asked, req, passed, answer, hops>>

\* The TLS handshake fails: there is no certificate for the host.
RefuseHandshake ==
  /\ Incoming /\ req.tls
  /\ TlsEnabled(config) /\ ~HostPolicy(config, req.host.name)
  /\ answer' = "no certificate"
  /\ UNCHANGED <<config, asked, req, todo, passed, hops>>

\* autocert's own handler on the plain port.
Challenge ==
  /\ Incoming /\ ~req.tls /\ PlainHandler(config) = "autocert" /\ IsChallenge(req.path)
  /\ answer' = "challenge"
  /\ UNCHANGED <<config, asked, req, todo, passed, hops>>

Redirect ==
  /\ Incoming /\ ~req.tls /\ PlainHandler(config) = "autocert" /\ ~IsChallenge(req.path)
  /\ answer' = "redirect"
  /\ UNCHANGED <<config, asked, req, todo, passed, hops>>

-----------------------------------------------------------------------------
(***************************************************************************)
(* A request goes from layer to layer                                      *)
(***************************************************************************)
At(x) == answer = Open /\ x \in todo /\ \A y \in todo : x.at <= y.at

\* The engine's ServeHTTP: a route, a redirect to the path with or without its slash,
\* or the handlers of NoRoute.
Dispatch ==
  /\ \E x \in todo : At(x) /\ x.name = "engine"
  /\ LET reg == Registered(config)
         fallback == IF config.proxy THEN "proxy" ELSE "not found"
     IN  \/ /\ Routes(reg, req.method, req.path) # {}
            /\ todo' = Chain(reg, BestRoute(reg, req.method, req.path))
            /\ UNCHANGED answer
         \/ /\ Routes(reg, req.method, req.path) = {}
            /\ Routes(reg, req.method, OtherSlash(req.path)) # {}
            /\ todo' = {} /\ answer' = "slash"
         \/ /\ Routes(reg, req.method, req.path) = {}
            /\ Routes(reg, req.method, OtherSlash(req.path)) = {}
            /\ todo' = NoRoute(reg, fallback)
            /\ UNCHANGED answer
  /\ UNCHANGED <<config, asked, req, passed, hops>>

\* Whether a layer may turn a request away, and whether it lets one through.
Refuses(layer) ==
  CASE layer = "cors" -> req.method = "OPTIONS"
    [] layer \in {"limit", "breaker"} -> TRUE
    [] layer = "railsCookie" -> req.session \in {NoCookie, Forged}
    [] layer = "sessionUser" -> ~Verified(config, req.session)
    [] OTHER -> FALSE

Passes(layer) == layer \in SessionChecks => ~Refuses(layer)

\* The log takes no notice of requests for the metrics.
Notices(layer) == ~(layer = "log" /\ req.path = <<"metrics">>)

Pass ==
  /\ \E x \in todo :
       /\ At(x) /\ x.name \in Layers \ {"engine"} /\ Passes(x.name)
       /\ passed' = IF Notices(x.name) THEN Append(passed, x.name) ELSE passed
       /\ todo' = todo \ {x}
  /\ UNCHANGED <<config, asked, req, answer, hops>>

Refuse ==
  /\ \E x \in todo :
       /\ At(x) /\ x.name \in Refusals /\ Refuses(x.name)
       /\ answer' = x.name
  /\ todo' = {}
  /\ UNCHANGED <<config, asked, req, passed, hops>>

Answer ==
  /\ \E x \in todo : At(x) /\ x.name \notin Layers /\ answer' = x.name
  /\ todo' = {}
  /\ UNCHANGED <<config, asked, req, passed, hops>>

-----------------------------------------------------------------------------
(***************************************************************************)
(* The client                                                              *)
(***************************************************************************)

\* After a 301 a client may ask with GET in place of another method; after the 307 gin
\* sends for other methods than GET it may not.
Methods ==
  IF req.method \in {"GET", "HEAD"} \/ answer = "slash" THEN {req.method}
  ELSE {req.method, "GET"}

Follow ==
  /\ answer \in Redirects /\ hops < MaxHops
  /\ \E m \in Methods :
       LET target == RedirectTarget(config, req.host)
           port == IF target.port = NoPort THEN TlsPort ELSE target.port
       IN  IF answer = "slash"
           THEN /\ req' = [req EXCEPT !.path = OtherSlash(@)]
                /\ answer' = Open
           ELSE /\ req' = [req EXCEPT !.tls = TRUE, !.host = target, !.method = m]
                /\ answer' = IF target.name # Blank /\ port = config.httpsPort
                             THEN Open ELSE "unreachable"
  /\ passed' = <<>>
  /\ hops' = hops + 1
  /\ UNCHANGED <<config, asked, todo>>

Rest == answer \notin Redirects \cup {Open} /\ UNCHANGED vars

Next ==
  \/ Enter \/ RefuseHandshake \/ Challenge \/ Redirect
  \/ Dispatch \/ Pass \/ Refuse \/ Answer
  \/ Follow \/ Rest

Spec == Init /\ [][Next]_vars

-----------------------------------------------------------------------------
(***************************************************************************)
(* Properties                                                              *)
(***************************************************************************)

\* Once a secret is configured, a request for the users API that carries no session of
\* the configured user ends before the handler, whatever the method, the path and the
\* port it came by; and the session check never turns that user away, in whatever type
\* the id was stored.
OnlyTheUserGetsIn ==
  LET ours == req.session.type \in Numbers /\ req.session.val = config.userID
  IN  /\ answer \in UsersHandlers /\ config.secret => ours
      /\ answer \in SessionChecks => ~ours

\* The layers a request is to pass on its way to the engine, and to a handler.
Outside == {l \in config.on \cap {"log", "body", "gzip", "start"} : Notices(l)}
Inside == {"recovery", "cors", "requestID"} \cup (config.on \ {"log", "profile"})

\* Each layer that is turned on is passed once by every request a handler or the proxy
\* answers, known route or not, although it is the order of the registrations that
\* decides; only the metrics stand aside.  The layers of Wrap also have those that are
\* refused, and nobody tries out sessions unnoticed by the limiter and the breaker.
NothingSlipsBy ==
  LET handled == answer \notin Refusals \cup Redirects
                   \cup {Open, "challenge", "no certificate", "unreachable", "Metrics"}
  IN  /\ handled => (Outside \cup Inside) \subseteq ToSet(passed)
      /\ IsInjective(passed)
      /\ answer \in Refusals \cup {"Metrics"} => Outside \subseteq ToSet(passed)
      /\ answer \in SessionChecks => ({"limit", "breaker"} \cap config.on) \subseteq ToSet(passed)

\* With TLS on, the plain port answers with a redirect or the answer to a challenge:
\* no handler, no session check and no proxy ever works on a request that came in clear.
NothingInTheClear ==
  config.domains \cap [name : Names, padded : BOOLEAN] # {} /\ ~req.tls =>
    todo = {} /\ answer \in {Open, "redirect", "challenge"}

\* Where a request belongs that comes to the application directly.
Home(c, r) ==
  LET reg == Registered(c)
      path == IF Routes(reg, r.method, r.path) # {} THEN r.path ELSE OtherSlash(r.path)
  IN  IF Routes(reg, r.method, path) = {} THEN IF c.proxy THEN "proxy" ELSE "not found"
      ELSE reg[BestRoute(reg, r.method, path)].name

\* A client that asks for a page of one of the domains and follows the redirects gets to
\* where it would have got directly, whatever the TLS port, the port it named itself and
\* the slashes at the end, after two redirects at most.
RedirectLeadsHome ==
  LET known == \E d \in config.domains : d.name = asked.host.name
      served == \E d \in config.domains : d.name # Blank
      final == answer \notin Redirects \cup Refusals \cup {Open}
  IN  asked.method \in {"GET", "HEAD"} /\ asked.host.name # Blank /\ (served => known) =>
        /\ hops <= 2
        /\ final => \/ answer = Home(config, asked)
                    \/ answer = "challenge" /\ IsChallenge(asked.path)

=============================================================================
