--------------------------- MODULE FrontDoorProofs ---------------------------
(***************************************************************************)
(* Theorems about FrontDoor, for every configuration, every request and    *)
(* any number of redirects: whom the order of the registrations lets       *)
(* through, and past which layers.                                         *)
(***************************************************************************)
EXTENDS FrontDoor, SequenceTheorems, TLAPS

-----------------------------------------------------------------------------
(***************************************************************************)
(* Lists that are joined                                                   *)
(***************************************************************************)
Listed(s) == \E S : s \in Seq(S)

LEMMA ListedIs ==
  ASSUME NEW s, Listed(s)
  PROVE  Len(s) \in Nat /\ DOMAIN s = 1..Len(s)
<1>1. PICK S : s \in Seq(S)
  BY DEF Listed
<1>2. QED
  BY <1>1, LenProperties

LEMMA Joined ==
  ASSUME NEW s, NEW t, Listed(s), Listed(t)
  PROVE  /\ Listed(s \o t) /\ Len(s \o t) = Len(s) + Len(t)
         /\ \A i \in 1..Len(s) : (s \o t)[i] = s[i]
         /\ \A i \in 1..Len(t) : (s \o t)[Len(s) + i] = t[i]
<1>1. PICK S : s \in Seq(S)
  BY DEF Listed
<1>2. PICK T : t \in Seq(T)
  BY DEF Listed
<1>3. s \in Seq(S \cup T) /\ t \in Seq(S \cup T)
  BY <1>1, <1>2
<1>4. s \o t \in Seq(S \cup T)
  BY <1>3
<1>5. /\ Len(s \o t) = Len(s) + Len(t)
      /\ \A i \in 1..Len(s) + Len(t) :
           (s \o t)[i] = IF i <= Len(s) THEN s[i] ELSE t[i - Len(s)]
  BY <1>3, ConcatProperties
<1>6. Len(s) \in Nat /\ Len(t) \in Nat
  BY <1>1, <1>2, LenProperties
<1>7. ASSUME NEW i \in 1..Len(s) PROVE (s \o t)[i] = s[i]
  BY <1>5, <1>6
<1>8. ASSUME NEW i \in 1..Len(t) PROVE (s \o t)[Len(s) + i] = t[i]
  <2>1. Len(s) + i \in 1..Len(s) + Len(t) /\ ~(Len(s) + i <= Len(s)) /\ (Len(s) + i) - Len(s) = i
    BY <1>6
  <2>2. QED
    BY <1>5, <2>1
<1>9. QED
  BY <1>4, <1>5, <1>7, <1>8 DEF Listed

\* A part of the list: registrations of one scope, with the middlewares N, each of
\* them once, and routes to some of the handlers H.
Part(s, scope, N, H) ==
  /\ Listed(s)
  /\ \A i \in 1..Len(s) :
       /\ s[i].scope = scope
       /\ \/ s[i].do = "use" /\ s[i].name \in N
          \/ s[i].do = "route" /\ s[i].name \in H
  /\ \A n \in N : \E i \in 1..Len(s) : s[i].do = "use" /\ s[i].name = n
  /\ \A i, j \in 1..Len(s) :
       s[i].do = "use" /\ s[j].do = "use" /\ s[i].name = s[j].name => i = j

LEMMA UsePart == ASSUME NEW scope, NEW layer PROVE Part(Use(scope, layer), scope, {layer}, {})
<1> DEFINE r == [do |-> "use", scope |-> scope, name |-> layer, method |-> "", path |-> <<>>]
           s == <<r>>
<1>1. Use(scope, layer) = s
  BY DEF Use
<1>2. s \in Seq({r}) /\ Len(s) = 1 /\ s[1] = r
  OBVIOUS
<1>3. r.do = "use" /\ r.scope = scope /\ r.name = layer
  OBVIOUS
<1> HIDE DEF r, s
<1>4. QED
  BY <1>1, <1>2, <1>3 DEF Part, Listed

LEMMA RoutePart ==
  ASSUME NEW scope, NEW method, NEW path, NEW handler
  PROVE  Part(Route(scope, method, path, handler), scope, {}, {handler})
<1> DEFINE r == [do |-> "route", scope |-> scope, name |-> handler, method |-> method, path |-> path]
           s == <<r>>
<1>1. Route(scope, method, path, handler) = s
  BY DEF Route
<1>2. s \in Seq({r}) /\ Len(s) = 1 /\ s[1] = r
  OBVIOUS
<1>3. r.do = "route" /\ r.scope = scope /\ r.name = handler
  OBVIOUS
<1> HIDE DEF r, s
<1>4. QED
  BY <1>1, <1>2, <1>3 DEF Part, Listed

LEMMA EmptyPart == ASSUME NEW scope PROVE Part(<<>>, scope, {}, {})
<1>1. <<>> \in Seq({}) /\ Len(<<>>) = 0
  OBVIOUS
<1>2. QED
  BY <1>1 DEF Part, Listed

LEMMA JoinedPart ==
  ASSUME NEW s, NEW t, NEW scope, NEW N, NEW M, NEW G, NEW H,
         Part(s, scope, N, G), Part(t, scope, M, H), N \cap M = {}
  PROVE  Part(s \o t, scope, N \cup M, G \cup H)
<1> DEFINE st == s \o t
<1>1. Listed(s) /\ Listed(t) /\ Len(s) \in Nat /\ Len(t) \in Nat
  BY ListedIs DEF Part
<1>2. /\ Listed(st) /\ Len(st) = Len(s) + Len(t)
      /\ \A i \in 1..Len(s) : st[i] = s[i]
      /\ \A i \in 1..Len(t) : st[Len(s) + i] = t[i]
  BY <1>1, Joined
<1> HIDE DEF st
<1>3. ASSUME NEW i \in 1..Len(st)
      PROVE  \/ i \in 1..Len(s) /\ st[i] = s[i]
             \/ \E j \in 1..Len(t) : i = Len(s) + j /\ st[i] = t[j]
  <2>1. CASE i <= Len(s)
    BY <1>1, <1>2, <2>1
  <2>2. CASE ~(i <= Len(s))
    <3>1. i - Len(s) \in 1..Len(t) /\ i = Len(s) + (i - Len(s))
      BY <1>1, <1>2, <2>2
    <3>2. QED
      BY <1>2, <3>1
  <2>3. QED
    BY <2>1, <2>2
<1>4. ASSUME NEW i \in 1..Len(st)
      PROVE  /\ st[i].scope = scope
             /\ \/ st[i].do = "use" /\ st[i].name \in N \cup M
                \/ st[i].do = "route" /\ st[i].name \in G \cup H
  <2>1. CASE i \in 1..Len(s) /\ st[i] = s[i]
    BY <2>1 DEF Part
  <2>2. ASSUME NEW j \in 1..Len(t), st[i] = t[j]
        PROVE  /\ st[i].scope = scope
               /\ \/ st[i].do = "use" /\ st[i].name \in N \cup M
                  \/ st[i].do = "route" /\ st[i].name \in G \cup H
    BY <2>2 DEF Part
  <2>3. QED
    BY <1>3, <2>1, <2>2
<1>5. ASSUME NEW n \in N \cup M PROVE \E i \in 1..Len(st) : st[i].do = "use" /\ st[i].name = n
  <2>1. CASE n \in N
    <3>1. PICK i \in 1..Len(s) : s[i].do = "use" /\ s[i].name = n
      BY <2>1 DEF Part
    <3>2. i \in 1..Len(st)
      BY <1>1, <1>2
    <3>3. QED
      BY <1>2, <3>1, <3>2
  <2>2. CASE n \in M
    <3>1. PICK i \in 1..Len(t) : t[i].do = "use" /\ t[i].name = n
      BY <2>2 DEF Part
    <3>2. Len(s) + i \in 1..Len(st)
      BY <1>1, <1>2
    <3>3. QED
      BY <1>2, <3>1, <3>2
  <2>3. QED
    BY <2>1, <2>2
<1>6. ASSUME NEW i \in 1..Len(st), NEW j \in 1..Len(st),
             st[i].do = "use", st[j].do = "use", st[i].name = st[j].name
      PROVE  i = j
  <2>1. ASSUME NEW k \in 1..Len(st), st[k].do = "use"
        PROVE  \/ k \in 1..Len(s) /\ st[k] = s[k] /\ st[k].name \in N
               \/ \E l \in 1..Len(t) : k = Len(s) + l /\ st[k] = t[l] /\ st[k].name \in M
    <3>1. CASE k \in 1..Len(s) /\ st[k] = s[k]
      BY <2>1, <3>1 DEF Part
    <3>2. ASSUME NEW l \in 1..Len(t), k = Len(s) + l, st[k] = t[l]
          PROVE  st[k].name \in M
      BY <2>1, <3>2 DEF Part
    <3>3. QED
      BY <1>3, <3>1, <3>2
  <2>2. CASE st[i].name \in N
    <3>1. /\ i \in 1..Len(s) /\ st[i] = s[i]
          /\ j \in 1..Len(s) /\ st[j] = s[j]
      BY <1>6, <2>1, <2>2
    <3>2. QED
      BY <1>6, <3>1 DEF Part
  <2>3. CASE st[i].name \notin N
    <3>1. PICK k \in 1..Len(t) : i = Len(s) + k /\ st[i] = t[k]
      BY <1>6, <2>1, <2>3
    <3>2. PICK l \in 1..Len(t) : j = Len(s) + l /\ st[j] = t[l]
      BY <1>6, <2>1, <2>3
    <3>3. k = l
      BY <1>6, <3>1, <3>2 DEF Part
    <3>4. QED
      BY <3>1, <3>2, <3>3
  <2>4. QED
    BY <2>2, <2>3
<1>7. QED
  BY <1>2, <1>4, <1>5, <1>6 DEF Part, st

-----------------------------------------------------------------------------
(***************************************************************************)
(* What NewRouter registers                                                *)
(***************************************************************************)
Given(c, layers) == c.on \cap layers

EngineLayers(c) ==
  {"recovery", "cors", "requestID"} \cup Given(c, {"timeout", "metrics", "limit", "breaker", "trace"})

MetricsHandlers(c) == IF "metrics" \in c.on THEN {"Metrics"} ELSE {}

EngineHandlers(c) ==
  {"CheckHealth", "Ping", "ListCodes"}
  \cup (IF "profile" \in c.on THEN {"Profile"} ELSE {})
  \cup (IF c.prod THEN {} ELSE {"ShowConfig", "Swagger"})

SessionLayers(c) == IF c.secret THEN SessionChecks ELSE {}

LEMMA UseIfPart ==
  ASSUME NEW c, NEW layer
  PROVE  Part(UseIf(c, layer), "engine", Given(c, {layer}), {})
<1>1. CASE layer \in c.on
  <2>1. Given(c, {layer}) = {layer} /\ UseIf(c, layer) = Use("engine", layer)
    BY <1>1 DEF Given, UseIf, If
  <2>2. QED
    BY <2>1, UsePart
<1>2. CASE layer \notin c.on
  <2>1. Given(c, {layer}) = {} /\ UseIf(c, layer) = <<>>
    BY <1>2 DEF Given, UseIf, If
  <2>2. QED
    BY <2>1, EmptyPart
<1>3. QED
  BY <1>1, <1>2

LEMMA MetricsPart ==
  ASSUME NEW c
  PROVE  Part(Metrics(c), "engine", Given(c, {"metrics"}), MetricsHandlers(c))
<1> DEFINE both == Route("engine", "GET", <<"metrics">>, "Metrics") \o Use("engine", "metrics")
<1>1. Part(both, "engine", {} \cup {"metrics"}, {"Metrics"} \cup {})
  BY RoutePart, UsePart, JoinedPart
<1>2. {} \cup {"metrics"} = {"metrics"} /\ {"Metrics"} \cup {} = {"Metrics"}
  OBVIOUS
<1>3. Part(both, "engine", {"metrics"}, {"Metrics"})
  BY <1>1, <1>2
<1> HIDE DEF both
<1>4. CASE "metrics" \in c.on
  <2>1. Given(c, {"metrics"}) = {"metrics"} /\ MetricsHandlers(c) = {"Metrics"} /\ Metrics(c) = both
    BY <1>4 DEF Given, MetricsHandlers, Metrics, If, both
  <2>2. QED
    BY <1>3, <2>1
<1>5. CASE "metrics" \notin c.on
  <2>1. Given(c, {"metrics"}) = {} /\ MetricsHandlers(c) = {} /\ Metrics(c) = <<>>
    BY <1>5 DEF Given, MetricsHandlers, Metrics, If
  <2>2. QED
    BY <2>1, EmptyPart
<1>6. QED
  BY <1>4, <1>5

LEMMA EngineUsesPart ==
  ASSUME NEW c
  PROVE  Part(EngineUses(c), "engine", EngineLayers(c), MetricsHandlers(c))
<1> DEFINE s1 == Use("engine", "recovery")
           s2 == s1 \o Use("engine", "cors")
           s3 == s2 \o UseIf(c, "timeout")
           s4 == s3 \o Use("engine", "requestID")
           s5 == s4 \o Metrics(c)
           s6 == s5 \o UseIf(c, "limit")
           s7 == s6 \o UseIf(c, "breaker")
           s8 == s7 \o UseIf(c, "trace")
           N2 == {"recovery"} \cup {"cors"}
           N3 == N2 \cup Given(c, {"timeout"})
           N4 == N3 \cup {"requestID"}
           N5 == N4 \cup Given(c, {"metrics"})
           N6 == N5 \cup Given(c, {"limit"})
           N7 == N6 \cup Given(c, {"breaker"})
           N8 == N7 \cup Given(c, {"trace"})
           H2 == {} \cup {}
           H4 == (H2 \cup {}) \cup {}
           H5 == H4 \cup MetricsHandlers(c)
           H8 == ((H5 \cup {}) \cup {}) \cup {}
<1>1. EngineUses(c) = s8
  BY DEF EngineUses
<1>2. N8 = EngineLayers(c) /\ H8 = MetricsHandlers(c)
  BY DEF Given, EngineLayers
<1>3. /\ {"recovery"} \cap {"cors"} = {} /\ N2 \cap Given(c, {"timeout"}) = {}
      /\ N3 \cap {"requestID"} = {} /\ N4 \cap Given(c, {"metrics"}) = {}
      /\ N5 \cap Given(c, {"limit"}) = {} /\ N6 \cap Given(c, {"breaker"}) = {}
      /\ N7 \cap Given(c, {"trace"}) = {}
  BY DEF Given
<1>4. Part(s2, "engine", N2, H2)
  BY <1>3, UsePart, JoinedPart
<1> HIDE DEF s2, N2, H2
<1>5. Part(s3, "engine", N3, H2 \cup {})
  BY <1>3, <1>4, UseIfPart, JoinedPart
<1> HIDE DEF s3, N3
<1>6. Part(s4, "engine", N4, H4)
  BY <1>3, <1>5, UsePart, JoinedPart
<1> HIDE DEF s4, N4, H4
<1>7. Part(s5, "engine", N5, H5)
  BY <1>3, <1>6, MetricsPart, JoinedPart
<1> HIDE DEF s5, N5, H5
<1>8. Part(s6, "engine", N6, H5 \cup {})
  BY <1>3, <1>7, UseIfPart, JoinedPart
<1> HIDE DEF s6, N6
<1>9. Part(s7, "engine", N7, (H5 \cup {}) \cup {})
  BY <1>3, <1>8, UseIfPart, JoinedPart
<1> HIDE DEF s7, N7
<1>10. Part(s8, "engine", N8, H8)
  BY <1>3, <1>9, UseIfPart, JoinedPart
<1> HIDE DEF s8, N8, H8
<1>11. QED
  BY <1>1, <1>2, <1>10

\* Routes that are joined.
LEMMA JoinedRoutes ==
  ASSUME NEW s, NEW t, NEW scope, NEW G, NEW H, Part(s, scope, {}, G), Part(t, scope, {}, H)
  PROVE  Part(s \o t, scope, {}, G \cup H)
<1>1. {} \cap {} = {} /\ {} \cup {} = {}
  OBVIOUS
<1>2. Part(s \o t, scope, {} \cup {}, G \cup H)
  BY <1>1, JoinedPart
<1>3. QED
  BY <1>1, <1>2

LEMMA EngineRoutesPart ==
  ASSUME NEW c
  PROVE  Part(EngineRoutes(c), "engine", {}, EngineHandlers(c))
<1> DEFINE s1 == If("profile" \in c.on, Route("engine", "GET", <<"debug", "pprof", "">>, "Profile"))
           s2 == s1 \o Route("engine", "GET", <<"health">>, "CheckHealth")
           s3 == s2 \o Route("engine", "GET", <<"ping">>, "Ping")
           s4 == s3 \o Route("engine", "GET", <<"codes">>, "ListCodes")
           t == Route("engine", "GET", <<"config">>, "ShowConfig")
                \o Route("engine", "GET", <<"swagger", "*any">>, "Swagger")
           s5 == s4 \o If(~c.prod, t)
           H1 == IF "profile" \in c.on THEN {"Profile"} ELSE {}
           H4 == ((H1 \cup {"CheckHealth"}) \cup {"Ping"}) \cup {"ListCodes"}
           H5 == IF c.prod THEN {} ELSE {"ShowConfig"} \cup {"Swagger"}
<1>1. EngineRoutes(c) = s5
  BY DEF EngineRoutes
<1>2. H4 \cup H5 = EngineHandlers(c)
  BY DEF EngineHandlers
<1>3. Part(s1, "engine", {}, H1)
  <2>1. CASE "profile" \in c.on
    <3>1. s1 = Route("engine", "GET", <<"debug", "pprof", "">>, "Profile") /\ H1 = {"Profile"}
      BY <2>1 DEF If
    <3>2. QED
      BY <3>1, RoutePart
  <2>2. CASE "profile" \notin c.on
    <3>1. s1 = <<>> /\ H1 = {}
      BY <2>2 DEF If
    <3>2. QED
      BY <3>1, EmptyPart
  <2>3. QED
    BY <2>1, <2>2
<1> HIDE DEF s1, H1
<1>4. Part(s4, "engine", {}, H4)
  <2>1. Part(s2, "engine", {}, H1 \cup {"CheckHealth"})
    BY <1>3, RoutePart, JoinedRoutes
  <2> HIDE DEF s2
  <2>2. Part(s3, "engine", {}, (H1 \cup {"CheckHealth"}) \cup {"Ping"})
    BY <2>1, RoutePart, JoinedRoutes
  <2> HIDE DEF s3
  <2>3. QED
    BY <2>2, RoutePart, JoinedRoutes
<1>5. Part(t, "engine", {}, {"ShowConfig"} \cup {"Swagger"})
  BY RoutePart, JoinedRoutes
<1> HIDE DEF s4, t, H4
<1>6. Part(If(~c.prod, t), "engine", {}, H5)
  <2>1. CASE c.prod
    <3>1. If(~c.prod, t) = <<>> /\ H5 = {}
      BY <2>1 DEF If
    <3>2. QED
      BY <3>1, EmptyPart
  <2>2. CASE ~c.prod
    <3>1. If(~c.prod, t) = t /\ H5 = {"ShowConfig"} \cup {"Swagger"}
      BY <2>2 DEF If
    <3>2. QED
      BY <1>5, <3>1
  <2>3. QED
    BY <2>1, <2>2
<1> HIDE DEF H5
<1>7. Part(s5, "engine", {}, H4 \cup H5)
  BY <1>4, <1>6, JoinedRoutes
<1>8. QED
  BY <1>1, <1>2, <1>7

LEMMA SessionUsesPart ==
  ASSUME NEW c
  PROVE  Part(SessionUses(c), "users", SessionLayers(c), {})
<1> DEFINE t == Use("users", "railsCookie") \o Use("users", "sessionUser")
<1>1. {"railsCookie"} \cap {"sessionUser"} = {}
  OBVIOUS
<1>2. Part(t, "users", {"railsCookie"} \cup {"sessionUser"}, {} \cup {})
  BY <1>1, UsePart, JoinedPart
<1>3. {"railsCookie"} \cup {"sessionUser"} = SessionChecks /\ {} \cup {} = {}
  BY DEF SessionChecks
<1>4. Part(t, "users", SessionChecks, {})
  BY <1>2, <1>3
<1>5. CASE c.secret
  <2>1. SessionUses(c) = t /\ SessionLayers(c) = SessionChecks
    BY <1>5 DEF SessionUses, If, SessionLayers
  <2>2. QED
    BY <1>4, <2>1
<1>6. CASE ~c.secret
  <2>1. SessionUses(c) = <<>> /\ SessionLayers(c) = {}
    BY <1>6 DEF SessionUses, If, SessionLayers
  <2>2. QED
    BY <2>1, EmptyPart
<1>7. QED
  BY <1>5, <1>6

LEMMA UsersRoutesPart == Part(UsersRoutes, "users", {}, UsersHandlers)
<1> DEFINE R(method, path, handler) == Route("users", method, UsersPath(path), handler)
           s2 == R("POST", <<"">>, "Create") \o R("DELETE", <<":id">>, "DeleteByID")
           s3 == s2 \o R("PUT", <<":id">>, "UpdateByID")
           s4 == s3 \o R("GET", <<":id">>, "GetByID")
           s5 == s4 \o R("POST", <<"list">>, "List")
           s6 == s5 \o R("POST", <<"delete", "ids">>, "DeleteByIDs")
           s7 == s6 \o R("POST", <<"condition">>, "GetByCondition")
           s8 == s7 \o R("POST", <<"list", "ids">>, "ListByIDs")
           s9 == s8 \o R("GET", <<"list">>, "ListByLastID")
           H4 == (({"Create"} \cup {"DeleteByID"}) \cup {"UpdateByID"}) \cup {"GetByID"}
           H7 == ((H4 \cup {"List"}) \cup {"DeleteByIDs"}) \cup {"GetByCondition"}
           H9 == (H7 \cup {"ListByIDs"}) \cup {"ListByLastID"}
<1>1. UsersRoutes = s9
  BY DEF UsersRoutes
<1>2. H9 = UsersHandlers
  BY DEF UsersHandlers
<1>3. \A method, path, handler : Part(R(method, path, handler), "users", {}, {handler})
  BY RoutePart
<1> HIDE DEF R
<1>4. Part(s4, "users", {}, H4)
  <2>1. Part(s2, "users", {}, {"Create"} \cup {"DeleteByID"})
    BY <1>3, JoinedRoutes
  <2> HIDE DEF s2
  <2>2. Part(s3, "users", {}, ({"Create"} \cup {"DeleteByID"}) \cup {"UpdateByID"})
    BY <1>3, <2>1, JoinedRoutes
  <2> HIDE DEF s3
  <2>3. QED
    BY <1>3, <2>2, JoinedRoutes
<1> HIDE DEF s4, H4
<1>5. Part(s7, "users", {}, H7)
  <2>1. Part(s5, "users", {}, H4 \cup {"List"})
    BY <1>3, <1>4, JoinedRoutes
  <2> HIDE DEF s5
  <2>2. Part(s6, "users", {}, (H4 \cup {"List"}) \cup {"DeleteByIDs"})
    BY <1>3, <2>1, JoinedRoutes
  <2> HIDE DEF s6
  <2>3. QED
    BY <1>3, <2>2, JoinedRoutes
<1> HIDE DEF s7, H7
<1>6. Part(s9, "users", {}, H9)
  <2>1. Part(s8, "users", {}, H7 \cup {"ListByIDs"})
    BY <1>3, <1>5, JoinedRoutes
  <2> HIDE DEF s8
  <2>2. QED
    BY <1>3, <2>1, JoinedRoutes
<1> HIDE DEF s9, H9
<1>7. QED
  BY <1>1, <1>2, <1>6

(***************************************************************************)
(* The list from its beginning to its end: up to place a the middlewares   *)
(* of the engine, and the route that comes with one of them, up to b its   *)
(* routes; then the opening of the group, up to d its middlewares, and     *)
(* its routes.                                                             *)
(***************************************************************************)
Shape(c, reg, a, b, d) ==
  /\ Len(reg) \in Nat /\ DOMAIN reg = 1..Len(reg) /\ a <= b /\ b < d /\ d <= Len(reg)
  /\ \A j \in 1..a :
       /\ reg[j].scope = "engine"
       /\ \/ reg[j].do = "use" /\ reg[j].name \in EngineLayers(c)
          \/ reg[j].do = "route" /\ reg[j].name \in MetricsHandlers(c)
  /\ \A j \in a+1..b :
       reg[j].scope = "engine" /\ reg[j].do = "route" /\ reg[j].name \in EngineHandlers(c)
  /\ reg[b + 1].do = "group" /\ reg[b + 1].scope = "users"
  /\ \A j \in b+2..d :
       reg[j].scope = "users" /\ reg[j].do = "use" /\ reg[j].name \in SessionLayers(c)
  /\ \A j \in d+1..Len(reg) :
       reg[j].scope = "users" /\ reg[j].do = "route" /\ reg[j].name \in UsersHandlers
  /\ \A n \in EngineLayers(c) : \E j \in 1..a : reg[j].do = "use" /\ reg[j].name = n
  /\ \A n \in SessionLayers(c) : \E j \in b+2..d : reg[j].name = n
  /\ \A i, j \in 1..Len(reg) :
       reg[i].do = "use" /\ reg[j].do = "use" /\ reg[i].name = reg[j].name => i = j

LEMMA Placed ==
  ASSUME NEW m \in Nat, NEW n \in Nat, NEW j \in m+1..m+n
  PROVE  j - m \in 1..n /\ m + (j - m) = j
OBVIOUS

LEMMA LayersApart == ASSUME NEW c PROVE EngineLayers(c) \cap SessionLayers(c) = {}
BY DEF EngineLayers, Given, SessionLayers, SessionChecks

LEMMA RouterShape ==
  ASSUME NEW c
  PROVE  \E a, b, d \in Nat : Shape(c, Registered(c), a, b, d)
<1> DEFINE eu == EngineUses(c)
           er == EngineRoutes(c)
           su == SessionUses(c)
           ur == UsersRoutes
           g == Group("users")
           reg == Registered(c)
           a == Len(eu)
           b == a + Len(er)
           d == b + 1 + Len(su)
<1>1. /\ Part(eu, "engine", EngineLayers(c), MetricsHandlers(c))
      /\ Part(er, "engine", {}, EngineHandlers(c))
      /\ Part(su, "users", SessionLayers(c), {})
      /\ Part(ur, "users", {}, UsersHandlers)
  BY EngineUsesPart, EngineRoutesPart, SessionUsesPart, UsersRoutesPart
<1>2. Listed(g) /\ Len(g) = 1 /\ g[1].do = "group" /\ g[1].scope = "users"
  <2> DEFINE r == [do |-> "group", scope |-> "users", name |-> "", method |-> "", path |-> <<>>]
             q == <<r>>
  <2>1. q \in Seq({r}) /\ Len(q) = 1 /\ q[1] = r
    OBVIOUS
  <2>2. r.do = "group" /\ r.scope = "users"
    OBVIOUS
  <2>3. g = q
    BY DEF Group
  <2> HIDE DEF r, q
  <2>4. QED
    BY <2>1, <2>2, <2>3 DEF Listed
<1>3. reg = (eu \o er) \o ((g \o su) \o ur)
  BY DEF Registered, UsersRouter
<1> HIDE DEF eu, er, su, ur, g, reg
<1>4. Listed(eu) /\ Listed(er) /\ Listed(su) /\ Listed(ur)
  BY <1>1 DEF Part
<1>5. Len(eu) \in Nat /\ Len(er) \in Nat /\ Len(su) \in Nat /\ Len(ur) \in Nat
  BY <1>4, ListedIs
<1> DEFINE e == eu \o er
           t == g \o su
           u == t \o ur
<1>6. /\ Listed(e) /\ Len(e) = b
      /\ \A i \in 1..Len(eu) : e[i] = eu[i]
      /\ \A i \in 1..Len(er) : e[a + i] = er[i]
  BY <1>4, Joined
<1>7. /\ Listed(t) /\ Len(t) = 1 + Len(su)
      /\ \A i \in 1..1 : t[i] = g[i]
      /\ \A i \in 1..Len(su) : t[1 + i] = su[i]
  <2>1. Listed(g) /\ Listed(su)
    BY <1>2, <1>4
  <2>2. /\ Listed(t) /\ Len(t) = Len(g) + Len(su)
        /\ \A i \in 1..Len(g) : t[i] = g[i]
        /\ \A i \in 1..Len(su) : t[Len(g) + i] = su[i]
    BY <2>1, Joined
  <2> HIDE DEF t
  <2>3. QED
    BY <1>2, <2>2
<1> HIDE DEF e, t
<1>8. /\ Listed(u) /\ Len(u) = Len(t) + Len(ur)
      /\ \A i \in 1..Len(t) : u[i] = t[i]
      /\ \A i \in 1..Len(ur) : u[Len(t) + i] = ur[i]
  BY <1>4, <1>7, Joined
<1> HIDE DEF u
<1>9. /\ Listed(reg) /\ Len(reg) = Len(e) + Len(u)
      /\ \A i \in 1..Len(e) : reg[i] = e[i]
      /\ \A i \in 1..Len(u) : reg[Len(e) + i] = u[i]
  BY <1>3, <1>6, <1>8, Joined DEF e, t, u
<1>10. DOMAIN reg = 1..Len(reg) /\ Len(reg) \in Nat
  BY <1>9, ListedIs
<1>11. a \in Nat /\ b \in Nat /\ d \in Nat /\ Len(reg) = d + Len(ur)
  BY <1>5, <1>6, <1>7, <1>8, <1>9
<1>12. /\ \A i \in 1..Len(eu) : reg[i] = eu[i]
       /\ \A i \in 1..Len(er) : reg[a + i] = er[i]
       /\ reg[b + 1] = g[1]
       /\ \A i \in 1..Len(su) : reg[b + 1 + i] = su[i]
       /\ \A i \in 1..Len(ur) : reg[d + i] = ur[i]
  <2>1. ASSUME NEW i \in 1..Len(eu) PROVE reg[i] = eu[i]
    <3>1. i \in 1..Len(e)
      BY <1>5, <1>6
    <3>2. QED
      BY <1>6, <1>9, <3>1
  <2>2. ASSUME NEW i \in 1..Len(er) PROVE reg[a + i] = er[i]
    <3>1. a + i \in 1..Len(e)
      BY <1>5, <1>6
    <3>2. QED
      BY <1>6, <1>9, <3>1
  <2>3. ASSUME NEW i \in 1..Len(t) PROVE reg[b + i] = t[i]
    <3>1. i \in 1..Len(u)
      BY <1>5, <1>7, <1>8
    <3>2. reg[Len(e) + i] = u[i]
      BY <1>9, <3>1
    <3>3. QED
      BY <1>6, <1>8, <3>2
  <2>4. reg[b + 1] = g[1]
    <3>1. 1 \in 1..Len(t) /\ t[1] = g[1]
      BY <1>5, <1>7
    <3>2. QED
      BY <2>3, <3>1
  <2>5. ASSUME NEW i \in 1..Len(su) PROVE reg[b + 1 + i] = su[i]
    <3>1. 1 + i \in 1..Len(t) /\ b + (1 + i) = b + 1 + i
      BY <1>5, <1>7
    <3>2. QED
      BY <1>7, <2>3, <3>1
  <2>6. ASSUME NEW i \in 1..Len(ur) PROVE reg[d + i] = ur[i]
    <3>1. Len(t) + i \in 1..Len(u) /\ b + (Len(t) + i) = d + i
      BY <1>5, <1>7, <1>8, <1>11
    <3>2. reg[Len(e) + (Len(t) + i)] = u[Len(t) + i]
      BY <1>9, <3>1
    <3>3. QED
      BY <1>6, <1>8, <3>1, <3>2
  <2>7. QED
    BY <2>1, <2>2, <2>4, <2>5, <2>6
<1>13. a <= b /\ b < d /\ d <= Len(reg)
  BY <1>5, <1>11
<1>14. ASSUME NEW j \in 1..a
       PROVE  /\ reg[j].scope = "engine"
              /\ \/ reg[j].do = "use" /\ reg[j].name \in EngineLayers(c)
                 \/ reg[j].do = "route" /\ reg[j].name \in MetricsHandlers(c)
  BY <1>1, <1>12 DEF Part
<1>15. ASSUME NEW j \in a+1..b
       PROVE  reg[j].scope = "engine" /\ reg[j].do = "route" /\ reg[j].name \in EngineHandlers(c)
  <2>1. j - a \in 1..Len(er) /\ a + (j - a) = j
    BY <1>5, Placed
  <2>2. reg[j] = er[j - a]
    BY <1>12, <2>1
  <2>3. QED
    BY <1>1, <2>1, <2>2 DEF Part
<1>16. reg[b + 1].do = "group" /\ reg[b + 1].scope = "users"
  BY <1>2, <1>12
<1>17. ASSUME NEW j \in b+2..d PROVE \E i \in 1..Len(su) : j = b + 1 + i /\ reg[j] = su[i]
  <2>1. b + 1 \in Nat /\ j \in (b + 1)+1..(b + 1)+Len(su)
    BY <1>5, <1>11
  <2>2. j - (b + 1) \in 1..Len(su) /\ b + 1 + (j - (b + 1)) = j
    BY <1>5, <2>1, Placed
  <2>3. QED
    BY <1>12, <2>2
<1>18. ASSUME NEW j \in b+2..d
       PROVE  reg[j].scope = "users" /\ reg[j].do = "use" /\ reg[j].name \in SessionLayers(c)
  <2>1. PICK i \in 1..Len(su) : reg[j] = su[i]
    BY <1>17
  <2>2. QED
    BY <1>1, <2>1 DEF Part
<1>19. ASSUME NEW j \in d+1..Len(reg)
       PROVE  reg[j].scope = "users" /\ reg[j].do = "route" /\ reg[j].name \in UsersHandlers
  <2>1. j \in d+1..d+Len(ur)
    BY <1>11
  <2>2. j - d \in 1..Len(ur) /\ d + (j - d) = j
    BY <1>5, <1>11, <2>1, Placed
  <2>3. reg[j] = ur[j - d]
    BY <1>12, <2>2
  <2>4. QED
    BY <1>1, <2>2, <2>3 DEF Part
<1>20. ASSUME NEW n \in EngineLayers(c) PROVE \E j \in 1..a : reg[j].do = "use" /\ reg[j].name = n
  BY <1>1, <1>12 DEF Part
<1>21. ASSUME NEW n \in SessionLayers(c) PROVE \E j \in b+2..d : reg[j].name = n
  <2>1. PICK i \in 1..Len(su) : su[i].name = n
    BY <1>1 DEF Part
  <2>2. b + 1 + i \in b+2..d
    BY <1>5, <1>11
  <2>3. QED
    BY <1>12, <2>1, <2>2
<1>22. ASSUME NEW i \in 1..Len(reg), NEW j \in 1..Len(reg),
              reg[i].do = "use", reg[j].do = "use", reg[i].name = reg[j].name
       PROVE  i = j
  <2>1. ASSUME NEW k \in 1..Len(reg), reg[k].do = "use"
        PROVE  \/ k \in 1..a /\ reg[k].name \in EngineLayers(c)
               \/ k \in b+2..d /\ reg[k].name \in SessionLayers(c)
    <3>1. k \in 1..a \/ k \in a+1..b \/ k = b + 1 \/ k \in b+2..d \/ k \in d+1..Len(reg)
      BY <1>10, <1>11, <1>13
    <3>2. QED
      BY <1>14, <1>15, <1>16, <1>18, <1>19, <2>1, <3>1
  <2>2. CASE reg[i].name \in EngineLayers(c)
    <3>1. i \in 1..a /\ j \in 1..a
      BY <1>22, <2>1, <2>2, LayersApart
    <3>2. QED
      BY <1>1, <1>12, <1>22, <3>1 DEF Part
  <2>3. CASE reg[i].name \notin EngineLayers(c)
    <3>1. i \in b+2..d /\ j \in b+2..d
      BY <1>22, <2>1, <2>3
    <3>2. PICK k \in 1..Len(su) : i = b + 1 + k /\ reg[i] = su[k]
      BY <1>17, <3>1
    <3>3. PICK l \in 1..Len(su) : j = b + 1 + l /\ reg[j] = su[l]
      BY <1>17, <3>1
    <3>4. k = l
      BY <1>1, <1>22, <3>2, <3>3 DEF Part
    <3>5. QED
      BY <3>2, <3>3, <3>4
  <2>4. QED
    BY <2>2, <2>3
<1> HIDE DEF a, b, d
<1>23. Shape(c, reg, a, b, d)
  BY <1>10, <1>13, <1>14, <1>15, <1>16, <1>18, <1>19, <1>20, <1>21, <1>22 DEF Shape
<1>24. QED
  BY <1>11, <1>23 DEF reg

LEMMA ShapePlaces ==
  ASSUME NEW c, NEW reg, NEW a \in Nat, NEW b \in Nat, NEW d \in Nat, Shape(c, reg, a, b, d),
         NEW j \in 1..Len(reg)
  PROVE  /\ reg[j].do = "use" =>
              \/ j \in 1..a /\ reg[j].scope = "engine" /\ reg[j].name \in EngineLayers(c)
              \/ j \in b+2..d /\ reg[j].scope = "users" /\ reg[j].name \in SessionLayers(c)
         /\ reg[j].do = "route" =>
              \/ j \in 1..a /\ reg[j].scope = "engine" /\ reg[j].name \in MetricsHandlers(c)
              \/ j \in a+1..b /\ reg[j].scope = "engine" /\ reg[j].name \in EngineHandlers(c)
              \/ j \in d+1..Len(reg) /\ reg[j].scope = "users" /\ reg[j].name \in UsersHandlers
         /\ reg[j].do = "group" => j = b + 1 /\ reg[j].scope = "users"
<1>1. j \in 1..a \/ j \in a+1..b \/ j = b + 1 \/ j \in b+2..d \/ j \in d+1..Len(reg)
  BY DEF Shape
<1>2. CASE j \in 1..a
  BY <1>2 DEF Shape
<1>3. CASE j \in a+1..b
  BY <1>3 DEF Shape
<1>4. CASE j = b + 1
  BY <1>4 DEF Shape
<1>5. CASE j \in b+2..d
  BY <1>5 DEF Shape
<1>6. CASE j \in d+1..Len(reg)
  BY <1>6 DEF Shape
<1>7. QED
  BY <1>1, <1>2, <1>3, <1>4, <1>5, <1>6

\* There is one group.
LEMMA GroupPlace ==
  ASSUME NEW c, NEW reg, NEW a \in Nat, NEW b \in Nat, NEW d \in Nat, Shape(c, reg, a, b, d),
         NEW j \in 1..Len(reg), reg[j].do = "group"
  PROVE  j = b + 1 /\ reg[j].scope = "users"
<1>1. j \in 1..a \/ j \in a+1..b \/ j = b + 1 \/ j \in b+2..d \/ j \in d+1..Len(reg)
  BY DEF Shape
<1>2. QED
  BY <1>1 DEF Shape

-----------------------------------------------------------------------------
(***************************************************************************)
(* What a request is to go through                                         *)
(***************************************************************************)
LayerNames(T) == {x.name : x \in T}

Final(T, h) == \E x \in T : x.name = h /\ \A y \in T : y # x => y.name # h /\ y.at < x.at

\* Going through T, in ascending order, a request is led to h: past all of the engine's
\* middlewares unless h is the page of the metrics, then past the session check if h is a
\* handler of the users API, and past nothing twice.
Leads(c, T, h) ==
  /\ T \subseteq [at : Nat, name : EngineLayers(c) \cup SessionLayers(c) \cup {h}]
  /\ Final(T, h)
  /\ \A x, y \in T : x.at = y.at \/ x.name = y.name => x = y
  /\ h # "Metrics" => EngineLayers(c) \subseteq LayerNames(T)
  /\ h \in UsersHandlers => SessionLayers(c) \subseteq LayerNames(T)
  /\ h = "Metrics" => SessionLayers(c) \cap LayerNames(T) = {}
  /\ \A x, y \in T : x.name \in SessionLayers(c) /\ y.name \in EngineLayers(c) => y.at < x.at

Fallbacks == {"proxy", "not found"}
RouteHandlers(c) == MetricsHandlers(c) \cup EngineHandlers(c) \cup UsersHandlers

LEMMA HandlersApart ==
  ASSUME NEW c, NEW h \in RouteHandlers(c) \cup Fallbacks
  PROVE  /\ h \notin Layers /\ h \notin EngineLayers(c) /\ h \notin SessionLayers(c)
         /\ h \notin Refusals \cup Redirects \cup {Open, "challenge", "no certificate", "unreachable"}
BY DEF RouteHandlers, Fallbacks, MetricsHandlers, EngineHandlers, UsersHandlers, Layers, Optional, EngineLayers,
   SessionLayers, SessionChecks, Refusals, Redirects, Open, Given

LEMMA HandlersDiffer ==
  ASSUME NEW c
  PROVE  /\ EngineHandlers(c) \cap UsersHandlers = {} /\ MetricsHandlers(c) \cap UsersHandlers = {}
         /\ "Metrics" \notin EngineHandlers(c) /\ "Metrics" \notin UsersHandlers
         /\ MetricsHandlers(c) \subseteq {"Metrics"}
BY DEF MetricsHandlers, EngineHandlers, UsersHandlers

\* The list of registrations in J, if they end in k.
LEMMA HandlersLead ==
  ASSUME NEW c, NEW reg, NEW J \in SUBSET Nat, NEW k \in J,
         \A j \in J \ {k} : j < k /\ reg[j].name \in EngineLayers(c) \cup SessionLayers(c),
         reg[k].name \notin EngineLayers(c) \cup SessionLayers(c),
         \A i, j \in J : reg[i].name = reg[j].name => i = j
  PROVE  LET T == Handlers(reg, J) IN
           /\ T \subseteq [at : Nat, name : EngineLayers(c) \cup SessionLayers(c) \cup {reg[k].name}]
           /\ Final(T, reg[k].name)
           /\ \A x, y \in T : x.at = y.at \/ x.name = y.name => x = y
<1> DEFINE T == Handlers(reg, J)
           H(j) == [at |-> j, name |-> reg[j].name]
<1>1. \A x \in T : \E j \in J : x = H(j)
  BY DEF Handlers
<1>2. \A j \in J : H(j) \in T /\ H(j).at = j /\ H(j).name = reg[j].name
  BY DEF Handlers
<1>3. \A j \in J : H(j) \in [at : Nat, name : EngineLayers(c) \cup SessionLayers(c) \cup {reg[k].name}]
  OBVIOUS
<1> HIDE DEF T, H
<1>4. Final(T, reg[k].name)
  <2>1. ASSUME NEW y \in T, y # H(k) PROVE y.name # reg[k].name /\ y.at < k
    <3>1. PICK j \in J : y = H(j)
      BY <1>1
    <3>2. j \in J \ {k} /\ y.at = j /\ y.name = reg[j].name
      BY <1>2, <2>1, <3>1
    <3>3. QED
      BY <3>2
  <2>2. QED
    BY <1>2, <2>1 DEF Final
<1>5. ASSUME NEW x \in T, NEW y \in T, x.at = y.at \/ x.name = y.name PROVE x = y
  <2>1. PICK i \in J : x = H(i)
    BY <1>1
  <2>2. PICK j \in J : y = H(j)
    BY <1>1
  <2>3. i = j
    BY <1>2, <1>5, <2>1, <2>2
  <2>4. QED
    BY <2>1, <2>2, <2>3
<1>6. T \subseteq [at : Nat, name : EngineLayers(c) \cup SessionLayers(c) \cup {reg[k].name}]
  BY <1>1, <1>3
<1>7. QED
  BY <1>4, <1>5, <1>6 DEF T

LEMMA HandlersNames ==
  ASSUME NEW reg, NEW J, NEW T, T = Handlers(reg, J)
  PROVE  /\ \A j \in J : reg[j].name \in LayerNames(T)
         /\ \A n \in LayerNames(T) : \E j \in J : n = reg[j].name
         /\ \A x \in T : x.at \in J /\ x.name = reg[x.at].name
<1> DEFINE H(j) == [at |-> j, name |-> reg[j].name]
<1>1. \A x \in T : \E j \in J : x = H(j)
  BY DEF Handlers
<1>2. \A j \in J : H(j) \in T
  BY DEF Handlers
<1>3. \A j \in J : H(j).at = j /\ H(j).name = reg[j].name
  OBVIOUS
<1> HIDE DEF H
<1>4. QED
  BY <1>1, <1>2, <1>3 DEF LayerNames

\* A route's chain leads to its handler.
LEMMA ChainLeads ==
  ASSUME NEW c, NEW reg, NEW a \in Nat, NEW b \in Nat, NEW d \in Nat, Shape(c, reg, a, b, d),
         NEW k \in 1..Len(reg), reg[k].do = "route"
  PROVE  reg[k].name \in RouteHandlers(c) /\ Leads(c, Chain(reg, k), reg[k].name)
<1> DEFINE scope == reg[k].scope
           own == {j \in Uses(reg, scope) : j < k}
           J == (Inherited(reg, scope) \cup own) \cup {k}
           h == reg[k].name
           T == Chain(reg, k)
<1>1. /\ Len(reg) \in Nat /\ DOMAIN reg = 1..Len(reg) /\ a <= b /\ b < d /\ d <= Len(reg)
      /\ T = Handlers(reg, J)
  BY DEF Shape, Chain
<1>2. \/ k \in 1..a /\ scope = "engine" /\ h \in MetricsHandlers(c)
      \/ k \in a+1..b /\ scope = "engine" /\ h \in EngineHandlers(c)
      \/ k \in d+1..Len(reg) /\ scope = "users" /\ h \in UsersHandlers
  BY ShapePlaces
<1>3. h \in RouteHandlers(c) /\ h \notin EngineLayers(c) /\ h \notin SessionLayers(c)
  BY <1>2, HandlersApart DEF RouteHandlers
<1>4. \A j : j \in J \ {k} <=>
        /\ j \in 1..Len(reg) /\ reg[j].do = "use" /\ j < k
        /\ reg[j].scope = "engine" \/ reg[j].scope = scope
  <2>1. ASSUME NEW j \in Inherited(reg, scope)
        PROVE  j \in 1..Len(reg) /\ reg[j].do = "use" /\ j < k /\ reg[j].scope = "engine"
    <3>1. j \in 1..Len(reg) /\ reg[j].do = "use" /\ reg[j].scope = "engine"
      BY <1>1 DEF Inherited, Uses
    <3>2. PICK l \in 1..Len(reg) : j < l /\ reg[l].do = "group" /\ reg[l].scope = scope
      BY <1>1 DEF Inherited
    <3>3. l = b + 1 /\ scope = "users"
      <4>1. l = b + 1 /\ reg[l].scope = "users"
        BY <3>2, GroupPlace
      <4>2. QED
        BY <3>2, <4>1
    <3>4. k \in d+1..Len(reg)
      BY <1>2, <3>3
    <3>5. QED
      BY <1>1, <3>1, <3>2, <3>3, <3>4
  <2>2. ASSUME NEW j \in own
        PROVE  j \in 1..Len(reg) /\ reg[j].do = "use" /\ j < k /\ reg[j].scope = scope
    BY <1>1 DEF Uses
  <2>3. ASSUME NEW j \in 1..Len(reg), reg[j].do = "use", j < k, reg[j].scope = scope
        PROVE  j \in own
    BY <1>1, <2>3 DEF Uses
  <2>4. ASSUME NEW j \in 1..Len(reg), reg[j].do = "use", j < k, reg[j].scope = "engine", scope # "engine"
        PROVE  j \in Inherited(reg, scope)
    <3>1. b + 1 \in 1..Len(reg) /\ reg[b + 1].do = "group" /\ reg[b + 1].scope = "users"
      BY <1>1 DEF Shape
    <3>2. j \in 1..a
      BY <1>1, <2>4, ShapePlaces
    <3>3. scope = "users" /\ j < b + 1
      BY <1>1, <1>2, <2>4, <3>2
    <3>4. QED
      BY <1>1, <2>4, <3>1, <3>3 DEF Inherited, Uses
  <2> HIDE DEF scope, own
  <2>5. QED
    BY <2>1, <2>2, <2>3, <2>4
<1> HIDE DEF J, own
<1>5. k \in J
  BY DEF J
<1>6. \A j \in J \ {k} : j < k /\ reg[j].name \in EngineLayers(c) \cup SessionLayers(c)
  BY <1>4, ShapePlaces
<1>7. J \subseteq 1..Len(reg)
  BY <1>4
<1>8. \A i, j \in J : reg[i].name = reg[j].name => i = j
  <2>1. ASSUME NEW i \in J, NEW j \in J, reg[i].name = reg[j].name PROVE i = j
    <3>1. CASE i = k \/ j = k
      BY <1>3, <1>6, <2>1, <3>1
    <3>2. CASE i # k /\ j # k
      BY <1>4, <2>1, <3>2 DEF Shape
    <3>3. QED
      BY <3>1, <3>2
  <2>2. QED
    BY <2>1
<1>9. /\ T \subseteq [at : Nat, name : EngineLayers(c) \cup SessionLayers(c) \cup {h}]
      /\ Final(T, h)
      /\ \A x, y \in T : x.at = y.at \/ x.name = y.name => x = y
  <2>1. J \in SUBSET Nat
    BY <1>1, <1>7
  <2>2. QED
    BY <1>1, <1>3, <1>5, <1>6, <1>8, <2>1, HandlersLead
<1>10. /\ \A j \in J : reg[j].name \in LayerNames(T)
       /\ \A n \in LayerNames(T) : \E j \in J : n = reg[j].name
       /\ \A x \in T : x.at \in J /\ x.name = reg[x.at].name
  BY <1>1, HandlersNames
<1>11. \A x \in T : x.at \in J /\ x.name = reg[x.at].name
  BY <1>10
<1>12. ASSUME h # "Metrics" PROVE EngineLayers(c) \subseteq LayerNames(T)
  <2>1. k > a
    BY <1>1, <1>2, <1>12, HandlersDiffer
  <2>2. ASSUME NEW n \in EngineLayers(c) PROVE n \in LayerNames(T)
    <3>1. PICK j \in 1..a : reg[j].do = "use" /\ reg[j].name = n
      BY DEF Shape
    <3>2. reg[j].scope = "engine" /\ j \in 1..Len(reg) /\ j < k
      BY <1>1, <2>1 DEF Shape
    <3>3. QED
      BY <1>4, <1>10, <3>1, <3>2
  <2>3. QED
    BY <2>2
<1>13. ASSUME h \in UsersHandlers PROVE SessionLayers(c) \subseteq LayerNames(T)
  <2>1. k > d /\ scope = "users"
    BY <1>1, <1>2, <1>13, HandlersDiffer
  <2>2. ASSUME NEW n \in SessionLayers(c) PROVE n \in LayerNames(T)
    <3>1. PICK j \in b+2..d : reg[j].name = n
      BY DEF Shape
    <3>2. reg[j].do = "use" /\ reg[j].scope = "users" /\ j \in 1..Len(reg) /\ j < k
      BY <1>1, <2>1 DEF Shape
    <3>3. QED
      BY <1>4, <1>10, <2>1, <3>1, <3>2
  <2>3. QED
    BY <2>2
<1>14. ASSUME h = "Metrics" PROVE SessionLayers(c) \cap LayerNames(T) = {}
  <2>1. scope = "engine"
    BY <1>2, <1>14, HandlersDiffer
  <2>2. ASSUME NEW j \in J PROVE reg[j].name \notin SessionLayers(c)
    <3>1. CASE j = k
      BY <1>3, <3>1
    <3>2. CASE j # k
      <4>1. j \in 1..Len(reg) /\ reg[j].do = "use" /\ reg[j].scope = "engine"
        BY <1>4, <2>1, <3>2
      <4>2. reg[j].name \in EngineLayers(c)
        BY <4>1, ShapePlaces
      <4>3. QED
        BY <4>2, LayersApart
    <3>3. QED
      BY <3>1, <3>2
  <2>3. ASSUME NEW n \in LayerNames(T) PROVE n \notin SessionLayers(c)
    BY <1>10, <2>2
  <2>4. QED
    BY <2>3
<1>15. ASSUME NEW x \in T, NEW y \in T, x.name \in SessionLayers(c), y.name \in EngineLayers(c)
       PROVE  y.at < x.at
  <2>1. x.at # k /\ y.at # k
    BY <1>3, <1>11, <1>15
  <2>2. x.at \in b+2..d /\ y.at \in 1..a
    <3>1. /\ x.at \in 1..Len(reg) /\ reg[x.at].do = "use" /\ reg[x.at].name \in SessionLayers(c)
          /\ y.at \in 1..Len(reg) /\ reg[y.at].do = "use" /\ reg[y.at].name \in EngineLayers(c)
      BY <1>4, <1>11, <1>15, <2>1
    <3>2. reg[x.at].name \notin EngineLayers(c) /\ reg[y.at].name \notin SessionLayers(c)
      BY <3>1, LayersApart
    <3>3. QED
      BY <3>1, <3>2, ShapePlaces
  <2>3. QED
    BY <1>1, <2>2
<1>16. QED
  BY <1>3, <1>9, <1>12, <1>13, <1>14, <1>15 DEF Leads

\* So do the handlers of NoRoute, whatever the path.
LEMMA NoRouteLeads ==
  ASSUME NEW c, NEW reg, NEW a \in Nat, NEW b \in Nat, NEW d \in Nat, Shape(c, reg, a, b, d),
         NEW h \in Fallbacks
  PROVE  Leads(c, NoRoute(reg, h), h)
<1> DEFINE U == Uses(reg, "engine")
           E == Handlers(reg, U)
           H(j) == [at |-> j, name |-> reg[j].name]
           z == [at |-> Len(reg) + 1, name |-> h]
           T == NoRoute(reg, h)
<1>1. Len(reg) \in Nat /\ a <= b /\ b < d /\ d <= Len(reg)
  BY DEF Shape
<1>0. DOMAIN reg = 1..Len(reg)
  BY DEF Shape
<1>2. T = E \cup {z} /\ z.at = Len(reg) + 1 /\ z.name = h
  BY DEF NoRoute
<1>3. h \notin EngineLayers(c) /\ h \notin SessionLayers(c) /\ h # "Metrics" /\ h \notin UsersHandlers
  BY HandlersApart DEF Fallbacks, UsersHandlers
<1>4. ASSUME NEW j \in U PROVE j \in 1..Len(reg) /\ reg[j].do = "use" /\ reg[j].name \in EngineLayers(c)
  <2>1. j \in 1..Len(reg) /\ reg[j].do = "use" /\ reg[j].scope = "engine"
    BY <1>0 DEF Uses
  <2>2. QED
    BY <2>1, ShapePlaces
<1>5. ASSUME NEW n \in EngineLayers(c) PROVE \E j \in U : reg[j].name = n
  <2>1. PICK j \in 1..a : reg[j].do = "use" /\ reg[j].name = n
    BY DEF Shape
  <2>2. j \in 1..Len(reg)
    BY <1>1
  <2>3. reg[j].scope = "engine"
    BY DEF Shape
  <2>4. QED
    BY <1>0, <2>1, <2>2, <2>3 DEF Uses
<1>6. \A i, j \in U : reg[i].name = reg[j].name => i = j
  BY <1>4 DEF Shape
<1>7. \A x \in E : \E j \in U : x = H(j)
  BY DEF Handlers
<1>8. \A j \in U : H(j) \in E
  BY DEF Handlers
<1>9. \A j : H(j).at = j /\ H(j).name = reg[j].name
  OBVIOUS
<1> DEFINE N == EngineLayers(c) \cup SessionLayers(c) \cup {h}
<1>10. z \in [at : Nat, name : N]
  <2>1. Len(reg) + 1 \in Nat /\ h \in N
    BY <1>1
  <2> HIDE DEF N
  <2>2. QED
    BY <2>1
<1>11. ASSUME NEW j \in U PROVE H(j) \in [at : Nat, name : N]
  <2>1. j \in Nat /\ reg[j].name \in N
    BY <1>1, <1>4
  <2> HIDE DEF N, U
  <2>2. QED
    BY <2>1
<1> HIDE DEF U, E, H, z, T
<1>12. ASSUME NEW x \in T, x # z
       PROVE  \E j \in U : x = H(j) /\ x.at = j /\ x.name = reg[j].name
                            /\ x.at < z.at /\ x.name # h /\ x.name \in EngineLayers(c)
  <2>1. PICK j \in U : x = H(j)
    BY <1>2, <1>7, <1>12
  <2>2. x.at = j /\ x.name = reg[j].name
    BY <1>9, <2>1
  <2>3. x.at \in 1..Len(reg) /\ x.name \in EngineLayers(c)
    BY <1>4, <2>2
  <2>4. x.at < z.at
    BY <1>1, <1>2, <2>3
  <2>5. x.name # h
    BY <1>3, <2>3
  <2>6. QED
    BY <2>1, <2>2, <2>3, <2>4, <2>5
<1>13. T \subseteq [at : Nat, name : N]
  BY <1>2, <1>7, <1>10, <1>11
<1>14. \A x \in T : x.at \in Nat
  BY <1>13
<1>15. Final(T, h)
  <2>1. z \in T
    BY <1>2
  <2>2. \A y \in T : y # z => y.name # h /\ y.at < z.at
    BY <1>12
  <2>3. QED
    BY <1>2, <2>1, <2>2 DEF Final
<1>16. ASSUME NEW x \in T, NEW y \in T, x.at = y.at \/ x.name = y.name PROVE x = y
  <2>1. CASE x = z \/ y = z
    <3>1. ASSUME NEW u \in T, u # z PROVE u.at # z.at /\ u.name # z.name
      <4>1. u.at < z.at /\ u.name # h /\ u.at \in Nat /\ z.at \in Nat
        BY <1>1, <1>2, <1>12, <1>14, <3>1
      <4>2. QED
        BY <1>2, <4>1
    <3>2. QED
      BY <1>16, <2>1, <3>1
  <2>2. CASE x # z /\ y # z
    <3>1. PICK i \in U : x = H(i) /\ x.at = i /\ x.name = reg[i].name
      BY <1>12, <2>2
    <3>2. PICK j \in U : y = H(j) /\ y.at = j /\ y.name = reg[j].name
      BY <1>12, <2>2
    <3>3. i = j
      BY <1>6, <1>16, <3>1, <3>2
    <3>4. QED
      BY <3>1, <3>2, <3>3
  <2>3. QED
    BY <2>1, <2>2
<1>17. ASSUME NEW n \in EngineLayers(c) PROVE n \in LayerNames(T)
  <2>1. PICK j \in U : reg[j].name = n
    BY <1>5
  <2>2. H(j) \in T /\ H(j).name = n
    BY <1>2, <1>8, <1>9, <2>1
  <2>3. QED
    BY <2>2 DEF LayerNames
<1>18. ASSUME NEW x \in T PROVE x.name \notin SessionLayers(c)
  BY <1>2, <1>3, <1>12, LayersApart
<1>19. QED
  <2>1. \A x, y \in T : x.name \in SessionLayers(c) /\ y.name \in EngineLayers(c) => y.at < x.at
    BY <1>18
  <2>2. EngineLayers(c) \subseteq LayerNames(T)
    BY <1>17
  <2>3. Leads(c, T, h)
    BY <1>3, <1>13, <1>15, <1>16, <2>1, <2>2 DEF Leads, N
  <2>4. QED
    BY <2>3 DEF T

-----------------------------------------------------------------------------
(***************************************************************************)
(* The inductive invariant                                                 *)
(***************************************************************************)
Outer(c) == c.on \cap {"log", "body", "gzip", "start"}
Ends(c) == RouteHandlers(c) \cup (IF c.proxy THEN {"proxy"} ELSE {"not found"})

\* On the way through Wrap to the engine.
Wrapped ==
  /\ Final(todo, "engine")
  /\ LayerNames(todo) \subseteq Outer(config) \cup {"engine"}
  /\ ToSet(passed) \subseteq Outer(config)
  /\ Outside \subseteq ToSet(passed) \cup LayerNames(todo)

\* On the way through the engine's handlers to h.
Routed(h) ==
  /\ h \in Ends(config)
  /\ Final(todo, h)
  /\ LayerNames(todo) \subseteq EngineLayers(config) \cup SessionLayers(config) \cup {h}
  /\ Outside \subseteq ToSet(passed)
  /\ h # "Metrics" => EngineLayers(config) \subseteq ToSet(passed) \cup LayerNames(todo)
  /\ h = "Metrics" => SessionLayers(config) \cap LayerNames(todo) = {}
  /\ \A x, y \in todo :
       x.name \in SessionLayers(config) /\ y.name \in EngineLayers(config) => y.at < x.at
  /\ h \in UsersHandlers /\ config.secret =>
       "sessionUser" \in LayerNames(todo) \/ Verified(config, req.session)

\* Nothing is met twice, and what a request has still to go through is in order.
InOrder ==
  /\ \A x, y \in todo : x.at = y.at \/ x.name = y.name => x = y
  /\ IsInjective(passed)
  /\ LayerNames(todo) \cap ToSet(passed) = {}

Walking ==
  /\ todo # {} => answer = Open /\ (Wrapped \/ \E h \in Ends(config) : Routed(h))
  /\ answer = Open /\ todo = {} => passed = <<>>

Secured == TlsEnabled(config) /\ ~req.tls => todo = {} /\ answer \in {Open, "redirect", "challenge"}

WalkInv == TypeOK /\ InOrder /\ Walking /\ Secured /\ OnlyTheUserGetsIn /\ NothingSlipsBy

\* What RedirectLeadsHome supposes.
AsksForAPage ==
  /\ asked.method \in {"GET", "HEAD"}
  /\ asked.host.name # Blank
  /\ (\E d \in config.domains : d.name # Blank) => \E d \in config.domains : d.name = asked.host.name

RoutesTo(path) == Routes(Registered(config), asked.method, path)

\* The path asked for has no route, but the one with or without its slash has.
Moved == RoutesTo(asked.path) = {} /\ RoutesTo(OtherSlash(asked.path)) # {}

Homeward ==
  /\ req.method = asked.method /\ req.host.name = asked.host.name /\ (asked.tls => req.tls)
  /\ req.path = asked.path \/ (Moved /\ req.path = OtherSlash(asked.path))
  /\ hops <= (IF req.tls /\ ~asked.tls THEN 1 ELSE 0) + (IF req.path = asked.path THEN 0 ELSE 1)
  /\ answer = "redirect" => ~req.tls
  /\ answer = "slash" => Moved /\ req.path = asked.path
  /\ TlsEnabled(config) /\ ~req.tls => req.path = asked.path
  /\ todo # {} /\ "engine" \notin LayerNames(todo) => Final(todo, Home(config, asked))
  /\ answer \notin Redirects \cup Refusals \cup {Open} =>
       answer = Home(config, asked) \/ (answer = "challenge" /\ IsChallenge(asked.path))

HomeInv == AsksForAPage => Homeward

-----------------------------------------------------------------------------
(***************************************************************************)
(* Lemmas about the steps                                                  *)
(***************************************************************************)

\* The engine is what Wrap leads to, past the layers that are turned on.
LEMMA WrapLeads ==
  ASSUME NEW c
  PROVE  /\ Wrap(c) \subseteq [at : Nat, name : Layers]
         /\ Final(Wrap(c), "engine")
         /\ LayerNames(Wrap(c)) = Outer(c) \cup {"engine"}
         /\ \A x, y \in Wrap(c) : x.at = y.at \/ x.name = y.name => x = y
<1> DEFINE H(i) == [at |-> i, name |-> Nesting[i]]
           J == {i \in DOMAIN Nesting : Nesting[i] \in c.on \cup {"engine"}}
           T == Wrap(c)
<1>1. /\ DOMAIN Nesting = 1..5 /\ Nesting[1] = "log" /\ Nesting[2] = "body" /\ Nesting[3] = "gzip"
      /\ Nesting[4] = "start" /\ Nesting[5] = "engine"
  BY DEF Nesting
<1>2. T = {H(i) : i \in J}
  BY DEF Wrap
<1>3. \A i : H(i).at = i /\ H(i).name = Nesting[i]
  OBVIOUS
<1>4. J \subseteq 1..5 /\ 5 \in J
  BY <1>1
<1>5. \A i \in J : i \in Nat /\ Nesting[i] \in Layers /\ Nesting[i] \in Outer(c) \cup {"engine"}
  BY <1>1, <1>4 DEF Layers, Optional, Outer
<1>6. \A i, j \in J : Nesting[i] = Nesting[j] => i = j
  BY <1>1, <1>4
<1>7. \A n \in Outer(c) \cup {"engine"} : \E i \in J : n = Nesting[i]
  BY <1>1 DEF Outer
<1>8. \A i \in J : H(i) \in [at : Nat, name : Layers]
  BY <1>5
<1> HIDE DEF H, J, T
<1>9. T \subseteq [at : Nat, name : Layers]
  BY <1>2, <1>8
<1>10. H(5) \in T /\ H(5).name = "engine" /\ H(5).at = 5
  BY <1>1, <1>2, <1>3, <1>4
<1>11. ASSUME NEW y \in T, y # H(5) PROVE y.name # "engine" /\ y.at < 5
  <2>1. PICK i \in J : y = H(i)
    BY <1>2
  <2>2. i # 5 /\ i \in 1..5 /\ y.at = i /\ y.name = Nesting[i]
    BY <1>3, <1>4, <1>11, <2>1
  <2>3. QED
    BY <1>1, <1>4, <1>6, <2>2
<1>12. Final(T, "engine")
  BY <1>10, <1>11 DEF Final
<1>13. LayerNames(T) = Outer(c) \cup {"engine"}
  <2>1. ASSUME NEW n \in LayerNames(T) PROVE n \in Outer(c) \cup {"engine"}
    BY <1>2, <1>3, <1>5 DEF LayerNames
  <2>2. ASSUME NEW n \in Outer(c) \cup {"engine"} PROVE n \in LayerNames(T)
    BY <1>2, <1>3, <1>7 DEF LayerNames
  <2>3. QED
    BY <2>1, <2>2
<1>14. ASSUME NEW x \in T, NEW y \in T, x.at = y.at \/ x.name = y.name PROVE x = y
  <2>1. PICK i \in J : x = H(i)
    BY <1>2
  <2>2. PICK j \in J : y = H(j)
    BY <1>2
  <2>3. i = j
    BY <1>3, <1>6, <1>14, <2>1, <2>2
  <2>4. QED
    BY <2>1, <2>2, <2>3
<1>15. QED
  BY <1>9, <1>12, <1>13, <1>14 DEF T

\* A route the engine finds leads to its handler.
LEMMA RouteLeads ==
  ASSUME NEW c, NEW method, NEW path, Routes(Registered(c), method, path) # {}
  PROVE  LET k == BestRoute(Registered(c), method, path)
             h == Registered(c)[k].name
         IN  h \in RouteHandlers(c) /\ Leads(c, Chain(Registered(c), k), h)
<1> DEFINE reg == Registered(c)
           fitting == Routes(reg, method, path)
           exact == {k \in fitting : reg[k].path = path}
           k == BestRoute(reg, method, path)
<1>1. k \in fitting
  <2>1. \E l \in fitting : exact # {} => l \in exact
    OBVIOUS
  <2>2. QED
    BY <2>1 DEF BestRoute
<1>2. PICK a \in Nat, b \in Nat, d \in Nat : Shape(c, reg, a, b, d)
  BY RouterShape
<1>3. k \in 1..Len(reg) /\ reg[k].do = "route"
  <2>1. k \in DOMAIN reg /\ reg[k].do = "route"
    BY <1>1 DEF Routes
  <2>2. DOMAIN reg = 1..Len(reg)
    BY <1>2 DEF Shape
  <2>3. QED
    BY <2>1, <2>2
<1> HIDE DEF reg, k
<1>4. reg[k].name \in RouteHandlers(c) /\ Leads(c, Chain(reg, k), reg[k].name)
  BY <1>2, <1>3, ChainLeads
<1>5. QED
  BY <1>4 DEF reg, k

\* What is added to a list that does not have it.
LEMMA AppendFresh ==
  ASSUME NEW S, NEW s \in Seq(S), NEW n \in S, IsInjective(s), n \notin ToSet(s)
  PROVE  /\ Append(s, n) \in Seq(S) /\ IsInjective(Append(s, n))
         /\ ToSet(Append(s, n)) = ToSet(s) \cup {n}
<1> DEFINE t == Append(s, n)
<1>1. /\ Len(s) \in Nat /\ DOMAIN s = 1..Len(s)
      /\ t \in Seq(S) /\ Len(t) = Len(s) + 1 /\ t[Len(s) + 1] = n
      /\ \A i \in 1..Len(s) : t[i] = s[i]
  BY AppendProperties, LenProperties
<1>2. DOMAIN t = 1..Len(s) + 1
  BY <1>1, LenProperties
<1> HIDE DEF t
<1>3. \A i \in 1..Len(s) : s[i] \in ToSet(s) /\ s[i] # n
  BY <1>1 DEF ToSet
<1>4. \A i, j \in 1..Len(s) : s[i] = s[j] => i = j
  BY <1>1 DEF IsInjective
<1>5. \A i \in 1..Len(s) + 1 : i \in 1..Len(s) \/ i = Len(s) + 1
  BY <1>1
<1>6. \A i, j \in 1..Len(s) + 1 : t[i] = t[j] => i = j
  BY <1>1, <1>3, <1>4, <1>5
<1>7. IsInjective(t)
  BY <1>2, <1>6 DEF IsInjective
<1>8. ASSUME NEW m \in ToSet(t) PROVE m \in ToSet(s) \cup {n}
  <2>1. PICK i \in 1..Len(s) + 1 : m = t[i]
    BY <1>2 DEF ToSet
  <2>2. QED
    BY <1>1, <1>3, <1>5, <2>1
<1>9. ASSUME NEW m \in ToSet(s) \cup {n} PROVE m \in ToSet(t)
  <2>1. CASE m = n
    <3>1. Len(s) + 1 \in DOMAIN t
      BY <1>1, <1>2
    <3>2. QED
      BY <1>1, <2>1, <3>1 DEF ToSet
  <2>2. CASE m \in ToSet(s)
    <3>1. PICK i \in 1..Len(s) : m = s[i]
      BY <1>1, <2>2 DEF ToSet
    <3>2. i \in DOMAIN t /\ m = t[i]
      BY <1>1, <1>2, <3>1
    <3>3. QED
      BY <3>2 DEF ToSet
  <2>3. QED
    BY <1>9, <2>1, <2>2
<1>10. QED
  BY <1>1, <1>7, <1>8, <1>9 DEF t

LEMMA LayersTyped ==
  ASSUME NEW c \in ConfigType
  PROVE  /\ EngineLayers(c) \cup SessionLayers(c) \subseteq Layers
         /\ Ends(c) \subseteq Answerers(c)
         /\ Outer(c) \cap (EngineLayers(c) \cup SessionLayers(c) \cup Ends(c)) = {}
         /\ (c.on \cap {"log", "body", "gzip", "start"}) \subseteq Layers \ {"engine"}
<1>1. c.on \subseteq Optional
  BY DEF ConfigType
<1>2. EngineLayers(c) \cup SessionLayers(c) \subseteq Layers
  BY <1>1 DEF EngineLayers, Given, SessionLayers, Layers, Optional
<1>3. Ends(c) \subseteq Answerers(c)
  BY DEF Ends, RouteHandlers, MetricsHandlers, EngineHandlers, Answerers
<1>4. Outer(c) \cap (EngineLayers(c) \cup SessionLayers(c)) = {}
  BY DEF Outer, EngineLayers, Given, SessionLayers, SessionChecks
<1>5. Outer(c) \cap Ends(c) = {}
  BY DEF Outer, Ends, RouteHandlers, MetricsHandlers, EngineHandlers, UsersHandlers
<1>6. QED
  BY <1>1, <1>2, <1>3, <1>4, <1>5 DEF Layers, Optional

LEMMA CaseTyped ==
  ASSUME TypeOK
  PROVE  config \in ConfigType /\ asked \in RequestType
BY FrontDoorAssumption DEF TypeOK

\* As long as no layer and no handler has answered there is little to show.
LEMMA NotYet ==
  ASSUME answer' \in {Open, "challenge", "no certificate", "unreachable"} \cup Redirects,
         IsInjective(passed')
  PROVE  OnlyTheUserGetsIn' /\ NothingSlipsBy'
<1>1. answer' \notin UsersHandlers \cup SessionChecks \cup Refusals \cup {"Metrics"}
  BY DEF Open, Redirects, UsersHandlers, SessionChecks, Refusals
<1>2. OnlyTheUserGetsIn'
  BY <1>1 DEF OnlyTheUserGetsIn
<1>3. NothingSlipsBy'
  BY <1>1 DEF NothingSlipsBy
<1>4. QED
  BY <1>2, <1>3

LEMMA NothingPassed == IsInjective(<<>>) /\ ToSet(<<>>) = {} /\ <<>> \in Seq(Layers)
BY DEF IsInjective, ToSet

-----------------------------------------------------------------------------
(***************************************************************************)
(* Every step keeps the invariant                                          *)
(***************************************************************************)
LEMMA InitWalk == Init => WalkInv
<1> SUFFICES ASSUME Init PROVE WalkInv
  OBVIOUS
<1>1. <<config, asked>> \in Cases
  <2>1. PICK k \in Cases : config = k[1] /\ asked = k[2]
    BY DEF Init
  <2>2. k = <<k[1], k[2]>>
    BY FrontDoorAssumption
  <2>3. QED
    BY <2>1, <2>2
<1>2. req = asked /\ todo = {} /\ passed = <<>> /\ answer = Open /\ hops = 0
  BY DEF Init
<1>3. asked \in RequestType
  BY <1>1, FrontDoorAssumption
<1>4. 0 \in 0..MaxHops
  BY FrontDoorAssumption
<1>5. TypeOK
  BY <1>1, <1>2, <1>3, <1>4, NothingPassed DEF TypeOK
<1>6. InOrder
  BY <1>2, NothingPassed DEF InOrder
<1>7. Walking /\ Secured
  BY <1>2 DEF Walking, Secured
<1>8. answer \notin UsersHandlers \cup SessionChecks \cup Refusals \cup {"Metrics"}
  BY <1>2 DEF Open, UsersHandlers, SessionChecks, Refusals
<1>9. OnlyTheUserGetsIn
  BY <1>8 DEF OnlyTheUserGetsIn
<1>10. NothingSlipsBy
  BY <1>2, <1>8, NothingPassed DEF NothingSlipsBy
<1>11. QED
  BY <1>5, <1>6, <1>7, <1>9, <1>10 DEF WalkInv

LEMMA EnterWalk == ASSUME WalkInv, Enter PROVE WalkInv'
<1>1. /\ answer = Open /\ todo = {} /\ passed = <<>>
      /\ todo' = Wrap(config) /\ config' = config /\ asked' = asked /\ req' = req
      /\ passed' = passed /\ answer' = answer /\ hops' = hops
  BY DEF WalkInv, Walking, Enter, Incoming
<1>2. config \in ConfigType
  BY CaseTyped DEF WalkInv
<1>3. TypeOK'
  <2>1. Wrap(config) \subseteq [at : Nat, name : Layers \cup Answerers(config)]
    BY WrapLeads
  <2>2. QED
    BY <1>1, <2>1 DEF WalkInv, TypeOK
<1>4. InOrder'
  BY <1>1, WrapLeads, NothingPassed DEF InOrder
<1>5. Wrapped'
  BY <1>1, WrapLeads, NothingPassed DEF Wrapped, Outside, Outer
<1>6. Walking'
  BY <1>1, <1>5, WrapLeads DEF Walking, Final
<1>7. Secured'
  BY <1>1 DEF Enter, Secured, PlainHandler
<1>8. OnlyTheUserGetsIn' /\ NothingSlipsBy'
  BY <1>1, NotYet, NothingPassed
<1>9. QED
  BY <1>3, <1>4, <1>6, <1>7, <1>8 DEF WalkInv

\* The answers given at the door.
LEMMA DoorWalk ==
  ASSUME WalkInv, RefuseHandshake \/ Challenge \/ Redirect
  PROVE  WalkInv'
<1>1. /\ answer = Open /\ todo = {} /\ passed = <<>>
      /\ todo' = todo /\ config' = config /\ asked' = asked /\ req' = req
      /\ passed' = passed /\ hops' = hops
      /\ \/ req.tls /\ answer' = "no certificate"
         \/ ~req.tls /\ answer' \in {"challenge", "redirect"}
  BY DEF WalkInv, Walking, RefuseHandshake, Challenge, Redirect, Incoming
<1>2. TypeOK'
  BY <1>1 DEF WalkInv, TypeOK, Answerers, Redirects
<1>3. InOrder' /\ Walking'
  BY <1>1, NothingPassed DEF WalkInv, InOrder, Walking, Open
<1>4. Secured'
  BY <1>1 DEF WalkInv, Secured
<1>5. OnlyTheUserGetsIn' /\ NothingSlipsBy'
  <2>1. answer' \in {Open, "challenge", "no certificate", "unreachable"} \cup Redirects
    BY <1>1 DEF Redirects
  <2>2. QED
    BY <1>1, <2>1, NotYet, NothingPassed
<1>6. QED
  BY <1>2, <1>3, <1>4, <1>5 DEF WalkInv

\* Where a request is when it gets to what it was led to: at the end.
LEMMA AtTheEnd ==
  ASSUME NEW h, NEW x, TypeOK, InOrder, Final(todo, h), At(x), x.name = h
  PROVE  todo = {x}
<1>1. PICK z \in todo : z.name = h /\ \A y \in todo : y # z => y.name # h /\ y.at < z.at
  BY DEF Final
<1>2. x \in todo /\ \A y \in todo : x.at <= y.at
  BY DEF At
<1>3. \A y \in todo : y.at \in Nat
  BY DEF TypeOK
<1>4. x = z
  BY <1>1, <1>2
<1>5. ASSUME NEW y \in todo PROVE y = x
  BY <1>1, <1>2, <1>3, <1>4
<1>6. QED
  BY <1>2, <1>5

\* The engine stands between Wrap and the handlers it leads to.
LEMMA EngineApart ==
  ASSUME NEW h \in Ends(config)
  PROVE  /\ "engine" \notin EngineLayers(config) \cup SessionLayers(config) \cup {h}
         /\ "engine" \notin Outer(config) /\ h \notin Layers
<1>1. h \in RouteHandlers(config) \cup Fallbacks
  BY DEF Ends, Fallbacks
<1>2. h \notin Layers
  BY <1>1, HandlersApart
<1>3. "engine" \in Layers
  BY DEF Layers
<1>4. QED
  BY <1>2, <1>3 DEF EngineLayers, Given, SessionLayers, SessionChecks, Outer

\* From the engine a request is led to a handler.
LEMMA LedWalk ==
  ASSUME NEW h \in Ends(config), WalkInv, Leads(config, todo', h),
         \E x \in todo : At(x) /\ x.name = "engine",
         UNCHANGED <<config, asked, req, passed, hops, answer>>
  PROVE  WalkInv'
<1>1. PICK x \in todo : At(x) /\ x.name = "engine"
  OBVIOUS
<1>2. Wrapped /\ answer = Open
  <2>1. ASSUME NEW g \in Ends(config), Routed(g) PROVE FALSE
    <3>1. x.name \in LayerNames(todo)
      BY DEF LayerNames
    <3>2. QED
      BY <1>1, <2>1, <3>1, EngineApart DEF Routed
  <2>2. QED
    BY <2>1 DEF WalkInv, Walking
<1>3. todo = {x}
  BY <1>1, <1>2, AtTheEnd DEF WalkInv, Wrapped
<1>4. LayerNames(todo) = {"engine"}
  BY <1>1, <1>3 DEF LayerNames
<1>5. Outside \subseteq ToSet(passed)
  <2>1. "engine" \notin Outside
    BY DEF Outside
  <2>2. QED
    BY <1>2, <1>4, <2>1 DEF Wrapped
<1>6. Outside' = Outside /\ SessionLayers(config)' = SessionLayers(config)
  BY DEF Outside, Notices
<1>7. todo' # {} /\ config \in ConfigType
  BY CaseTyped DEF Leads, Final, WalkInv
<1>8. TypeOK'
  <2>1. EngineLayers(config) \cup SessionLayers(config) \cup {h} \subseteq Layers \cup Answerers(config)
    BY <1>7, LayersTyped
  <2>2. todo' \subseteq [at : Nat, name : Layers \cup Answerers(config)]
    BY <2>1 DEF Leads
  <2>3. QED
    BY <2>2 DEF WalkInv, TypeOK
<1>9. LayerNames(todo') \subseteq EngineLayers(config) \cup SessionLayers(config) \cup {h}
  BY DEF Leads, LayerNames
<1>10. InOrder'
  <2>1. LayerNames(todo') \cap ToSet(passed) = {}
    BY <1>2, <1>7, <1>9, LayersTyped DEF Wrapped
  <2>2. QED
    BY <2>1 DEF WalkInv, InOrder, Leads
<1>11. Routed(h)'
  <2>1. h \in UsersHandlers /\ config.secret => "sessionUser" \in LayerNames(todo')
    BY DEF Leads, SessionLayers, SessionChecks
  <2>2. QED
    BY <1>5, <1>6, <1>9, <2>1 DEF Routed, Leads
<1>12. Walking'
  BY <1>2, <1>7, <1>11 DEF Walking
<1>13. Secured'
  BY <1>1 DEF WalkInv, Secured
<1>14. OnlyTheUserGetsIn' /\ NothingSlipsBy'
  BY <1>2, NotYet DEF WalkInv, InOrder
<1>15. QED
  BY <1>8, <1>10, <1>12, <1>13, <1>14 DEF WalkInv

LEMMA DispatchWalk == ASSUME WalkInv, Dispatch PROVE WalkInv'
<1> DEFINE reg == Registered(config)
           k == BestRoute(reg, req.method, req.path)
           fallback == IF config.proxy THEN "proxy" ELSE "not found"
<1>1. CASE Routes(reg, req.method, req.path) # {}
  <2>1. reg[k].name \in Ends(config) /\ Leads(config, Chain(reg, k), reg[k].name)
    BY <1>1, RouteLeads DEF Ends
  <2>2. todo' = Chain(reg, k) /\ UNCHANGED <<config, asked, req, passed, hops, answer>>
    BY <1>1 DEF Dispatch
  <2>3. \E x \in todo : At(x) /\ x.name = "engine"
    BY DEF Dispatch
  <2> HIDE DEF reg, k
  <2>4. QED
    BY <2>1, <2>2, <2>3, LedWalk
<1>2. CASE /\ Routes(reg, req.method, req.path) = {}
           /\ Routes(reg, req.method, OtherSlash(req.path)) # {}
  <2>1. /\ todo # {} /\ todo' = {} /\ answer' = "slash"
        /\ UNCHANGED <<config, asked, req, passed, hops>>
    BY <1>2 DEF Dispatch
  <2>2. TypeOK'
    BY <2>1 DEF WalkInv, TypeOK, Answerers, Redirects
  <2>3. InOrder' /\ Walking' /\ Secured'
    BY <2>1 DEF WalkInv, InOrder, Walking, Secured, LayerNames, Open
  <2>4. OnlyTheUserGetsIn' /\ NothingSlipsBy'
    <3>1. answer' \in {Open, "challenge", "no certificate", "unreachable"} \cup Redirects
      BY <2>1 DEF Redirects
    <3>2. QED
      BY <2>1, <3>1, NotYet DEF WalkInv, InOrder
  <2>5. QED
    BY <2>2, <2>3, <2>4 DEF WalkInv
<1>3. CASE /\ Routes(reg, req.method, req.path) = {}
           /\ Routes(reg, req.method, OtherSlash(req.path)) = {}
  <2>1. fallback \in Ends(config) /\ fallback \in Fallbacks
    BY DEF Ends, Fallbacks
  <2>2. Leads(config, NoRoute(reg, fallback), fallback)
    <3>1. PICK a \in Nat, b \in Nat, d \in Nat : Shape(config, reg, a, b, d)
      BY RouterShape
    <3> HIDE DEF reg, fallback
    <3>2. QED
      BY <2>1, <3>1, NoRouteLeads
  <2>3. todo' = NoRoute(reg, fallback) /\ UNCHANGED <<config, asked, req, passed, hops, answer>>
    BY <1>3 DEF Dispatch
  <2>4. \E x \in todo : At(x) /\ x.name = "engine"
    BY DEF Dispatch
  <2> HIDE DEF reg, fallback
  <2>5. QED
    BY <2>1, <2>2, <2>3, <2>4, LedWalk
<1>4. QED
  BY <1>1, <1>2, <1>3

\* A request that is past a layer which is not the end it is led to.
LEMMA StillLed ==
  ASSUME NEW h, NEW x \in todo, Final(todo, h), x.name # h, todo' = todo \ {x}
  PROVE  Final(todo', h)
<1>1. PICK z \in todo : z.name = h /\ \A y \in todo : y # z => y.name # h /\ y.at < z.at
  BY DEF Final
<1>2. z \in todo' /\ \A y \in todo' : y \in todo
  BY <1>1
<1>3. QED
  BY <1>1, <1>2 DEF Final

LEMMA PassWalk == ASSUME WalkInv, Pass PROVE WalkInv'
<1>1. PICK x \in todo :
        /\ At(x) /\ x.name \in Layers \ {"engine"} /\ Passes(x.name)
        /\ passed' = IF Notices(x.name) THEN Append(passed, x.name) ELSE passed
        /\ todo' = todo \ {x}
  BY DEF Pass
<1>2. UNCHANGED <<config, asked, req, answer, hops>> /\ answer = Open /\ todo # {}
  BY <1>1 DEF Pass, At
<1>3. TypeOK /\ InOrder /\ passed \in Seq(Layers) /\ IsInjective(passed) /\ config \in ConfigType
  BY CaseTyped DEF WalkInv, InOrder, TypeOK
<1>4. x.name \in LayerNames(todo) /\ x.name \notin ToSet(passed)
  BY <1>3 DEF InOrder, LayerNames
<1>5. LayerNames(todo') = LayerNames(todo) \ {x.name}
  BY <1>1, <1>3 DEF InOrder, LayerNames
<1>6. /\ passed' \in Seq(Layers) /\ IsInjective(passed')
      /\ ToSet(passed) \subseteq ToSet(passed') /\ ToSet(passed') \subseteq ToSet(passed) \cup {x.name}
      /\ Notices(x.name) => x.name \in ToSet(passed')
  <2>1. CASE Notices(x.name)
    <3>1. /\ Append(passed, x.name) \in Seq(Layers) /\ IsInjective(Append(passed, x.name))
          /\ ToSet(Append(passed, x.name)) = ToSet(passed) \cup {x.name}
      BY <1>1, <1>3, <1>4, AppendFresh
    <3>2. passed' = Append(passed, x.name)
      BY <1>1, <2>1
    <3>3. QED
      BY <3>1, <3>2
  <2>2. CASE ~Notices(x.name)
    BY <1>1, <1>3, <2>2
  <2>3. QED
    BY <2>1, <2>2
<1>7. TypeOK'
  BY <1>1, <1>2, <1>3, <1>6 DEF TypeOK
<1>8. InOrder'
  BY <1>1, <1>3, <1>5, <1>6 DEF InOrder
<1>9. x.name \in Outside \/ x.name \in EngineLayers(config) => x.name \in ToSet(passed')
  <2>1. x.name \in Outside => Notices(x.name)
    BY DEF Outside
  <2>2. x.name \in EngineLayers(config) => Notices(x.name)
    BY DEF EngineLayers, Given, Notices
  <2>3. QED
    BY <1>6, <2>1, <2>2
<1>10. Outside' = Outside
  BY <1>2 DEF Outside, Notices
<1>11. ASSUME Wrapped PROVE Wrapped'
  <2>1. Final(todo', "engine")
    BY <1>1, <1>11, StillLed DEF Wrapped
  <2>2. LayerNames(todo') \subseteq Outer(config) \cup {"engine"}
    BY <1>5, <1>11 DEF Wrapped
  <2>3. ToSet(passed') \subseteq Outer(config)
    BY <1>1, <1>4, <1>6, <1>11 DEF Wrapped
  <2>4. Outside \subseteq ToSet(passed') \cup LayerNames(todo')
    BY <1>5, <1>6, <1>9, <1>11 DEF Wrapped
  <2>5. QED
    BY <1>2, <1>10, <2>1, <2>2, <2>3, <2>4 DEF Wrapped
<1>12. ASSUME NEW h \in Ends(config), Routed(h) PROVE Routed(h)'
  <2>1. x.name # h
    BY <1>1, EngineApart
  <2>2. Final(todo', h)
    BY <1>1, <1>12, <2>1, StillLed DEF Routed
  <2>3. /\ LayerNames(todo') \subseteq EngineLayers(config) \cup SessionLayers(config) \cup {h}
        /\ h = "Metrics" => SessionLayers(config) \cap LayerNames(todo') = {}
    BY <1>5, <1>12 DEF Routed
  <2>4. Outside \subseteq ToSet(passed')
    BY <1>6, <1>12 DEF Routed
  <2>5. h # "Metrics" => EngineLayers(config) \subseteq ToSet(passed') \cup LayerNames(todo')
    BY <1>5, <1>6, <1>9, <1>12 DEF Routed
  <2>6. \A y, z \in todo' :
          y.name \in SessionLayers(config) /\ z.name \in EngineLayers(config) => z.at < y.at
    BY <1>1, <1>12 DEF Routed
  <2>7. ASSUME h \in UsersHandlers, config.secret
        PROVE  "sessionUser" \in LayerNames(todo') \/ Verified(config, req.session)
    <3>1. CASE x.name = "sessionUser"
      <4>1. ~Refuses("sessionUser")
        BY <1>1, <3>1 DEF Passes, SessionChecks
      <4>2. QED
        BY <4>1 DEF Refuses
    <3>2. CASE x.name # "sessionUser"
      BY <1>5, <1>12, <2>7, <3>2 DEF Routed
    <3>3. QED
      BY <3>1, <3>2
  <2>8. QED
    BY <1>2, <1>10, <2>2, <2>3, <2>4, <2>5, <2>6, <2>7 DEF Routed
<1>13. Walking'
  <2>1. Wrapped \/ \E h \in Ends(config) : Routed(h)
    BY <1>2 DEF WalkInv, Walking
  <2>2. Wrapped' \/ \E h \in Ends(config) : Routed(h)'
    BY <1>11, <1>12, <2>1
  <2>3. todo' # {}
    BY <2>2 DEF Wrapped, Routed, Final
  <2>4. QED
    BY <1>2, <2>2, <2>3 DEF Walking
<1>14. Secured'
  BY <1>2 DEF WalkInv, Secured
<1>15. OnlyTheUserGetsIn' /\ NothingSlipsBy'
  BY <1>2, <1>6, NotYet
<1>16. QED
  BY <1>7, <1>8, <1>13, <1>14, <1>15 DEF WalkInv

LEMMA RefuseWalk == ASSUME WalkInv, Refuse PROVE WalkInv'
<1>1. PICK x \in todo : At(x) /\ x.name \in Refusals /\ Refuses(x.name) /\ answer' = x.name
  BY DEF Refuse
<1>2. todo' = {} /\ todo # {} /\ UNCHANGED <<config, asked, req, passed, hops>>
  BY <1>1 DEF Refuse
<1>3. TypeOK /\ InOrder /\ config \in ConfigType
  BY CaseTyped DEF WalkInv
<1>4. answer' \notin {Open, "Metrics"} \cup UsersHandlers \cup Redirects
  BY <1>1 DEF Refusals, SessionChecks, Open, UsersHandlers, Redirects
<1>5. TypeOK'
  BY <1>1, <1>2 DEF WalkInv, TypeOK, Answerers
<1>6. InOrder' /\ Walking' /\ Secured'
  BY <1>2, <1>4 DEF WalkInv, InOrder, Walking, Secured, LayerNames
<1>7. PICK h \in Ends(config) : Routed(h)
  <2>1. x.name \in LayerNames(todo)
    BY DEF LayerNames
  <2>2. x.name \notin Outer(config) \cup {"engine"}
    BY <1>1 DEF Refusals, SessionChecks, Outer
  <2>3. QED
    BY <1>2, <2>1, <2>2 DEF WalkInv, Walking, Wrapped
<1>8. OnlyTheUserGetsIn'
  <2>1. ASSUME x.name \in SessionChecks
        PROVE  ~(req.session.type \in Numbers /\ req.session.val = config.userID)
    <3>1. CASE x.name = "railsCookie"
      <4>1. req.session \in {NoCookie, Forged}
        BY <1>1, <3>1 DEF Refuses
      <4>2. NoCookie.type = "no cookie" /\ Forged.type = "forged"
        BY DEF NoCookie, Forged
      <4>3. QED
        BY <4>1, <4>2 DEF Numbers
    <3>2. CASE x.name = "sessionUser"
      <4>1. ~Verified(config, req.session)
        BY <1>1, <3>2 DEF Refuses
      <4>2. QED
        BY <4>1 DEF Verified, Uid
    <3>3. QED
      BY <2>1, <3>1, <3>2 DEF SessionChecks
  <2>2. QED
    BY <1>1, <1>2, <1>4, <2>1 DEF OnlyTheUserGetsIn
<1>9. ASSUME x.name \in SessionChecks PROVE ({"limit", "breaker"} \cap config.on) \subseteq ToSet(passed)
  <2>1. x.name \in LayerNames(todo)
    BY DEF LayerNames
  <2>2. x.name \in SessionLayers(config)
    <3>1. x.name \notin EngineLayers(config)
      BY <1>9 DEF SessionChecks, EngineLayers, Given
    <3>2. x.name # h
      BY <1>9, EngineApart DEF Layers
    <3>3. QED
      BY <1>7, <2>1, <3>1, <3>2 DEF Routed
  <2>3. h # "Metrics"
    BY <1>7, <2>1, <2>2 DEF Routed
  <2>4. ASSUME NEW l \in {"limit", "breaker"} \cap config.on PROVE l \in ToSet(passed)
    <3>1. l \in EngineLayers(config)
      BY DEF EngineLayers, Given
    <3>2. ASSUME NEW y \in todo, y.name = l PROVE FALSE
      <4>1. y.at < x.at /\ x.at <= y.at
        BY <1>1, <1>7, <2>2, <3>1, <3>2 DEF Routed, At
      <4>2. y.at \in Nat /\ x.at \in Nat
        BY <1>3 DEF TypeOK
      <4>3. QED
        BY <4>1, <4>2
    <3>3. l \notin LayerNames(todo)
      BY <3>2 DEF LayerNames
    <3>4. QED
      BY <1>7, <2>3, <3>1, <3>3 DEF Routed
  <2>5. QED
    BY <2>4
<1>10. NothingSlipsBy'
  <2>1. Outside' = Outside
    BY <1>2 DEF Outside, Notices
  <2>2. Outside \subseteq ToSet(passed) /\ IsInjective(passed)
    BY <1>3, <1>7 DEF Routed, InOrder
  <2>3. QED
    BY <1>1, <1>2, <1>9, <2>1, <2>2 DEF NothingSlipsBy
<1>11. QED
  BY <1>5, <1>6, <1>8, <1>10 DEF WalkInv

LEMMA AnswerWalk == ASSUME WalkInv, Answer PROVE WalkInv'
<1>1. PICK x \in todo : At(x) /\ x.name \notin Layers /\ answer' = x.name
  BY DEF Answer, At
<1>2. todo' = {} /\ todo # {} /\ UNCHANGED <<config, asked, req, passed, hops>>
  BY <1>1 DEF Answer
<1>3. TypeOK /\ InOrder /\ config \in ConfigType
  BY CaseTyped DEF WalkInv
<1>4. PICK h \in Ends(config) : Routed(h)
  <2>1. x.name \in LayerNames(todo)
    BY DEF LayerNames
  <2>2. x.name \notin Outer(config) \cup {"engine"}
    BY <1>1, <1>3, LayersTyped DEF Outer, Layers
  <2>3. QED
    BY <1>2, <2>1, <2>2 DEF WalkInv, Walking, Wrapped
<1>5. x.name = h
  <2>1. x.name \in LayerNames(todo)
    BY DEF LayerNames
  <2>2. QED
    BY <1>1, <1>3, <1>4, <2>1, LayersTyped DEF Routed
<1>6. LayerNames(todo) = {h}
  <2>1. todo = {x}
    BY <1>1, <1>3, <1>4, <1>5, AtTheEnd DEF Routed
  <2>2. QED
    BY <1>5, <2>1 DEF LayerNames
<1>7. h \notin Refusals \cup Redirects \cup {Open}
  BY HandlersApart DEF Ends, Fallbacks
<1>8. TypeOK'
  BY <1>1, <1>2, <1>3, <1>5, LayersTyped DEF TypeOK
<1>9. InOrder' /\ Walking' /\ Secured'
  BY <1>1, <1>2, <1>5, <1>7 DEF WalkInv, InOrder, Walking, Secured, LayerNames
<1>10. OnlyTheUserGetsIn'
  <2>1. answer' \notin SessionChecks
    BY <1>1, <1>5, <1>7 DEF Refusals
  <2>2. ASSUME h \in UsersHandlers, config.secret
        PROVE  req.session.type \in Numbers /\ req.session.val = config.userID
    <3>1. "sessionUser" # h
      BY EngineApart DEF Layers, SessionChecks
    <3>2. Verified(config, req.session)
      BY <1>4, <1>6, <2>2, <3>1 DEF Routed
    <3>3. QED
      BY <3>2 DEF Verified, Uid
  <2>3. QED
    BY <1>1, <1>2, <1>5, <2>1, <2>2 DEF OnlyTheUserGetsIn
<1>11. NothingSlipsBy'
  <2>1. Outside' = Outside /\ Inside' = Inside
    BY <1>2 DEF Outside, Notices, Inside
  <2>2. Outside \subseteq ToSet(passed) /\ IsInjective(passed)
    BY <1>3, <1>4 DEF Routed, InOrder
  <2>3. ASSUME h # "Metrics" PROVE Inside \subseteq ToSet(passed)
    <3>1. EngineLayers(config) \subseteq ToSet(passed)
      BY <1>4, <1>6, <2>3, HandlersApart DEF Routed, Ends, Fallbacks
    <3>2. config.on \subseteq Optional
      BY <1>3 DEF ConfigType
    <3>3. ASSUME NEW l \in Inside PROVE l \in EngineLayers(config) \/ l \in Outside
      BY <3>2 DEF Inside, Optional, EngineLayers, Given, Outside, Notices
    <3>4. QED
      BY <2>2, <3>1, <3>3
  <2>4. answer' \notin SessionChecks
    BY <1>1, <1>5, <1>7 DEF Refusals
  <2>5. QED
    BY <1>1, <1>2, <1>5, <2>1, <2>2, <2>3, <2>4 DEF NothingSlipsBy
<1>12. QED
  BY <1>8, <1>9, <1>10, <1>11 DEF WalkInv

LEMMA OtherSlashTyped == ASSUME NEW path \in Seq(Segments) PROVE OtherSlash(path) \in Seq(Segments)
<1>1. CASE path # <<>> /\ Last(path) = ""
  <2>1. OtherSlash(path) = SubSeq(path, 1, Len(path) - 1)
    BY <1>1 DEF OtherSlash, Front
  <2>2. Len(path) \in Nat /\ \A i \in 1..Len(path) - 1 : path[i] \in Segments
    BY LenProperties
  <2>3. QED
    BY <2>1, <2>2, SubSeqProperties
<1>2. CASE ~(path # <<>> /\ Last(path) = "")
  <2>1. OtherSlash(path) = Append(path, "")
    BY <1>2 DEF OtherSlash
  <2>2. Blank \in Segments
    BY FrontDoorAssumption
  <2>3. Append(path, Blank) \in Seq(Segments)
    BY <2>2, AppendProperties
  <2>4. QED
    BY <2>1, <2>3 DEF Blank
<1>3. QED
  BY <1>1, <1>2

LEMMA FollowWalk == ASSUME WalkInv, Follow PROVE WalkInv'
<1>1. /\ answer \in Redirects /\ hops < MaxHops /\ passed' = <<>> /\ hops' = hops + 1
      /\ UNCHANGED <<config, asked, todo>>
  BY DEF Follow
<1>2. todo = {}
  BY <1>1 DEF WalkInv, Walking, Open, Redirects
<1>3. config \in ConfigType /\ req \in RequestType /\ hops \in 0..MaxHops
  BY CaseTyped DEF WalkInv, TypeOK
<1>4. RedirectTarget(config, req.host) \in [name : Names \cup {Blank}, port : Nat]
  <2>1. req.host.name \in Names \cup {Blank} /\ config.httpsPort \in Nat /\ NoPort \in Nat
    BY <1>3 DEF RequestType, ConfigType, NoPort
  <2>2. QED
    BY <2>1 DEF RedirectTarget
<1>5. /\ req' \in RequestType /\ answer' \in {Open, "unreachable"}
      /\ req'.tls \/ (answer = "slash" /\ req'.tls = req.tls)
  <2>1. CASE answer = "slash"
    <3>1. req' = [req EXCEPT !.path = OtherSlash(req.path)] /\ answer' = Open
      BY <2>1 DEF Follow
    <3>2. OtherSlash(req.path) \in Seq(Segments)
      BY <1>3, OtherSlashTyped DEF RequestType
    <3>3. req' \in RequestType /\ req'.tls = req.tls
      BY <1>3, <3>1, <3>2 DEF RequestType
    <3>4. QED
      BY <2>1, <3>1, <3>3
  <2>2. CASE answer = "redirect"
    <3>1. PICK m \in Methods :
            /\ req' = [req EXCEPT !.tls = TRUE, !.host = RedirectTarget(config, req.host), !.method = m]
            /\ answer' \in {Open, "unreachable"}
      BY <2>2 DEF Follow
    <3>2. m \in {"GET", "HEAD", "POST", "PUT", "DELETE", "OPTIONS"}
      <4>1. req.method \in {"GET", "HEAD", "POST", "PUT", "DELETE", "OPTIONS"}
        BY <1>3 DEF RequestType
      <4>2. QED
        BY <3>1, <4>1 DEF Methods
    <3>3. req' \in RequestType /\ req'.tls
      BY <1>3, <1>4, <3>1, <3>2 DEF RequestType
    <3>4. QED
      BY <3>1, <3>3
  <2>3. QED
    BY <1>1, <2>1, <2>2 DEF Redirects
<1>6. TypeOK'
  <2>1. hops + 1 \in 0..MaxHops
    BY <1>1, <1>3, FrontDoorAssumption
  <2>2. answer' \in Answerers(config) \cup {Open}
    BY <1>5 DEF Answerers
  <2>3. QED
    BY <1>1, <1>5, <2>1, <2>2, NothingPassed DEF WalkInv, TypeOK
<1>7. InOrder' /\ Walking'
  BY <1>1, <1>2, NothingPassed DEF InOrder, Walking, LayerNames
<1>8. Secured'
  <2>1. ASSUME TlsEnabled(config), ~req'.tls PROVE FALSE
    <3>1. answer = "slash" /\ ~req.tls
      BY <1>5, <2>1
    <3>2. answer \in {Open, "redirect", "challenge"}
      BY <2>1, <3>1 DEF WalkInv, Secured
    <3>3. QED
      BY <3>1, <3>2 DEF Open
  <2>2. TlsEnabled(config)' = TlsEnabled(config)
    BY <1>1
  <2>3. QED
    BY <1>1, <2>1, <2>2 DEF Secured
<1>9. OnlyTheUserGetsIn' /\ NothingSlipsBy'
  BY <1>1, <1>5, NotYet, NothingPassed
<1>10. QED
  BY <1>6, <1>7, <1>8, <1>9 DEF WalkInv

\* Wherever a request is between the listener and its answer, the layers it has passed and
\* those before it add up; WalkInv is inductive.
THEOREM WalkInvHolds == Spec => []WalkInv
<1>1. ASSUME WalkInv, [Next]_vars PROVE WalkInv'
  <2>1. CASE Enter
    BY <1>1, <2>1, EnterWalk
  <2>2. CASE RefuseHandshake \/ Challenge \/ Redirect
    BY <1>1, <2>2, DoorWalk
  <2>3. CASE Dispatch
    BY <1>1, <2>3, DispatchWalk
  <2>4. CASE Pass
    BY <1>1, <2>4, PassWalk
  <2>5. CASE Refuse
    BY <1>1, <2>5, RefuseWalk
  <2>6. CASE Answer
    BY <1>1, <2>6, AnswerWalk
  <2>7. CASE Follow
    BY <1>1, <2>7, FollowWalk
  <2>8. CASE Rest \/ UNCHANGED vars
    <3>1. UNCHANGED vars
      BY <2>8 DEF Rest
    <3>2. QED
      BY <1>1, <3>1 DEF vars, WalkInv, TypeOK, InOrder, Walking, Wrapped, Routed, Outside, Inside, Notices,
         Secured, OnlyTheUserGetsIn, NothingSlipsBy
  <2>9. QED
    BY <1>1, <2>1, <2>2, <2>3, <2>4, <2>5, <2>6, <2>7, <2>8 DEF Next
<1>2. QED
  BY <1>1, InitWalk, PTL DEF Spec

-----------------------------------------------------------------------------
(***************************************************************************)
(* The way home                                                            *)
(***************************************************************************)

\* TLS is on if, and only if, one of the domains has a name; whatever spaces stand about
\* that name, the host is known by it.
LEMMA DomainsFiltered ==
  ASSUME NEW c \in ConfigType
  PROVE  /\ \A d \in c.domains : d.name # Blank => TlsEnabled(c) /\ HostPolicy(c, d.name)
         /\ TlsEnabled(c) => \E d \in c.domains : d.name # Blank
<1>1. ASSUME NEW d \in c.domains
      PROVE  Trim(d) = [name |-> d.name, padded |-> FALSE] /\ Trim(d).name = d.name
  <2>1. d \in [name : Names \cup {Blank}, padded : BOOLEAN]
    BY DEF ConfigType
  <2>2. /\ Trim(d) \in [name : Names \cup {Blank}, padded : BOOLEAN]
        /\ Trim(d).name = d.name /\ Trim(d).padded = FALSE
    BY <2>1 DEF Trim
  <2>3. QED
    BY <2>2
<1>2. ASSUME NEW d \in c.domains, d.name # Blank PROVE Trim(d) \in FilterDomains(c)
  BY <1>1, <1>2 DEF FilterDomains
<1>3. ASSUME TlsEnabled(c) PROVE \E d \in c.domains : d.name # Blank
  <2>1. PICK e \in FilterDomains(c) : TRUE
    BY <1>3 DEF TlsEnabled
  <2>2. PICK d \in c.domains : e = Trim(d) /\ e.name # Blank
    BY <2>1 DEF FilterDomains
  <2>3. QED
    BY <1>1, <2>2
<1>4. QED
  BY <1>1, <1>2, <1>3 DEF TlsEnabled, HostPolicy

\* Home is a handler, or what NoRoute has.
LEMMA HomeEnds == ASSUME NEW c, NEW r PROVE Home(c, r) \in Ends(c)
<1> DEFINE reg == Registered(c)
           path == IF Routes(reg, r.method, r.path) # {} THEN r.path ELSE OtherSlash(r.path)
<1>1. Home(c, r) = IF Routes(reg, r.method, path) = {} THEN IF c.proxy THEN "proxy" ELSE "not found"
                   ELSE reg[BestRoute(reg, r.method, path)].name
  BY DEF Home
<1>2. CASE Routes(reg, r.method, path) = {}
  BY <1>1, <1>2 DEF Ends
<1>3. CASE Routes(reg, r.method, path) # {}
  <2> HIDE DEF path
  <2>1. reg[BestRoute(reg, r.method, path)].name \in RouteHandlers(c)
    BY <1>3, RouteLeads
  <2>2. QED
    BY <1>1, <1>3, <2>1 DEF Ends
<1>4. QED
  BY <1>2, <1>3

\* A redirect of the engine's is to a path that has a route: there is no second one.
LEMMA HomeRoute ==
  ASSUME req.path = asked.path \/ (Moved /\ req.path = OtherSlash(asked.path)),
         req.method = asked.method
  PROVE  LET reg == Registered(config) IN
           /\ Routes(reg, req.method, req.path) # {} =>
                Home(config, asked) = reg[BestRoute(reg, req.method, req.path)].name
           /\ Routes(reg, req.method, req.path) = {} => req.path = asked.path
           /\ /\ Routes(reg, req.method, req.path) = {}
              /\ Routes(reg, req.method, OtherSlash(req.path)) = {}
              => Home(config, asked) = IF config.proxy THEN "proxy" ELSE "not found"
BY DEF Home, Moved, RoutesTo

LEMMA InitHome == Init => HomeInv
<1> SUFFICES ASSUME Init, AsksForAPage PROVE Homeward
  BY DEF HomeInv
<1>1. /\ req = asked /\ todo = {} /\ answer = Open /\ hops = 0
  BY DEF Init
<1>2. answer # "redirect" /\ answer # "slash"
  BY <1>1 DEF Open
<1>3. QED
  BY <1>1, <1>2 DEF Homeward

\* The steps that neither answer the request nor change it.
LEMMA SameRequest ==
  ASSUME Homeward, UNCHANGED <<config, asked, req, hops>>,
         answer' \in Refusals \cup {Open} \/ answer' = answer,
         todo' # {} /\ "engine" \notin LayerNames(todo') => Final(todo', Home(config, asked))
  PROVE  Homeward'
<1>1. answer' \in Refusals \cup {Open} => answer' \notin {"redirect", "slash"}
  BY DEF Refusals, SessionChecks, Open
<1>2. UNCHANGED Moved /\ UNCHANGED Home(config, asked) /\ UNCHANGED TlsEnabled(config)
  BY DEF Moved, RoutesTo
<1>3. QED
  BY <1>1, <1>2 DEF Homeward

LEMMA DoorHome ==
  ASSUME WalkInv, AsksForAPage, Homeward, RefuseHandshake \/ Challenge \/ Redirect
  PROVE  Homeward'
<1>1. UNCHANGED <<config, asked, req, hops, todo>> /\ todo = {}
  BY DEF RefuseHandshake, Challenge, Redirect, Incoming
<1>2. UNCHANGED Moved /\ UNCHANGED Home(config, asked) /\ UNCHANGED TlsEnabled(config)
  BY <1>1 DEF Moved, RoutesTo
<1>3. ~RefuseHandshake
  <2>1. ASSUME RefuseHandshake PROVE FALSE
    <3>1. TlsEnabled(config) /\ ~HostPolicy(config, req.host.name)
      BY <2>1 DEF RefuseHandshake
    <3>2. config \in ConfigType
      BY CaseTyped DEF WalkInv
    <3>3. PICK d \in config.domains : d.name = asked.host.name
      BY <3>1, <3>2, DomainsFiltered DEF AsksForAPage
    <3>4. d.name # Blank /\ d.name = req.host.name
      BY <3>3 DEF AsksForAPage, Homeward
    <3>5. QED
      BY <3>1, <3>2, <3>4, DomainsFiltered
  <2>2. QED
    BY <2>1
<1>4. TlsEnabled(config) /\ ~req.tls
  BY <1>3 DEF Challenge, Redirect, PlainHandler
<1>5. \/ answer' = "challenge" /\ IsChallenge(asked.path)
      \/ answer' = "redirect"
  BY <1>3, <1>4 DEF Challenge, Redirect, Homeward
<1>6. QED
  BY <1>1, <1>2, <1>4, <1>5 DEF Homeward, Redirects

LEMMA DispatchHome ==
  ASSUME WalkInv, AsksForAPage, Homeward, Dispatch
  PROVE  Homeward'
<1> DEFINE reg == Registered(config)
           k == BestRoute(reg, req.method, req.path)
           fallback == IF config.proxy THEN "proxy" ELSE "not found"
<1>1. UNCHANGED <<config, asked, req, hops>>
  BY DEF Dispatch
<1>2. CASE Routes(reg, req.method, req.path) # {}
  <2>1. Leads(config, Chain(reg, k), reg[k].name)
    BY <1>2, RouteLeads
  <2>2. Home(config, asked) = reg[k].name
    BY <1>2, HomeRoute DEF Homeward
  <2>3. todo' = Chain(reg, k) /\ answer' = answer
    BY <1>2 DEF Dispatch
  <2> HIDE DEF reg, k
  <2>4. QED
    BY <1>1, <2>1, <2>2, <2>3, SameRequest DEF Leads
<1>3. CASE /\ Routes(reg, req.method, req.path) = {}
           /\ Routes(reg, req.method, OtherSlash(req.path)) # {}
  <2>1. todo' = {} /\ answer' = "slash"
    BY <1>3 DEF Dispatch
  <2>2. req.path = asked.path
    BY <1>3, HomeRoute DEF Homeward
  <2>3. Moved
    BY <1>3, <2>2 DEF Moved, RoutesTo, Homeward
  <2>4. UNCHANGED Moved /\ UNCHANGED TlsEnabled(config)
    BY <1>1 DEF Moved, RoutesTo
  <2>5. QED
    BY <1>1, <2>1, <2>2, <2>3, <2>4 DEF Homeward, Redirects
<1>4. CASE /\ Routes(reg, req.method, req.path) = {}
           /\ Routes(reg, req.method, OtherSlash(req.path)) = {}
  <2>1. fallback \in Fallbacks
    BY DEF Fallbacks
  <2>2. Home(config, asked) = fallback
    BY <1>4, HomeRoute DEF Homeward
  <2>3. todo' = NoRoute(reg, fallback) /\ answer' = answer
    BY <1>4 DEF Dispatch
  <2>4. PICK a \in Nat, b \in Nat, d \in Nat : Shape(config, reg, a, b, d)
    BY RouterShape
  <2> HIDE DEF reg, fallback
  <2>5. Leads(config, NoRoute(reg, fallback), fallback)
    BY <2>1, <2>4, NoRouteLeads
  <2>6. QED
    BY <1>1, <2>2, <2>3, <2>5, SameRequest DEF Leads
<1>5. QED
  BY <1>2, <1>3, <1>4

LEMMA PassHome ==
  ASSUME WalkInv, Homeward, Pass
  PROVE  Homeward'
<1>1. PICK x \in todo : x.name \in Layers \ {"engine"} /\ todo' = todo \ {x}
  BY DEF Pass
<1>2. UNCHANGED <<config, asked, req, answer, hops>>
  BY DEF Pass
<1>3. ASSUME "engine" \notin LayerNames(todo') PROVE Final(todo', Home(config, asked))
  <2>1. "engine" \notin LayerNames(todo)
    BY <1>1, <1>3 DEF LayerNames
  <2>2. Final(todo, Home(config, asked))
    BY <1>1, <2>1 DEF Homeward
  <2>3. x.name # Home(config, asked)
    BY <1>1, HomeEnds, EngineApart
  <2>4. QED
    BY <1>1, <2>2, <2>3, StillLed
<1>4. QED
  BY <1>2, <1>3, SameRequest

LEMMA AnswerHome ==
  ASSUME WalkInv, Homeward, Answer
  PROVE  Homeward'
<1>1. PICK x \in todo : At(x) /\ x.name \notin Layers /\ answer' = x.name
  BY DEF Answer, At
<1>2. todo' = {} /\ todo # {} /\ UNCHANGED <<config, asked, req, hops>>
  BY <1>1 DEF Answer
<1>3. TypeOK /\ InOrder /\ config \in ConfigType
  BY CaseTyped DEF WalkInv
<1>4. x.name \in LayerNames(todo)
  BY DEF LayerNames
<1>5. PICK h \in Ends(config) : Routed(h)
  <2>1. x.name \notin Outer(config) \cup {"engine"}
    BY <1>1, <1>3, LayersTyped DEF Outer, Layers
  <2>2. QED
    BY <1>2, <1>4, <2>1 DEF WalkInv, Walking, Wrapped
<1>6. x.name = h
  BY <1>1, <1>3, <1>4, <1>5, LayersTyped DEF Routed
<1>7. "engine" \notin LayerNames(todo)
  BY <1>5, EngineApart DEF Routed
<1>8. todo = {x}
  BY <1>1, <1>3, <1>5, <1>6, AtTheEnd DEF Routed
<1>9. x.name = Home(config, asked)
  BY <1>2, <1>7, <1>8 DEF Homeward, Final
<1>10. x.name \notin {"redirect", "slash"}
  BY <1>6, HandlersApart DEF Ends, Fallbacks, Redirects
<1>11. UNCHANGED Moved /\ UNCHANGED Home(config, asked) /\ UNCHANGED TlsEnabled(config)
  BY <1>2 DEF Moved, RoutesTo
<1>12. QED
  BY <1>1, <1>2, <1>9, <1>10, <1>11 DEF Homeward

LEMMA FollowHome ==
  ASSUME WalkInv, AsksForAPage, Homeward, Follow
  PROVE  Homeward'
<1>1. /\ answer \in Redirects /\ hops' = hops + 1 /\ UNCHANGED <<config, asked, todo>>
  BY DEF Follow
<1>2. todo = {}
  BY <1>1 DEF WalkInv, Walking, Open, Redirects
<1>3. config \in ConfigType /\ req \in RequestType /\ hops \in Nat
  BY CaseTyped, FrontDoorAssumption DEF WalkInv, TypeOK
<1>4. UNCHANGED Moved /\ UNCHANGED Home(config, asked) /\ UNCHANGED TlsEnabled(config)
  BY <1>1 DEF Moved, RoutesTo
<1>5. CASE answer = "slash"
  <2>1. req' = [req EXCEPT !.path = OtherSlash(req.path)] /\ answer' = Open
    BY <1>5 DEF Follow
  <2>2. /\ req'.path = OtherSlash(req.path) /\ req'.tls = req.tls
        /\ req'.method = req.method /\ req'.host = req.host
    BY <1>3, <2>1 DEF RequestType
  <2>3. Moved /\ req.path = asked.path
    BY <1>5 DEF Homeward
  <2>4. OtherSlash(asked.path) # asked.path
    BY <2>3 DEF Moved
  <2>5. ~(TlsEnabled(config) /\ ~req.tls)
    BY <1>5 DEF WalkInv, Secured, Open
  <2>6. hops + 1 <= (IF req.tls /\ ~asked.tls THEN 1 ELSE 0) + 1
    BY <1>3, <2>3 DEF Homeward
  <2>7. answer' \notin {"redirect", "slash"}
    BY <2>1 DEF Open
  <2>8. QED
    BY <1>1, <1>2, <1>4, <2>1, <2>2, <2>3, <2>4, <2>5, <2>6, <2>7 DEF Homeward
<1>6. CASE answer = "redirect"
  <2>1. PICK m \in Methods :
          LET target == RedirectTarget(config, req.host)
              port == IF target.port = NoPort THEN TlsPort ELSE target.port
          IN  /\ req' = [req EXCEPT !.tls = TRUE, !.host = target, !.method = m]
              /\ answer' = IF target.name # Blank /\ port = config.httpsPort
                           THEN Open ELSE "unreachable"
    BY <1>6 DEF Follow
  <2>2. m = req.method
    BY <1>6 DEF Methods, AsksForAPage, Homeward
  <2>3. RedirectTarget(config, req.host).name = req.host.name
    BY DEF RedirectTarget
  <2>4. req.host.name = asked.host.name /\ req.host.name # Blank
    BY DEF AsksForAPage, Homeward
  <2>5. answer' = Open
    <3>1. config.httpsPort # NoPort
      BY <1>3 DEF ConfigType, NoPort
    <3>2. CASE config.httpsPort = TlsPort
      BY <2>1, <2>3, <2>4, <3>2 DEF RedirectTarget
    <3>3. CASE config.httpsPort # TlsPort
      BY <2>1, <2>3, <2>4, <3>1, <3>3 DEF RedirectTarget
    <3>4. QED
      BY <3>2, <3>3
  <2>6. /\ req'.path = req.path /\ req'.tls
        /\ req'.method = req.method /\ req'.host.name = req.host.name
    BY <1>3, <2>1, <2>2, <2>3 DEF RequestType
  <2>7. ~req.tls /\ ~asked.tls
    BY <1>6 DEF Homeward
  <2>8. hops + 1 <= 1 + (IF req.path = asked.path THEN 0 ELSE 1)
    BY <1>3, <2>7 DEF Homeward
  <2>9. answer' \notin {"redirect", "slash"}
    BY <2>5 DEF Open
  <2>10. QED
    BY <1>1, <1>2, <1>4, <2>4, <2>5, <2>6, <2>7, <2>8, <2>9 DEF Homeward
<1>7. QED
  BY <1>1, <1>5, <1>6 DEF Redirects

\* At each step and after each redirect, a request for a page is on its way to where it
\* would have got directly; HomeInv is inductive given WalkInv.
THEOREM HomeInvHolds == Spec => []HomeInv
<1>1. ASSUME WalkInv, HomeInv, [Next]_vars PROVE HomeInv'
  <2>1. config' = config /\ asked' = asked
    BY <1>1 DEF Next, Enter, RefuseHandshake, Challenge, Redirect, Dispatch, Pass, Refuse, Answer, Follow,
       Rest, vars
  <2>2. AsksForAPage' = AsksForAPage
    BY <2>1 DEF AsksForAPage
  <2>3. SUFFICES ASSUME AsksForAPage, Homeward PROVE Homeward'
    BY <1>1, <2>2 DEF HomeInv
  <2>4. CASE Enter
    <3>1. "engine" \in LayerNames(todo')
      BY <2>4, WrapLeads DEF Enter
    <3>2. UNCHANGED <<config, asked, req, hops, answer>>
      BY <2>4 DEF Enter
    <3>3. QED
      BY <2>3, <3>1, <3>2, SameRequest
  <2>5. CASE RefuseHandshake \/ Challenge \/ Redirect
    BY <1>1, <2>3, <2>5, DoorHome
  <2>6. CASE Dispatch
    BY <1>1, <2>3, <2>6, DispatchHome
  <2>7. CASE Pass
    BY <1>1, <2>3, <2>7, PassHome
  <2>8. CASE Refuse
    <3>1. UNCHANGED <<config, asked, req, hops>> /\ todo' = {} /\ answer' \in Refusals
      BY <2>8 DEF Refuse
    <3>2. QED
      BY <2>3, <3>1, SameRequest
  <2>9. CASE Answer
    BY <1>1, <2>3, <2>9, AnswerHome
  <2>10. CASE Follow
    BY <1>1, <2>3, <2>10, FollowHome
  <2>11. CASE Rest \/ UNCHANGED vars
    <3>1. UNCHANGED vars
      BY <2>11 DEF Rest
    <3>2. QED
      BY <2>3, <3>1, SameRequest DEF vars, Homeward
  <2>12. QED
    BY <1>1, <2>4, <2>5, <2>6, <2>7, <2>8, <2>9, <2>10, <2>11 DEF Next
<1>2. QED
  BY <1>1, InitHome, WalkInvHolds, PTL DEF Spec

-----------------------------------------------------------------------------
(***************************************************************************)
(* The properties                                                          *)
(***************************************************************************)

\* Whatever is configured and asked for, a request has layers and handlers of the router
\* before it, and is answered by one of them or at the door.
THEOREM TypeInvariant == Spec => []TypeOK
<1>1. WalkInv => TypeOK
  BY DEF WalkInv
<1>2. QED
  BY <1>1, WalkInvHolds, PTL

\* No route of the users API, however it is reached, lets in anybody but the configured
\* user, and that user is not turned away.
THEOREM OnlyTheUserGetsInHolds == Spec => []OnlyTheUserGetsIn
<1>1. WalkInv => OnlyTheUserGetsIn
  BY DEF WalkInv
<1>2. QED
  BY <1>1, WalkInvHolds, PTL

\* For each of the configurations, the order in which NewRouter registers puts every layer
\* in front of every handler, and none of them twice.
THEOREM NothingSlipsByHolds == Spec => []NothingSlipsBy
<1>1. WalkInv => NothingSlipsBy
  BY DEF WalkInv
<1>2. QED
  BY <1>1, WalkInvHolds, PTL

\* A single domain with a name, in whatever list, keeps the plain port from working on
\* requests.
THEOREM NothingInTheClearHolds == Spec => []NothingInTheClear
<1>1. ASSUME WalkInv PROVE NothingInTheClear
  <2>1. ASSUME config.domains \cap [name : Names, padded : BOOLEAN] # {} PROVE TlsEnabled(config)
    <3>1. PICK d \in config.domains : d \in [name : Names, padded : BOOLEAN]
      BY <2>1
    <3>2. d.name # Blank
      BY <3>1, FrontDoorAssumption
    <3>3. config \in ConfigType
      BY <1>1, CaseTyped DEF WalkInv
    <3>4. QED
      BY <3>2, <3>3, DomainsFiltered
  <2>2. QED
    BY <1>1, <2>1 DEF WalkInv, Secured, NothingInTheClear
<1>2. QED
  BY <1>1, WalkInvHolds, PTL

\* Redirects lead home, in two steps at most, under any configuration.
THEOREM RedirectLeadsHomeHolds == Spec => []RedirectLeadsHome
<1>1. ASSUME WalkInv, HomeInv PROVE RedirectLeadsHome
  <2>1. hops \in Nat
    BY <1>1, FrontDoorAssumption DEF WalkInv, TypeOK
  <2>2. ASSUME AsksForAPage
        PROVE  /\ hops <= 2
               /\ answer \notin Redirects \cup Refusals \cup {Open} =>
                    answer = Home(config, asked) \/ (answer = "challenge" /\ IsChallenge(asked.path))
    BY <1>1, <2>1, <2>2 DEF HomeInv, Homeward
  <2>3. QED
    BY <2>2 DEF RedirectLeadsHome, AsksForAPage
<1>2. QED
  BY <1>1, WalkInvHolds, HomeInvHolds, PTL

=============================================================================
