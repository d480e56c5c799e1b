----------------------------- MODULE MCFrontDoor -----------------------------
(***************************************************************************)
(* Cases for FrontDoor: every combination of layers with a request of each *)
(* kind, every session with every route of the users API, and every way of *)
(* naming the server with and without TLS.                                 *)
(***************************************************************************)
EXTENDS FrontDoor

MCNames == {"ours", "other"}

MCSegments ==
  {"", "1", "api", "v1", "users", "list", "ids", "delete", "condition", "health", "ping", "codes",
   "config", "swagger", "metrics", "debug", "pprof", "login", ".well-known", "acme-challenge", "token"}

Off ==
  [domains |-> {}, httpsPort |-> 443, on |-> {}, prod |-> TRUE, proxy |-> TRUE,
   secret |-> TRUE, userID |-> 1]

Session(t, v) == [type |-> t, val |-> v]

Get(path) ==
  [tls |-> FALSE, host |-> [name |-> "ours", port |-> 8080], method |-> "GET",
   path |-> path, session |-> Session("int64", 1)]

Login == <<"login">>
Token == <<".well-known", "acme-challenge", "token">>
Deep == Token \o <<"">>

LayerRequests ==
  {Get(path) : path \in {<<"health">>, <<"metrics">>, Login, UsersPath(<<"1">>)}}
  \cup {[Get(Login) EXCEPT !.method = "OPTIONS"]}
LayerCases == {[Off EXCEPT !.on = S] : S \in SUBSET Optional} \X LayerRequests

SwitchCases ==
  {[Off EXCEPT !.prod = p, !.proxy = q, !.on = S] :
     p, q \in BOOLEAN, S \in {{}, {"metrics", "profile"}}}
  \X {Get(path) : path \in {<<"config">>, <<"swagger">>, <<"swagger", "api", "">>, <<"ping">>, <<"codes">>, <<"metrics">>,
                            <<"debug", "pprof", "">>, <<"debug", "pprof">>, <<"">>, Login}}

Sessions ==
  {NoCookie, Forged, Anonymous}
  \cup {Session(t, v) : t \in Numbers \cup {"word", "bool"}, v \in 0..2}
UsersRequests ==
  [tls : {FALSE}, host : {[name |-> "ours", port |-> 8080]},
   method : {"GET", "HEAD", "POST", "PUT", "DELETE", "OPTIONS"},
   path : {UsersPath(rest) : rest \in {<<>>, <<"">>, <<"1">>, <<"1", "">>, <<"list">>,
             <<"list", "">>, <<"list", "ids">>, <<"delete", "ids">>, <<"condition">>}},
   session : Sessions]
SessionCases ==
  {[Off EXCEPT !.secret = b, !.on = S] : b \in BOOLEAN, S \in {{}, {"limit", "breaker"}}}
  \X UsersRequests

Domain(n, p) == [name |-> n, padded |-> p]
DomainLists ==
  {{}, {Domain(Blank, TRUE)}, {Domain("ours", FALSE)}, {Domain("ours", TRUE), Domain(Blank, FALSE)},
   {Domain("ours", FALSE), Domain("other", TRUE)}}
TlsConfigs ==
  {[Off EXCEPT !.domains = D, !.httpsPort = p, !.on = S] :
     D \in DomainLists, p \in {443, 8443}, S \in {{}, {"log", "start", "limit"}}}
TlsRequests ==
  [tls : BOOLEAN, host : [name : MCNames \cup {Blank}, port : {0, 80, 8080, 8443}],
   method : {"GET", "HEAD", "POST"},
   path : {<<"health">>, <<"health", "">>, Login, Token, Deep, UsersPath(<<>>), UsersPath(<<"list">>)},
   session : {NoCookie, Session("float64", 1)}]
TlsCases == {k \in TlsConfigs \X TlsRequests : k[2].tls => TlsEnabled(k[1])}

MCCases == LayerCases \cup SwitchCases \cup SessionCases \cup TlsCases

=============================================================================
