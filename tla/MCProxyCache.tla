---------------------------- MODULE MCProxyCache ----------------------------
(***************************************************************************)
(* Small instances of ProxyCache: the requests, the responses and the hash *)
(* the configurations choose from.                                         *)
(***************************************************************************)
EXTENDS ProxyCache, TLC

CONSTANTS t1, t2    \* threads

MCThreads == {t1, t2}
Symmetry == Permutations(MCThreads)

\* The full text that is hashed: a hash without collisions.
Exact(bytes) == bytes

-----------------------------------------------------------------------------
(***************************************************************************)
(* Requests                                                                *)
(***************************************************************************)
Plain ==
  [method |-> GET, path |-> <<"/a">>, query |-> <<>>, host |-> <<"h">>,
   headers |-> [n \in {"Accept", "Lang"} |-> <<>>], upgrade |-> FALSE, range |-> FALSE,
   etags |-> {}]

Json == [Plain EXCEPT !.headers["Accept"] = <<"json">>]
JsonFr == [Json EXCEPT !.headers["Lang"] = <<"fr">>]
Ranged == [Json EXCEPT !.range = TRUE]
Conditional == [Json EXCEPT !.etags = {"v1"}]

\* /ab with no query and /a?b, as the back-to-back key writes them.
Joined == [Plain EXCEPT !.path = <<"/a", "b=1">>]
Split == [Plain EXCEPT !.query = <<"b=1">>]

-----------------------------------------------------------------------------
(***************************************************************************)
(* Responses                                                               *)
(***************************************************************************)
Public ==
  [status |-> 200, vary |-> {}, varyStar |-> FALSE, public |-> TRUE,
   noCache |-> FALSE, sMaxAge |-> -1, maxAge |-> 1, etag |-> NoEtag,
   cookie |-> FALSE, body |-> <<1>>]

Varying == [Public EXCEPT !.vary = {"Accept"}]
VaryingMore == [Public EXCEPT !.vary = {"Accept", "Lang"}]
Tagged == [Varying EXCEPT !.etag = "v1", !.cookie = TRUE]
NotModified == [Tagged EXCEPT !.status = 304, !.body = <<>>]
Partial == [Varying EXCEPT !.status = 206]
Long == [Varying EXCEPT !.body = <<4, 1>>]     \* its first chunk does not fit

-----------------------------------------------------------------------------
(***************************************************************************)
(* Instances                                                               *)
(***************************************************************************)
MCHeaderOrder == <<"Accept", "Lang">>
MCHeaderValues == {<<>>, <<"json">>, <<"html">>, <<"fr">>}

\* One resource whose Vary header comes and goes.
VaryCalls == {Json, JsonFr}
VaryResponses == {Public, Varying, VaryingMore}
VaryOrigin(c) == VaryResponses

\* One that varies by the same header always, with a short lifetime, asked for also in
\* parts and with a condition, and whose answers the cache has to keep out in part.
SteadyCalls == {Plain, Conditional, Ranged}
SteadyResponses == {Tagged, Long, Partial, NotModified}
SteadyOrigin(c) ==
  CASE c = Plain -> {Tagged, Long}
    [] c = Conditional -> {Tagged, NotModified}
    [] c = Ranged -> {Partial}

JoinedCalls == {Joined, Split}
JoinedResponses == {Public}
JoinedOrigin(c) == JoinedResponses

\* The theorems about variants are for keys that tell them apart: all these do, but
\* for the two requests whose path and query join to the same text.
ASSUME KeysTellApart == KeyInjective \/ Calls = JoinedCalls

=============================================================================
