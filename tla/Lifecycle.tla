------------------------------ MODULE Lifecycle ------------------------------
(***************************************************************************)
(* The application: main starts the HTTP service and, if it is enabled,    *)
(* the upstream supervisor, each with a goroutine in Start, and hands the  *)
(* list of closes to the runtime, which calls them in turn when it is      *)
(* told to shut down.  The two services are those of HttpServer and        *)
(* Upstream; what is added here is who calls their Stop, and when.         *)
(*                                                                         *)
(* The runtime is a library.  All that is assumed of it is that it calls   *)
(* the closes one after another in the order of the list; after one that   *)
(* returns an error it may go on or leave the rest out.                    *)
(***************************************************************************)
EXTENDS HttpServer

VARIABLES
  upstreamEnabled,                \* cfg.Upstream.Enabled; never changes
  closing,                        \* the close that has been called last
  cmd, process, stopping, done, child, code, killed, signalled,   \* as in Upstream
  launchPc, launchResult,         \* its goroutine in Start
  haltPc, haltResult, captured    \* its Stop

Up == INSTANCE Upstream WITH
  startPc <- launchPc, startResult <- launchResult, stopPc <- haltPc, stopResult <- haltResult

upstream ==
  <<cmd, process, stopping, done, child, code, killed, signalled,
    launchPc, launchResult, haltPc, haltResult, captured>>
app == <<upstreamEnabled, closing>>
appVars == <<vars, upstream, app>>

ClosingLabels == {"none", "http", "upstream", "ended"}

AppTypeOK ==
  /\ TypeOK /\ Up!TypeOK
  /\ upstreamEnabled \in BOOLEAN /\ closing \in ClosingLabels

\* CreateServices has built the services, and app.New has the list of closes.
AppInit ==
  /\ Init /\ Up!Init
  /\ upstreamEnabled \in BOOLEAN /\ closing = "none"

-----------------------------------------------------------------------------
HttpOnly == UNCHANGED <<upstream, app>>
UpstreamOnly == upstreamEnabled /\ UNCHANGED <<vars, app>>

HttpStep ==
  /\ \/ \E s \in Running : ServeStep(s) \/ Break(s) \/ ClientStep(s)
     \/ StartStep \/ StopStep
  /\ HttpOnly

UpstreamStep == (Up!StartStep \/ Up!StopStep \/ Up!Exit) /\ UpstreamOnly

\* A signal, or the failure of a service, makes the runtime call the first close.
Shutdown ==
  /\ closing = "none" /\ closing' = "http"
  /\ CallStop
  /\ UNCHANGED <<upstream, upstreamEnabled>>

\* Mutated form: the upstream process is stopped while the HTTP service still drains.
HastyStopUpstream ==
  /\ closing = "http" /\ upstreamEnabled
  /\ closing' = "upstream"
  /\ Up!CallStop
  /\ UNCHANGED <<vars, upstreamEnabled>>

\* CreateServices lists the HTTP service first.
StopUpstream ==
  /\ closing = "http" /\ stopPc = "returned" /\ upstreamEnabled
  /\ closing' = "upstream"
  /\ Up!CallStop
  /\ UNCHANGED <<vars, upstreamEnabled>>

\* Database, cache, tracing and logger come last; none of them waits for anything.
CloseResources ==
  /\ \/ closing = "http" /\ stopPc = "returned" /\ ~upstreamEnabled
     \/ closing = "upstream" /\ haltPc = "returned"
  /\ closing' = "ended"
  /\ UNCHANGED <<vars, upstream, upstreamEnabled>>

\* The rest is left out after an error.
GiveUp ==
  /\ \/ closing = "http" /\ stopPc = "returned" /\ stopResult = "error"
     \/ closing = "upstream" /\ haltPc = "returned" /\ haltResult = "error"
  /\ closing' = "ended"
  /\ UNCHANGED <<vars, upstream, upstreamEnabled>>

CloseStep == StopUpstream \/ CloseResources \/ GiveUp

AppRest == closing = "ended" /\ UNCHANGED appVars

AppNext == HttpStep \/ UpstreamStep \/ Shutdown \/ CloseStep \/ AppRest

AppSpec == AppInit /\ [][AppNext]_appVars

\* Goroutines and the runtime are scheduled, timers fire, a killed process exits.
AppFairSpec ==
  /\ AppSpec
  /\ \A s \in Servers : WF_appVars(ServeStep(s) /\ HttpOnly)
  /\ WF_appVars(StartStep /\ HttpOnly) /\ WF_appVars(StopStep /\ HttpOnly)
  /\ WF_appVars(Up!StartStep /\ UpstreamOnly) /\ WF_appVars(Up!StopStep /\ UpstreamOnly)
  /\ WF_appVars(killed /\ Up!Exit /\ UpstreamOnly)
  /\ WF_appVars(CloseStep)

-----------------------------------------------------------------------------
(***************************************************************************)
(* Properties                                                              *)
(***************************************************************************)

\* Requests are served to the end: when the process they are forwarded to is
\* signalled by the shutdown, or the database is closed, no request is being
\* served, unless the time for draining was over.  That leaves out the connections
\* hijacked for an upgrade: nobody waits for them, and the process they lead to may be
\* signalled while they are in use and time is left.
ServedToTheEnd ==
  signalled \/ closing = "ended" => expired \/ \A s \in Servers : conn[s] # "request"

\* A shutdown ends, whatever state the services are in when it begins, and
\* whichever of its closes fail.
ShutdownEnds == closing = "http" ~> closing = "ended"

\* Of Upstream: a Stop that signalled the process and succeeded has seen it end.
StopWaitsForExit == Up!StopWaitsForExit

\* Of Upstream: Start tells a crash from a stop.
ExitIsClassified == Up!ExitIsClassified

=============================================================================
