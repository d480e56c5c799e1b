---------------------------- MODULE LifecycleProofs ----------------------------
(***************************************************************************)
(* What Start and Stop of the HTTP service guarantee in every interleaving *)
(* with the two listeners, with and without TLS; and the application: it   *)
(* runs its services as HttpServer and Upstream say, so that what is       *)
(* proved of them there holds here, and it serves requests to the end.     *)
(***************************************************************************)
EXTENDS Lifecycle, TLAPS

UpP == INSTANCE UpstreamProofs WITH
  startPc <- launchPc, startResult <- launchResult, stopPc <- haltPc, stopResult <- haltResult

-----------------------------------------------------------------------------
(***************************************************************************)
(* The inductive invariant.  DownInv: how far Stop, and Start after an     *)
(* error, have got in closing the servers, and that a server they have     *)
(* drained accepts nothing any more.  ErrorInv: every error on its way to  *)
(* the caller of Start comes from a listener that failed.                  *)
(***************************************************************************)

DownInv ==
  /\ stopPc \in {"drainHttp", "shutHttps", "drainHttps", "returned"} => down["http"]
  /\ stopPc = "drainHttps" \/ (stopPc = "returned" /\ tlsEnabled) => down["https"]
  /\ startPc \in {"drainHttp", "shutHttps", "drainHttps"} => down["http"]
  /\ startPc = "drainHttps" => down["https"]
  /\ stopPc \in {"shutHttps", "drainHttps", "returned"} => serve["http"] # "accept"
  /\ stopPc = "returned" => serve["https"] # "accept"
  /\ startPc \in {"shutHttps", "drainHttps"} => serve["http"] # "accept"
  /\ startPc = "receive" => startResult = "nil"
  /\ startPc = "returned" /\ startResult = "error" /\ tlsEnabled =>
       /\ down["http"] /\ down["https"]
       /\ \A s \in Servers : serve[s] # "accept"
  /\ startPc = "returned" /\ ~tlsEnabled => serve["http"] = "done"
  /\ ~tlsEnabled => /\ serve["https"] = "done" /\ startPc \in {"receive", "returned"}
                    /\ errCh # <<>> => serve["http"] = "done"

ErrorInv ==
  /\ \A s \in Servers : outcome[s] = "error" => failed
  /\ \A i \in 1..Len(errCh) : errCh[i] = "error" => failed
  /\ startResult = "error" => failed

TypeInv == TypeOK /\ (startPc = "receive" => completed < Awaited)

IInv == TypeInv /\ DownInv /\ ErrorInv

LEMMA InitIInv == Init => IInv
<1> USE DEF Init, Servers, Running, Awaited
<1>1. Init => TypeInv
  <2>1. <<>> \in Seq(Results) /\ Len(<<>>) <= 2
    OBVIOUS
  <2>2. Init => /\ serve \in [Servers -> ServeLabels] /\ outcome \in [Servers -> Results]
                /\ down \in [Servers -> BOOLEAN] /\ conn \in [Servers -> Connections]
    BY DEF ServeLabels, Results, Connections
  <2>3. Init => failed \in BOOLEAN
    OBVIOUS
  <2>4. Init => errCh \in Seq(Results) /\ Len(errCh) <= 2 /\ completed \in 0..2 /\ completed < Awaited
    BY <2>1
  <2>5. Init => /\ startPc \in StartLabels /\ startResult \in Results
                /\ stopPc \in StopLabels /\ stopResult \in Results /\ expired \in BOOLEAN
    BY DEF Results, StartLabels, StopLabels
  <2>6. QED
    BY <2>2, <2>3, <2>4, <2>5 DEF TypeInv, TypeOK
<1>2. Init => DownInv /\ ErrorInv
  BY DEF DownInv, ErrorInv
<1>3. QED
  BY <1>1, <1>2 DEF IInv

LEMMA TypeStep == TypeInv /\ [Next]_vars => TypeInv'
<1> SUFFICES ASSUME TypeInv, [Next]_vars PROVE TypeInv'
  OBVIOUS
<1> USE DEF Servers, Running, Awaited, sockets, starter, stopper,
            TypeInv, TypeOK, Results, ServeLabels, Connections, StartLabels, StopLabels
<1>1. ASSUME NEW s \in Running, Listen(s) PROVE TypeInv'
  BY <1>1 DEF Listen, Finish
<1>2. ASSUME NEW s \in Running, Open(s) PROVE TypeInv'
  <2>1. CASE serve' = [serve EXCEPT ![s] = "accept"] /\ UNCHANGED <<outcome, failed>>
    BY <1>2, <2>1 DEF Open
  <2>2. CASE Fail(s)
    BY <1>2, <2>2 DEF Open, Finish, Fail
  <2>3. CASE Finish(s, "nil") /\ UNCHANGED failed
    BY <1>2, <2>3 DEF Open, Finish
  <2>4. QED
    BY <1>2, <2>1, <2>2, <2>3 DEF Open
<1>3. ASSUME NEW s \in Running, Closed(s) PROVE TypeInv'
  BY <1>3 DEF Closed, Finish
<1>4. ASSUME NEW s \in Running, Break(s) PROVE TypeInv'
  BY <1>4 DEF Break, Finish, Fail
<1>5. ASSUME NEW s \in Running, Send(s) PROVE TypeInv'
  BY <1>5 DEF Send
<1>6. ASSUME NEW s \in Running, Connect(s) \/ Upgrade(s) PROVE TypeInv'
  BY <1>6 DEF Connect, Upgrade, Becomes
<1>7. ASSUME NEW s \in Running, Disconnect(s) PROVE TypeInv'
  BY <1>7 DEF Disconnect, Becomes
<1>8. CASE Receive
  BY <1>8 DEF Receive
<1>9. CASE ShutdownListeners
  BY <1>9 DEF ShutdownListeners, ServeEnded, CloseServer
<1>10. CASE CallStop
  BY <1>10 DEF CallStop
<1>11. CASE Expire
  BY <1>11 DEF Expire
<1>12. CASE StopHttp
  <2>1. CASE StopShut("http", "shutHttp", "drainHttp")
    BY <2>1 DEF StopShut, CloseServer
  <2>2. CASE StopDrain("http", "drainHttp", IF tlsEnabled THEN "shutHttps" ELSE "returned")
    BY <2>2 DEF StopDrain, ServeEnded
  <2>3. QED
    BY <1>12, <2>1, <2>2 DEF StopHttp
<1>13. CASE StopHttps
  <2>1. CASE StopShut("https", "shutHttps", "drainHttps")
    BY <2>1 DEF StopShut, CloseServer
  <2>2. CASE StopDrain("https", "drainHttps", "returned")
    BY <2>2 DEF StopDrain, ServeEnded
  <2>3. QED
    BY <1>13, <2>1, <2>2 DEF StopHttps
<1>14. CASE UNCHANGED vars
  BY <1>14 DEF vars
<1>15. QED
  BY <1>1, <1>2, <1>3, <1>4, <1>5, <1>6, <1>7, <1>8, <1>9, <1>10, <1>11, <1>12, <1>13, <1>14
     DEF Next, ServeStep, ClientStep, StartStep, StopStep, Rest

LEMMA DownStep == TypeOK /\ DownInv /\ [Next]_vars => DownInv'
<1> SUFFICES ASSUME TypeOK, DownInv, [Next]_vars PROVE DownInv'
  OBVIOUS
<1> USE DEF Servers, Running, Awaited, sockets, starter, stopper,
            TypeOK, DownInv, Results
<1>1. ASSUME NEW s \in Running, Listen(s) PROVE DownInv'
  BY <1>1 DEF Listen, Finish, Fail
<1>2. ASSUME NEW s \in Running, Open(s) PROVE DownInv'
  BY <1>2 DEF Open, Finish, Fail
<1>3. ASSUME NEW s \in Running, Closed(s) PROVE DownInv'
  BY <1>3 DEF Closed, Finish
<1>4. ASSUME NEW s \in Running, Break(s) PROVE DownInv'
  BY <1>4 DEF Break, Finish, Fail
<1>5. ASSUME NEW s \in Running, Send(s) PROVE DownInv'
  BY <1>5 DEF Send
<1>6. ASSUME NEW s \in Running, Connect(s) \/ Upgrade(s) PROVE DownInv'
  BY <1>6 DEF Connect, Upgrade, Becomes
<1>7. ASSUME NEW s \in Running, Disconnect(s) PROVE DownInv'
  BY <1>7 DEF Disconnect, Becomes
<1>8. CASE Receive
  <2>1. UNCHANGED <<sockets, stopper>> /\ errCh # <<>> /\ startPc = "receive"
    BY <1>8 DEF Receive
  <2>2. CASE tlsEnabled
    BY <1>8, <2>1, <2>2 DEF Receive
  <2>3. CASE ~tlsEnabled
    <3>1. \/ startPc' = "receive" /\ startResult' = startResult
          \/ startPc' = "returned"
      BY <1>8, <2>1, <2>3 DEF Receive
    <3>2. QED
      BY <2>1, <2>3, <3>1
  <2>4. QED
    BY <2>2, <2>3
<1>9. CASE ShutdownListeners
  BY <1>9 DEF ShutdownListeners, ServeEnded, CloseServer
<1>10. CASE CallStop
  BY <1>10 DEF CallStop
<1>11. CASE Expire
  BY <1>11 DEF Expire
<1>12. CASE StopHttp
  BY <1>12 DEF StopHttp, StopShut, StopDrain, ServeEnded, CloseServer
<1>13. CASE StopHttps
  BY <1>13 DEF StopHttps, StopShut, StopDrain, ServeEnded, CloseServer
<1>14. CASE UNCHANGED vars
  BY <1>14 DEF vars
<1>15. QED
  BY <1>1, <1>2, <1>3, <1>4, <1>5, <1>6, <1>7, <1>8, <1>9, <1>10, <1>11, <1>12, <1>13, <1>14
     DEF Next, ServeStep, ClientStep, StartStep, StopStep, Rest

LEMMA ErrorStep == TypeOK /\ ErrorInv /\ [Next]_vars => ErrorInv'
<1> SUFFICES ASSUME TypeOK, ErrorInv, [Next]_vars PROVE ErrorInv'
  OBVIOUS
<1> USE DEF Servers, Running, Awaited, sockets, starter, stopper,
            TypeOK, ErrorInv, Results
<1>1. ASSUME NEW s \in Running, Listen(s) PROVE ErrorInv'
  BY <1>1 DEF Listen, Finish, Fail
<1>2. ASSUME NEW s \in Running, Open(s) PROVE ErrorInv'
  BY <1>2 DEF Open, Finish, Fail
<1>3. ASSUME NEW s \in Running, Closed(s) PROVE ErrorInv'
  BY <1>3 DEF Closed, Finish
<1>4. ASSUME NEW s \in Running, Break(s) PROVE ErrorInv'
  BY <1>4 DEF Break, Finish, Fail
<1>5. ASSUME NEW s \in Running, Send(s) PROVE ErrorInv'
  BY <1>5 DEF Send
<1>6. ASSUME NEW s \in Running, Connect(s) \/ Upgrade(s) PROVE ErrorInv'
  BY <1>6 DEF Connect, Upgrade, Becomes
<1>7. ASSUME NEW s \in Running, Disconnect(s) PROVE ErrorInv'
  BY <1>7 DEF Disconnect, Becomes
<1>8. CASE Receive
  BY <1>8 DEF Receive
<1>9. CASE ShutdownListeners
  BY <1>9 DEF ShutdownListeners, ServeEnded, CloseServer
<1>10. CASE CallStop
  BY <1>10 DEF CallStop
<1>11. CASE Expire
  BY <1>11 DEF Expire
<1>12. CASE StopHttp
  BY <1>12 DEF StopHttp, StopShut, StopDrain, ServeEnded, CloseServer
<1>13. CASE StopHttps
  BY <1>13 DEF StopHttps, StopShut, StopDrain, ServeEnded, CloseServer
<1>14. CASE UNCHANGED vars
  BY <1>14 DEF vars
<1>15. QED
  BY <1>1, <1>2, <1>3, <1>4, <1>5, <1>6, <1>7, <1>8, <1>9, <1>10, <1>11, <1>12, <1>13, <1>14
     DEF Next, ServeStep, ClientStep, StartStep, StopStep, Rest

LEMMA NextIInv == IInv /\ [Next]_vars => IInv'
BY TypeStep, DownStep, ErrorStep DEF IInv, TypeInv

LEMMA Invariance == Spec => []IInv
BY InitIInv, NextIInv, PTL DEF Spec

\* After Stop no server begins with another request, whatever timed out or came first,
\* and on ports that are open still or again.
THEOREM StopEndsAcceptingHolds == Spec => []StopEndsAccepting
<1>1. IInv => StopEndsAccepting
  BY DEF IInv, DownInv, StopEndsAccepting, Servers, Accepting
<1>2. QED
  BY <1>1, Invariance, PTL

\* After a Start that fails no server does.
THEOREM FailedStartEndsAcceptingHolds == Spec => []FailedStartEndsAccepting
<1>1. IInv => FailedStartEndsAccepting
  BY DEF IInv, TypeInv, TypeOK, DownInv, FailedStartEndsAccepting, Servers, Accepting
<1>2. QED
  BY <1>1, Invariance, PTL

\* Start fails only if a listener does.
THEOREM StopIsNoFailureHolds == Spec => []StopIsNoFailure
<1>1. IInv => StopIsNoFailure
  BY DEF IInv, ErrorInv, StopIsNoFailure
<1>2. QED
  BY <1>1, Invariance, PTL

-----------------------------------------------------------------------------
LEMMA HttpImplemented == AppSpec => Spec
<1>1. AppInit => Init
  BY DEF AppInit
<1>2. [AppNext]_appVars => [Next]_vars
  BY Zenon DEF AppNext, appVars, HttpStep, UpstreamStep, UpstreamOnly, Shutdown, CloseStep, StopUpstream,
         CloseResources, GiveUp, AppRest, Next
<1>3. QED
  BY <1>1, <1>2, PTL DEF AppSpec, Spec

LEMMA UpstreamImplemented == AppSpec => Up!Spec
<1>1. AppInit => Up!Init
  BY DEF AppInit
<1>2. [AppNext]_appVars => [Up!Next]_(Up!vars)
  <2>1. upstream' = upstream => UNCHANGED Up!vars
    BY DEF upstream, Up!vars, Up!shared, Up!os, Up!starter, Up!stopper
  <2>2. AppNext => upstream' = upstream \/ Up!Next
    BY Zenon DEF AppNext, HttpStep, HttpOnly, UpstreamStep, Shutdown, CloseStep, StopUpstream,
           CloseResources, GiveUp, AppRest, appVars, Up!Next
  <2>3. QED
    BY <2>1, <2>2, Zenon DEF appVars
<1>3. QED
  BY <1>1, <1>2, PTL DEF AppSpec, Up!Spec

\* Upstream as Lifecycle and as its proofs know it.
LEMMA SameInit == Up!Init => UpP!Init
BY DEF Up!Init, UpP!Init

LEMMA SameNext == [Up!Next]_(Up!vars) => [UpP!Next]_(UpP!vars)
BY Zenon DEF Up!Next, UpP!Next,
         Up!shared, UpP!shared, Up!os, UpP!os, Up!starter, UpP!starter, Up!stopper,
         UpP!stopper, Up!vars, UpP!vars, Up!Prepare, UpP!Prepare, Up!Publish, UpP!Publish,
         Up!Fork, UpP!Fork, Up!SetProcess, UpP!SetProcess, Up!Wait, UpP!Wait,
         Up!ReadStopping, UpP!ReadStopping, Up!CloseDone, UpP!CloseDone, Up!Clear,
         UpP!Clear, Up!CallStop, UpP!CallStop, Up!Lock, UpP!Lock, Up!Check, UpP!Check,
         Up!Deliver, UpP!Deliver, Up!Signal, UpP!Signal, Up!Await, UpP!Await, Up!Timeout,
         UpP!Timeout, Up!Kill, UpP!Kill, Up!AwaitKilled, UpP!AwaitKilled, Up!Codes,
         UpP!Codes, Up!Exit, UpP!Exit, Up!StartStep, UpP!StartStep, Up!StopStep,
         UpP!StopStep, Up!Rest, UpP!Rest

AppOwnType == upstreamEnabled \in BOOLEAN /\ closing \in ClosingLabels

LEMMA AppOwnTypeStep == AppOwnType /\ [AppNext]_appVars => AppOwnType'
BY DEF AppOwnType, ClosingLabels, AppNext, appVars, app, HttpStep, HttpOnly, UpstreamStep,
   UpstreamOnly, Shutdown, CloseStep, StopUpstream, CloseResources, GiveUp, AppRest

\* Every variable of the application and of its two services keeps its type.
THEOREM AppTypeInvariant == AppSpec => []AppTypeOK
<1>1. AppSpec => UpP!Spec
  BY UpstreamImplemented, SameInit, SameNext, PTL DEF Up!Spec, UpP!Spec
<1>2. IInv => TypeOK
  BY DEF IInv, TypeInv
<1>3. UpP!IInv => Up!TypeOK
  BY DEF UpP!IInv, UpP!TypeOK, Up!TypeOK, UpP!ChildStates, Up!ChildStates, UpP!Codes, Up!Codes,
     UpP!StartLabels, Up!StartLabels, UpP!StopLabels, Up!StopLabels
<1>4. AppInit => AppOwnType
  BY DEF AppInit, AppOwnType, ClosingLabels
<1>5. TypeOK /\ Up!TypeOK /\ AppOwnType => AppTypeOK
  BY DEF AppTypeOK, AppOwnType
<1>6. QED
  BY HttpImplemented, Invariance, UpP!Invariance, AppOwnTypeStep, <1>1, <1>2, <1>3, <1>4, <1>5, PTL
     DEF AppSpec

\* After the Stop of its HTTP service the application begins with no other request.
THEOREM AppStopEndsAccepting == AppSpec => []StopEndsAccepting
BY HttpImplemented, StopEndsAcceptingHolds, PTL

\* In the running application, a Stop of the supervisor that signalled the process
\* and succeeded has seen it end.
THEOREM AppStopWaitsForExit == AppSpec => []StopWaitsForExit
<1>1. AppSpec => UpP!Spec
  BY UpstreamImplemented, SameInit, SameNext, PTL DEF Up!Spec, UpP!Spec
<1>2. UpP!StopWaitsForExit => StopWaitsForExit
  BY DEF StopWaitsForExit, Up!StopWaitsForExit, UpP!StopWaitsForExit
<1>3. QED
  BY UpP!StopWaitsForExitHolds, <1>1, <1>2, PTL

\* And its Start tells a crash of the process from the shutdown.
THEOREM AppExitIsClassified == AppSpec => []ExitIsClassified
<1>1. AppSpec => UpP!Spec
  BY UpstreamImplemented, SameInit, SameNext, PTL DEF Up!Spec, UpP!Spec
<1>2. UpP!ExitIsClassified => ExitIsClassified
  BY DEF ExitIsClassified, Up!ExitIsClassified, UpP!ExitIsClassified
<1>3. QED
  BY UpP!ExitIsClassifiedHolds, <1>1, <1>2, PTL

-----------------------------------------------------------------------------
\* A server that Stop has drained serves no request, unless the time was over, and begins
\* with none because it accepts nothing any more.
DrainInv ==
  /\ ~tlsEnabled => conn["https"] = "none"
  /\ stopPc \in {"shutHttps", "drainHttps", "returned"} => expired \/ conn["http"] # "request"
  /\ stopPc = "returned" => expired \/ conn["https"] # "request"

\* The closes are called in their order.
OrderInv ==
  /\ closing \in {"none", "http"} => haltPc = "idle" /\ ~signalled
  /\ closing \notin {"none", "http"} => stopPc = "returned"

LEMMA DrainStep == TypeOK /\ DownInv /\ DrainInv /\ [Next]_vars => DrainInv'
<1> SUFFICES ASSUME TypeOK, DownInv, DrainInv, [Next]_vars PROVE DrainInv'
  OBVIOUS
<1> USE DEF DrainInv, DownInv, TypeOK, Servers, sockets, starter, stopper
<1>1. ASSUME NEW s \in Running, ServeStep(s) \/ Break(s) PROVE DrainInv'
  BY <1>1 DEF ServeStep, Listen, Open, Closed, Send, Break, Fail, Finish, Running
<1>2. ASSUME NEW s \in Running, ClientStep(s) PROVE DrainInv'
  BY <1>2 DEF ClientStep, Connect, Upgrade, Disconnect, Becomes, Running
<1>3. CASE StartStep
  BY <1>3 DEF StartStep, Receive, ShutdownListeners, CloseServer
<1>4. CASE CallStop
  BY <1>4 DEF CallStop
<1>5. CASE Expire
  BY <1>5 DEF Expire
<1>6. CASE StopHttp
  <2>1. CASE StopShut("http", "shutHttp", "drainHttp")
    BY <2>1 DEF StopShut, CloseServer
  <2>2. CASE StopDrain("http", "drainHttp", IF tlsEnabled THEN "shutHttps" ELSE "returned")
    BY <2>2 DEF StopDrain, ServeEnded
  <2>3. QED
    BY <1>6, <2>1, <2>2 DEF StopHttp
<1>7. CASE StopHttps
  <2>1. CASE StopShut("https", "shutHttps", "drainHttps")
    BY <2>1 DEF StopShut, CloseServer
  <2>2. CASE StopDrain("https", "drainHttps", "returned")
    BY <2>2 DEF StopDrain, ServeEnded
  <2>3. QED
    BY <1>7, <2>1, <2>2 DEF StopHttps
<1>8. CASE Rest \/ UNCHANGED vars
  BY <1>8 DEF Rest, vars
<1>9. QED
  BY <1>1, <1>2, <1>3, <1>4, <1>5, <1>6, <1>7, <1>8 DEF Next, StopStep

LEMMA OrderStep == OrderInv /\ [AppNext]_appVars => OrderInv'
<1> SUFFICES ASSUME OrderInv, [AppNext]_appVars PROVE OrderInv'
  OBVIOUS
<1> USE DEF OrderInv
<1>1. CASE HttpStep
  BY <1>1 DEF HttpStep, HttpOnly, upstream, app, ServeStep, Listen, Open, Closed, Send, Break,
       ClientStep, Connect, Upgrade, Disconnect, Becomes, StartStep, Receive, ShutdownListeners, StopStep, Expire, StopHttp,
       StopHttps, StopShut, StopDrain, stopper
<1>2. CASE UpstreamStep
  <2>1. UNCHANGED <<stopPc, closing>>
    BY <1>2 DEF UpstreamStep, UpstreamOnly, vars, stopper, app
  <2>2. haltPc = "idle" /\ ~signalled => haltPc' = "idle" /\ ~signalled'
    BY <1>2 DEF UpstreamStep, Up!StartStep, Up!Prepare, Up!Publish, Up!Fork, Up!SetProcess,
         Up!Wait, Up!ReadStopping, Up!CloseDone, Up!Clear, Up!StopStep, Up!Lock, Up!Check,
         Up!Signal, Up!Await, Up!Timeout, Up!Kill, Up!AwaitKilled, Up!Exit,
         Up!starter, Up!stopper
  <2>3. QED
    BY <2>1, <2>2
<1>3. CASE Shutdown
  BY <1>3 DEF Shutdown, CallStop, upstream
<1>4. CASE CloseStep
  BY <1>4 DEF CloseStep, StopUpstream, CloseResources, GiveUp, vars, stopper, upstream
<1>5. CASE AppRest \/ UNCHANGED appVars
  BY <1>5 DEF AppRest, appVars, vars, stopper, upstream, app
<1>6. QED
  BY <1>1, <1>2, <1>3, <1>4, <1>5 DEF AppNext

\* The process is signalled, and the database closed, only when no request is being
\* served any more, but for those on hijacked connections, or the time for draining is
\* over.
THEOREM ServedToTheEndHolds == AppSpec => []ServedToTheEnd
<1>1. AppInit => DrainInv /\ OrderInv
  BY DEF AppInit, Init, Up!Init, DrainInv, OrderInv, Servers
<1>2. AppSpec => []IInv
  BY HttpImplemented, Invariance, PTL
<1>3. AppSpec => [][Next]_vars
  BY HttpImplemented, PTL DEF Spec
<1>4. IInv => TypeOK /\ DownInv
  BY DEF IInv, TypeInv
<1>5. IInv /\ DrainInv /\ [Next]_vars => DrainInv'
  BY <1>4, DrainStep
<1>6. DrainInv /\ OrderInv /\ IInv => ServedToTheEnd
  BY DEF DrainInv, OrderInv, ServedToTheEnd, Servers
<1>7. QED
  BY <1>1, <1>2, <1>3, <1>5, <1>6, OrderStep, PTL DEF AppSpec

=============================================================================
