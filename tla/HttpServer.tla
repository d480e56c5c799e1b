----------------------------- MODULE HttpServer -----------------------------
(***************************************************************************)
(* The HTTP service, src/internal/server/http.go: Start runs one listener, *)
(* or two with automatic TLS (the plain one then answers ACME challenges   *)
(* and redirects), and Stop shuts them down from another goroutine.        *)
(*                                                                         *)
(* The http.Server objects are Go's; they are modelled as far as Start and *)
(* Stop can tell: ListenAndServe looks whether the server is shut down,    *)
(* opens the port, hands the listener to the server unless that is shut    *)
(* down by now, and returns when the listener fails or is closed; Shutdown *)
(* marks the server, closes its listener, waits for the goroutine that     *)
(* accepts from it and then, until its context expires, for the active     *)
(* connections.  Those that a handler has hijacked (the reverse proxy does *)
(* for an upgrade) it neither knows nor waits for.                         *)
(***************************************************************************)
EXTENDS Integers, Sequences

Servers == {"http", "https"}

VARIABLES
  tlsEnabled, \* whether TLS domains are configured; never changes
  serve,      \* Servers -> the goroutine in ListenAndServe
  outcome,    \* Servers -> what it returned, ErrServerClosed made nil, until that is sent
  down,       \* Servers -> the server's inShutdown
  conn,       \* Servers -> a connection that is being served
  failed,     \* history: whether a listener has failed
  errCh,      \* the channel of Start
  startPc, completed, startResult,    \* the goroutine in Start
  stopPc, stopResult, expired         \* the one in Stop, and its context

sockets == <<tlsEnabled, serve, outcome, down, conn, failed>>
starter == <<startPc, completed, startResult, errCh>>
stopper == <<stopPc, stopResult, expired>>
vars == <<sockets, starter, stopper>>

Running == IF tlsEnabled THEN Servers ELSE {"http"}
Awaited == IF tlsEnabled THEN 2 ELSE 1      \* results Start waits for

AppServer == IF tlsEnabled THEN "https" ELSE "http"     \* the one with the application's handler

ServeLabels == {"listen", "open", "accept", "send", "done"}
StartLabels == {"receive", "shutHttp", "drainHttp", "shutHttps", "drainHttps", "returned"}
StopLabels == {"idle", "shutHttp", "drainHttp", "shutHttps", "drainHttps", "returned"}
Results == {"nil", "error"}
Connections == {"none", "request", "upgraded"}

TypeOK ==
  /\ tlsEnabled \in BOOLEAN
  /\ serve \in [Servers -> ServeLabels]
  /\ outcome \in [Servers -> Results]
  /\ down \in [Servers -> BOOLEAN]
  /\ conn \in [Servers -> Connections]
  /\ failed \in BOOLEAN
  /\ errCh \in Seq(Results) /\ Len(errCh) <= 2
  /\ startPc \in StartLabels /\ completed \in 0..2 /\ startResult \in Results
  /\ stopPc \in StopLabels /\ stopResult \in Results /\ expired \in BOOLEAN

Init ==
  /\ tlsEnabled \in BOOLEAN
  /\ serve = [s \in Servers |-> IF s \in Running THEN "listen" ELSE "done"]
  /\ outcome = [s \in Servers |-> "nil"]
  /\ down = [s \in Servers |-> FALSE]
  /\ conn = [s \in Servers |-> "none"]
  /\ failed = FALSE
  /\ errCh = <<>>
  /\ startPc = "receive" /\ completed = 0 /\ startResult = "nil"
  /\ stopPc = "idle" /\ stopResult = "nil" /\ expired = FALSE

-----------------------------------------------------------------------------
(***************************************************************************)
(* listenAndServe and listenAndServeTLS                                    *)
(***************************************************************************)

\* The goroutine is about to send the result of its server.
Finish(s, result) ==
  /\ serve' = [serve EXCEPT ![s] = "send"]
  /\ outcome' = [outcome EXCEPT ![s] = result]

\* A listener that fails, when it is opened or later.
Fail(s) ==
  /\ Finish(s, "error")
  /\ failed' = TRUE

\* A server that is shut down does not listen any more.
Listen(s) ==
  /\ serve[s] = "listen"
  /\ \/ down[s] /\ Finish(s, "nil")
     \/ ~down[s] /\ serve' = [serve EXCEPT ![s] = "open"] /\ UNCHANGED outcome
  /\ UNCHANGED <<tlsEnabled, down, conn, failed, starter, stopper>>

\* From here on the port is open, unless it is not free: nobody looks at the server again
\* before Serve does, which closes the port if the server is shut down by now and
\* otherwise starts to accept connections.  From then on Shutdown closes it.
Open(s) ==
  /\ serve[s] = "open"
  /\ \/ Fail(s)
     \/ down[s] /\ Finish(s, "nil") /\ UNCHANGED failed
     \/ ~down[s] /\ serve' = [serve EXCEPT ![s] = "accept"] /\ UNCHANGED <<outcome, failed>>
  /\ UNCHANGED <<tlsEnabled, down, conn, starter, stopper>>

\* Mutated form: http.ErrServerClosed is passed on as a value of its own.
RawClosed(s) ==
  /\ serve[s] = "accept" /\ down[s]
  /\ Finish(s, "closed")
  /\ UNCHANGED <<tlsEnabled, down, conn, failed, starter, stopper>>

\* Mutated form: http.ErrServerClosed counts as an error.
UnfilteredClosed(s) ==
  /\ serve[s] = "accept" /\ down[s]
  /\ Finish(s, "error")
  /\ UNCHANGED <<tlsEnabled, down, conn, failed, starter, stopper>>

\* The port is closed: http.ErrServerClosed, which is no error.
Closed(s) ==
  /\ serve[s] = "accept" /\ down[s]
  /\ Finish(s, "nil")
  /\ UNCHANGED <<tlsEnabled, down, conn, failed, starter, stopper>>

Break(s) ==
  /\ serve[s] = "accept" /\ ~down[s]
  /\ Fail(s)
  /\ UNCHANGED <<tlsEnabled, down, conn, starter, stopper>>

\* Mutated form: errCh has no buffer.
UnbufferedSend(s) ==
  /\ serve[s] = "send" /\ startPc = "receive" /\ errCh = <<>>
  /\ errCh' = Append(errCh, outcome[s])
  /\ serve' = [serve EXCEPT ![s] = "done"]
  /\ outcome' = [outcome EXCEPT ![s] = "nil"]
  /\ UNCHANGED <<tlsEnabled, down, conn, failed, startPc, completed,
                 startResult, stopper>>

\* errCh has room for both results.
Send(s) ==
  /\ serve[s] = "send" /\ Len(errCh) < 2
  /\ errCh' = Append(errCh, outcome[s])
  /\ serve' = [serve EXCEPT ![s] = "done"]
  /\ outcome' = [outcome EXCEPT ![s] = "nil"]
  /\ UNCHANGED <<tlsEnabled, down, conn, failed, startPc, completed,
                 startResult, stopper>>

-----------------------------------------------------------------------------
\* Shutdown(ctx): first it marks the server and closes the listener, then it waits.
CloseServer(s) == down' = [down EXCEPT ![s] = TRUE]

\* The first error is returned at once, but with TLS the other listener is shut
\* down before that.
Receive ==
  /\ startPc = "receive" /\ errCh # <<>>
  /\ errCh' = Tail(errCh)
  /\ IF Head(errCh) = "error"
     THEN /\ startResult' = "error"
          /\ startPc' = IF tlsEnabled THEN "shutHttp" ELSE "returned"
          /\ UNCHANGED completed
     ELSE /\ completed' = completed + 1
          /\ startPc' = IF completed + 1 = Awaited THEN "returned" ELSE startPc
          /\ UNCHANGED startResult
  /\ UNCHANGED <<sockets, stopper>>

\* Mutated form: only the plain listener is shut down.
HalfShutdownListeners ==
  /\ startPc = "shutHttp" /\ CloseServer("http") /\ startPc' = "returned"
  /\ UNCHANGED <<tlsEnabled, serve, outcome, conn, failed, completed, startResult,
                 errCh, stopper>>

\* Shutdown waits for Serve to return before it looks at the connections.
ServeEnded(s) == serve[s] # "accept"

\* shutdownListenersOnStartError: both in turn, each with five seconds to drain.
ShutdownListeners ==
  /\ \/ startPc = "shutHttp" /\ CloseServer("http") /\ startPc' = "drainHttp"
     \/ startPc = "drainHttp" /\ ServeEnded("http") /\ startPc' = "shutHttps" /\ UNCHANGED down
     \/ startPc = "shutHttps" /\ CloseServer("https") /\ startPc' = "drainHttps"
     \/ startPc = "drainHttps" /\ ServeEnded("https") /\ startPc' = "returned" /\ UNCHANGED down
  /\ UNCHANGED <<tlsEnabled, serve, outcome, conn, failed, completed, startResult,
                 errCh, stopper>>

-----------------------------------------------------------------------------
(***************************************************************************)
(* Stop                                                                    *)
(***************************************************************************)

CallStop ==
  /\ stopPc = "idle" /\ stopPc' = "shutHttp"
  /\ UNCHANGED <<sockets, starter, stopResult, expired>>

\* The one context of Stop, five seconds for both servers together.
Expire ==
  /\ stopPc \notin {"idle", "returned"} /\ ~expired /\ expired' = TRUE
  /\ UNCHANGED <<sockets, starter, stopPc, stopResult>>

StopShut(s, label, next) ==
  /\ stopPc = label /\ CloseServer(s) /\ stopPc' = next
  /\ UNCHANGED <<tlsEnabled, serve, outcome, conn, failed, starter, stopResult, expired>>

\* No request is being served any more, or the context has expired.
StopDrain(s, label, next) ==
  /\ stopPc = label /\ ServeEnded(s) /\ stopPc' = next
  /\ \/ conn[s] # "request" /\ UNCHANGED stopResult
     \/ conn[s] = "request" /\ expired /\ stopResult' = "error"
  /\ UNCHANGED <<sockets, starter, expired>>

StopHttp ==
  \/ StopShut("http", "shutHttp", "drainHttp")
  \/ StopDrain("http", "drainHttp", IF tlsEnabled THEN "shutHttps" ELSE "returned")

\* Mutated form: an error of the plain server ends Stop.
HastyStopHttps ==
  \/ /\ stopPc = "shutHttps" /\ stopResult = "error"
     /\ stopPc' = "returned"
     /\ UNCHANGED <<sockets, starter, stopResult, expired>>
  \/ stopResult = "nil" /\ StopShut("https", "shutHttps", "drainHttps")
  \/ StopDrain("https", "drainHttps", "returned")

StopHttps ==
  \/ StopShut("https", "shutHttps", "drainHttps")
  \/ StopDrain("https", "drainHttps", "returned")

-----------------------------------------------------------------------------
Becomes(s, c) ==
  /\ conn' = [conn EXCEPT ![s] = c]
  /\ UNCHANGED <<tlsEnabled, serve, outcome, down, failed, starter, stopper>>

\* Clients: a request begins while its server accepts connections, at the latest on one
\* that was accepted just before the port was closed.
Connect(s) == serve[s] = "accept" /\ conn[s] = "none" /\ Becomes(s, "request")

\* The reverse proxy hijacks the connection of a request that is upgraded (a WebSocket);
\* from then on it is no connection of the server.
Upgrade(s) == s = AppServer /\ conn[s] = "request" /\ Becomes(s, "upgraded")

Disconnect(s) == conn[s] # "none" /\ Becomes(s, "none")

\* Start and Stop have returned.
Rest ==
  /\ startPc = "returned" /\ stopPc = "returned"
  /\ UNCHANGED vars

ServeStep(s) == Listen(s) \/ Open(s) \/ Closed(s) \/ Send(s)

ClientStep(s) == Connect(s) \/ Upgrade(s) \/ Disconnect(s)

StartStep == Receive \/ ShutdownListeners

StopStep == Expire \/ StopHttp \/ StopHttps

Next ==
  \/ \E s \in Running : ServeStep(s) \/ Break(s) \/ ClientStep(s)
  \/ StartStep \/ CallStop \/ StopStep \/ Rest

Spec == Init /\ [][Next]_vars

-----------------------------------------------------------------------------
(***************************************************************************)
(* Properties                                                              *)
(***************************************************************************)

\* Serve takes connections off the port of s, at least one it has accepted already.
Accepting(s) == serve[s] = "accept"

\* Once Stop has returned no server begins with another request, also when the plain
\* server has used up the time for both, and also when Stop came before Start had got
\* as far as accepting.  A port may still be open then, or even be opened, by a
\* listener that had looked at its server before Stop marked it ("open"): no
\* connection is taken off it, and that it is closed again is part of StopEndsStart.
StopEndsAccepting == stopPc = "returned" => \A s \in Servers : ~Accepting(s)

\* A Start that fails does not leave the other server behind it at work.
FailedStartEndsAccepting ==
  startPc = "returned" /\ startResult = "error" => \A s \in Servers : ~Accepting(s)

\* Stop never makes Start fail, whatever they race: an error means that a listener
\* has failed.
StopIsNoFailure == startResult = "error" => failed

\* After a stop Start returns and no goroutine of it is left behind, and so no open port.
StopEndsStart ==
  stopPc = "shutHttp" ~> startPc = "returned" /\ \A s \in Servers : serve[s] = "done"

=============================================================================
