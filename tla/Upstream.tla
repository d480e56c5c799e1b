------------------------------ MODULE Upstream ------------------------------
(***************************************************************************)
(* The upstream supervisor, src/internal/upstream/server.go: one goroutine *)
(* runs Start, which launches the Rails server and blocks until it exits;  *)
(* when the application shuts down another goroutine calls Stop.  They     *)
(* share the fields cmd, done and stopping under a mutex, the command's    *)
(* Process without it, and the channel done.                               *)
(*                                                                         *)
(* An action is a critical section, or a call into the operating system.   *)
(* The application calls Start once and Stop at most once, at any moment:  *)
(* a service that fails to start makes it stop all of them.  Whatever the  *)
(* configuration or the operating system may refuse is left open.          *)
(***************************************************************************)

VARIABLES
  cmd,       \* whether s.cmd is set
  process,   \* whether cmd.Process is set
  stopping,  \* s.stopping
  done,      \* the channel: "none", "open" or "closed"
  child,     \* the operating system's process
  code,      \* what it exited with
  killed,    \* whether it has been sent SIGKILL
  signalled, \* history: a signal of Stop has reached the process
  startPc, startResult,   \* the goroutine in Start, what it returns
  stopPc, stopResult,     \* the goroutine in Stop, what it returns
  captured   \* whether Stop has seen s.cmd, and s.done with it

shared == <<cmd, process, stopping, done>>
os == <<child, code, killed>>
starter == <<startPc, startResult>>
stopper == <<stopPc, stopResult, captured, signalled>>
vars == <<shared, os, starter, stopper>>

\* "exited" is a zombie still: it can be signalled until it has been waited for.
ChildStates == {"none", "running", "exited", "reaped"}
Codes == {"zero", "nonzero"}
StartLabels == {"prepare", "publish", "fork", "setProcess", "wait", "readStopping",
                "closeDone", "clear", "returned"}
StopLabels == {"idle", "lock", "check", "signal", "await", "kill", "awaitKilled", "returned"}

TypeOK ==
  /\ {cmd, process, stopping, killed, signalled, captured} \subseteq BOOLEAN
  /\ done \in {"none", "open", "closed"}
  /\ child \in ChildStates
  /\ code \in Codes
  /\ startPc \in StartLabels
  /\ startResult \in {"nil", "refused", "exitCode", "waitError"}
  /\ stopPc \in StopLabels
  /\ stopResult \in {"nil", "error"}

Init ==
  /\ cmd = FALSE /\ process = FALSE /\ stopping = FALSE /\ done = "none"
  /\ child = "none" /\ code = "zero" /\ killed = FALSE
  /\ startPc = "prepare" /\ startResult = "nil"
  /\ stopPc = "idle" /\ stopResult = "nil" /\ captured = FALSE /\ signalled = FALSE

-----------------------------------------------------------------------------
(***************************************************************************)
(* Start                                                                   *)
(***************************************************************************)

\* An empty or malformed command, or a missing working directory, ends Start here.
Prepare ==
  /\ startPc = "prepare"
  /\ \/ startPc' = "publish" /\ UNCHANGED startResult
     \/ startPc' = "returned" /\ startResult' = "refused"
  /\ UNCHANGED <<shared, os, stopper>>

Publish ==
  /\ startPc = "publish"
  /\ cmd' = TRUE /\ done' = "open" /\ stopping' = FALSE
  /\ startPc' = "fork"
  /\ UNCHANGED <<process, os, startResult, stopper>>

\* cmd.Start, up to the new process.
Fork ==
  /\ startPc = "fork"
  /\ \/ child' = "running" /\ startPc' = "setProcess" /\ UNCHANGED startResult
     \/ startPc' = "closeDone" /\ startResult' = "refused" /\ UNCHANGED child
  /\ UNCHANGED <<shared, code, killed, stopper>>

\* cmd.Start, the assignment of cmd.Process.
SetProcess ==
  /\ startPc = "setProcess"
  /\ process' = TRUE
  /\ startPc' = "wait"
  /\ UNCHANGED <<cmd, stopping, done, os, startResult, stopper>>

\* cmd.Wait returns once the process has exited.
Wait ==
  /\ startPc = "wait" /\ child = "exited"
  /\ child' = "reaped"
  /\ \/ code = "zero" /\ startPc' = "closeDone" /\ UNCHANGED startResult
     \/ code = "nonzero" /\ startPc' = "readStopping" /\ UNCHANGED startResult
     \/ startPc' = "closeDone" /\ startResult' = "waitError"
  /\ UNCHANGED <<shared, code, killed, stopper>>

\* Mutated form: a process that fails after being signalled is reported as a crash.
BlamingReadStopping ==
  /\ startPc = "readStopping"
  /\ startResult' = "exitCode"
  /\ startPc' = "closeDone"
  /\ UNCHANGED <<shared, os, stopper>>

\* An exit code other than zero is an error unless a stop has been asked for.
ReadStopping ==
  /\ startPc = "readStopping"
  /\ startResult' = IF stopping THEN "nil" ELSE "exitCode"
  /\ startPc' = "closeDone"
  /\ UNCHANGED <<shared, os, stopper>>

\* The deferred function: first the channel,
CloseDone ==
  /\ startPc = "closeDone"
  /\ done' = "closed"
  /\ startPc' = "clear"
  /\ UNCHANGED <<cmd, process, stopping, os, startResult, stopper>>

\* then the fields.  The command and the channel stay with a Stop that has them.
Clear ==
  /\ startPc = "clear"
  /\ cmd' = FALSE
  /\ startPc' = "returned"
  /\ UNCHANGED <<process, stopping, done, os, startResult, stopper>>

-----------------------------------------------------------------------------
(***************************************************************************)
(* Stop                                                                    *)
(***************************************************************************)

CallStop ==
  /\ stopPc = "idle"
  /\ stopPc' = "lock"
  /\ UNCHANGED <<shared, os, starter, stopResult, captured, signalled>>

Lock ==
  /\ stopPc = "lock"
  /\ captured' = cmd
  /\ stopping' = TRUE
  /\ stopPc' = "check"
  /\ UNCHANGED <<cmd, process, done, os, starter, stopResult, signalled>>

\* Nothing to stop without a command or, read outside the mutex, its process.
Check ==
  /\ stopPc = "check"
  /\ stopPc' = IF captured /\ process THEN "signal" ELSE "returned"
  /\ UNCHANGED <<shared, os, starter, stopResult, captured, signalled>>

\* A signal reaches a process that has not been waited for; for one that has, the
\* error os.ErrProcessDone is none.
Deliver(kill, next) ==
  \/ child = "reaped" /\ stopPc' = next /\ UNCHANGED <<killed, signalled, stopResult>>
  \/ /\ child # "reaped"
     /\ signalled' = TRUE /\ killed' = (killed \/ kill)
     /\ stopPc' = next /\ UNCHANGED stopResult
  \/ /\ child # "reaped"
     /\ stopResult' = "error" /\ stopPc' = "returned" /\ UNCHANGED <<killed, signalled>>

\* stopSignal may name SIGKILL.
Signal ==
  /\ stopPc = "signal"
  /\ \E forceful \in BOOLEAN : Deliver(forceful, "await")
  /\ UNCHANGED <<shared, child, code, starter, captured>>

Await ==
  /\ stopPc = "await" /\ done = "closed"
  /\ stopPc' = "returned"
  /\ UNCHANGED <<shared, os, starter, stopResult, captured, signalled>>

\* Mutated form: the process that ignored the signal is left running.
LenientTimeout ==
  /\ stopPc = "await"
  /\ stopPc' = "returned"
  /\ UNCHANGED <<shared, os, starter, stopResult, captured, signalled>>

\* Mutated form: the process is given up without being killed.
PatientTimeout ==
  /\ stopPc = "await"
  /\ stopPc' = "awaitKilled"
  /\ UNCHANGED <<shared, os, starter, stopResult, captured, signalled>>

\* time.After(defaultStopTimeout); select chooses freely when done is closed too.
Timeout ==
  /\ stopPc = "await"
  /\ stopPc' = "kill"
  /\ UNCHANGED <<shared, os, starter, stopResult, captured, signalled>>

Kill ==
  /\ stopPc = "kill"
  /\ Deliver(TRUE, "awaitKilled")
  /\ UNCHANGED <<shared, child, code, starter, captured>>

AwaitKilled ==
  /\ stopPc = "awaitKilled" /\ done = "closed"
  /\ stopPc' = "returned"
  /\ UNCHANGED <<shared, os, starter, stopResult, captured, signalled>>

-----------------------------------------------------------------------------
\* The process exits by itself or because of a signal, with either code; one that
\* was killed before it could exit has a code other than zero.
Exit ==
  /\ child = "running"
  /\ child' = "exited"
  /\ code' \in IF killed THEN {"nonzero"} ELSE Codes
  /\ UNCHANGED <<shared, killed, starter, stopper>>

StartStep ==
  \/ Prepare \/ Publish \/ Fork \/ SetProcess \/ Wait \/ ReadStopping \/ CloseDone \/ Clear

StopStep == Lock \/ Check \/ Signal \/ Await \/ Timeout \/ Kill \/ AwaitKilled

\* Once both goroutines are back and the process is no more, nothing happens.
Rest ==
  /\ startPc = "returned" /\ stopPc = "returned" /\ child \in {"none", "reaped"}
  /\ UNCHANGED vars

Next == StartStep \/ CallStop \/ StopStep \/ Exit \/ Rest

Spec == Init /\ [][Next]_vars

-----------------------------------------------------------------------------
(***************************************************************************)
(* Properties                                                              *)
(***************************************************************************)

\* A Stop that found the process and reports success has waited for it: it never
\* returns while the process it signalled is running or a zombie, not even when
\* the timeout races the exit.
StopWaitsForExit ==
  signalled /\ stopPc = "returned" /\ stopResult = "nil" => child = "reaped"

\* Start tells a crash from a stop, whatever the order of exit, signal and flag: the
\* exit of a process that Stop has signalled is no error, and a process that fails
\* with nobody asking it to stop is one.
ExitIsClassified ==
  /\ signalled => startResult # "exitCode"
  /\ startPc = "returned" /\ child = "reaped" /\ code = "nonzero" /\ startResult = "nil" =>
       stopPc \notin {"idle", "lock"}

\* What the configuration says of stopSignal, that it is the signal sent when
\* shutting down: after a Stop without error the process has been signalled, unless
\* it had gone before.
ShutdownSignals ==
  stopPc = "returned" /\ stopResult = "nil" /\ child = "running" => signalled

=============================================================================
