--------------------------- MODULE UpstreamProofs ---------------------------
(***************************************************************************)
(* What the supervisor guarantees in every interleaving of Start, Stop and *)
(* the process.                                                            *)
(***************************************************************************)
EXTENDS Upstream, TLAPS

(***************************************************************************)
(* The inductive invariant.  ChildInv places the process in the course of  *)
(* Start; StopInv says what a Stop that goes on to signal may rely on,     *)
(* above all that Start will not clear the flag stopping again; ExitInv    *)
(* relates what either returns to the process.                             *)
(***************************************************************************)

ChildInv ==
  /\ startPc \in {"prepare", "publish", "fork"} => child = "none"
  /\ startPc \in {"setProcess", "wait"} <=> child \in {"running", "exited"}
  /\ startPc = "readStopping" => child = "reaped"
  /\ process => child # "none" /\ startPc # "setProcess"
  /\ cmd \/ captured => startPc \notin {"prepare", "publish"}
  /\ done = "closed" => startPc \in {"clear", "returned"}

StopInv ==
  /\ stopping => stopPc \notin {"idle", "lock"}
  /\ stopPc = "check" /\ captured => stopping
  /\ stopPc \in {"signal", "await", "kill", "awaitKilled"} \/ signalled =>
       process /\ stopping
  /\ stopPc \in {"idle", "lock", "check", "signal"} => ~signalled

ExitInv ==
  /\ startResult = "exitCode" => child = "reaped" /\ ~signalled
  /\ /\ startPc \in {"closeDone", "clear", "returned"}
     /\ child = "reaped" /\ code = "nonzero" /\ startResult = "nil"
     => stopPc \notin {"idle", "lock"}
  /\ signalled /\ stopPc = "returned" /\ stopResult = "nil" => child = "reaped"

IInv == TypeOK /\ ChildInv /\ StopInv /\ ExitInv

LEMMA InitIInv == Init => IInv
BY DEF Init, IInv, TypeOK, ChildInv, StopInv, ExitInv, ChildStates, Codes,
       StartLabels, StopLabels

LEMMA DeliverKeeps ==
  ASSUME IInv, NEW force \in BOOLEAN, NEW next \in {"await", "awaitKilled"},
         stopPc \in {"signal", "kill"}, Deliver(force, next),
         UNCHANGED <<shared, child, code, starter, captured>>
  PROVE  IInv'
<1> USE DEF IInv, TypeOK, ChildInv, StopInv, ExitInv, ChildStates, Codes, StartLabels,
            StopLabels, shared, starter
<1>1. TypeOK'
  BY DEF Deliver
<1>2. ChildInv'
  OBVIOUS
<1>3. StopInv'
  BY DEF Deliver
<1>4. ExitInv'
  BY DEF Deliver
<1>5. QED
  BY <1>1, <1>2, <1>3, <1>4

LEMMA NextIInv == IInv /\ [Next]_vars => IInv'
<1> SUFFICES ASSUME IInv, [Next]_vars PROVE IInv'
  OBVIOUS
<1> USE DEF IInv, TypeOK, ChildInv, StopInv, ExitInv, ChildStates, Codes, StartLabels,
            StopLabels, shared, os, starter, stopper
<1>1. CASE Prepare
  BY <1>1 DEF Prepare
<1>2. CASE Publish
  BY <1>2 DEF Publish
<1>3. CASE Fork
  BY <1>3 DEF Fork
<1>4. CASE SetProcess
  BY <1>4 DEF SetProcess
<1>5. CASE Wait
  BY <1>5 DEF Wait
<1>6. CASE ReadStopping
  BY <1>6 DEF ReadStopping
<1>7. CASE CloseDone
  BY <1>7 DEF CloseDone
<1>8. CASE Clear
  <2>1. TypeOK'
    BY <1>8 DEF Clear
  <2>2. ChildInv'
    BY <1>8 DEF Clear
  <2>3. StopInv'
    BY <1>8 DEF Clear
  <2>4. ExitInv'
    BY <1>8 DEF Clear
  <2>5. QED
    BY <2>1, <2>2, <2>3, <2>4
<1>9. CASE CallStop
  BY <1>9 DEF CallStop
<1>10. CASE Lock
  BY <1>10 DEF Lock
<1>11. CASE Check
  BY <1>11 DEF Check
<1>12. CASE Signal
  <2>1. PICK force \in BOOLEAN, next \in {"await", "awaitKilled"} : Deliver(force, next)
    BY <1>12 DEF Signal
  <2>2. UNCHANGED <<shared, child, code, starter, captured>>
    BY <1>12 DEF Signal
  <2>3. stopPc \in {"signal", "kill"}
    BY <1>12 DEF Signal
  <2>4. QED
    BY <2>1, <2>2, <2>3, DeliverKeeps
<1>13. CASE Await
  BY <1>13 DEF Await
<1>14. CASE Timeout
  BY <1>14 DEF Timeout
<1>15. CASE Kill
  <2>1. PICK force \in BOOLEAN, next \in {"await", "awaitKilled"} : Deliver(force, next)
    BY <1>15 DEF Kill
  <2>2. UNCHANGED <<shared, child, code, starter, captured>>
    BY <1>15 DEF Kill
  <2>3. stopPc \in {"signal", "kill"}
    BY <1>15 DEF Kill
  <2>4. QED
    BY <2>1, <2>2, <2>3, DeliverKeeps
<1>16. CASE AwaitKilled
  BY <1>16 DEF AwaitKilled
<1>17. CASE Exit
  BY <1>17 DEF Exit
<1>18. CASE UNCHANGED vars
  BY <1>18 DEF vars
<1>19. QED
  BY <1>1, <1>2, <1>3, <1>4, <1>5, <1>6, <1>7, <1>8, <1>9, <1>10, <1>11, <1>12,
     <1>13, <1>14, <1>15, <1>16, <1>17, <1>18 DEF Next, StartStep, StopStep, Rest

LEMMA Invariance == Spec => []IInv
BY InitIInv, NextIInv, PTL DEF Spec

\* A Stop that has signalled the process and reports success has seen it end.
THEOREM StopWaitsForExitHolds == Spec => []StopWaitsForExit
<1>1. IInv => StopWaitsForExit
  BY DEF IInv, ExitInv, StopWaitsForExit
<1>2. QED
  BY <1>1, Invariance, PTL

\* Start reports a crash as one, and a stop as none.
THEOREM ExitIsClassifiedHolds == Spec => []ExitIsClassified
<1>1. IInv => ExitIsClassified
  BY DEF IInv, ExitInv, ExitIsClassified
<1>2. QED
  BY <1>1, Invariance, PTL

=============================================================================
