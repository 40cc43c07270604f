---------------------- MODULE LoopbackTransportProofs ----------------------
(***************************************************************************)
(* What the runs check of LoopbackTransport on a small instance, proved    *)
(* for every set of statuses and every bound: the safety invariants, and   *)
(* that the transport implements RoundTripContract.                        *)
(***************************************************************************)
EXTENDS LoopbackTransport, TLAPS

\* The deferred functions still to run, in order.
Closing == {"flush", "closePipe", "signalDone", "gone"}

\* Where the goroutine is, given how ServeHTTP ended and what it published.
GoroutineInv ==
    /\ hPc \in {"serve", "write"} <=> outcome = "running"
    /\ hPc = "recover" => outcome = IF ready THEN "panickedLate" ELSE "panickedEarly"
    /\ hPc = "synthWrite" => outcome = "panickedEarly"
    /\ outcome = "panickedLate" \/ hPc = "write" => ready
    /\ outcome = "panickedEarly" /\ hPc # "recover" =>
         ready /\ status = 500 /\ offered = SynthLen
    /\ ~ready => offered = 0
    /\ done <=> hPc = "gone"

\* Who has touched the request body.
BodyInv ==
    /\ hPc \in Closing => reqBody # "open"
    /\ hPc = "closeBody" => reqBody = "open"
    /\ hPc \notin Closing => reqBody # "closed"

\* Why the pipe is done, and what became of the units written to it.
PipeInv ==
    /\ werr = "EOF" => hPc \in {"signalDone", "gone"} /\ outcome # "panickedLate"
    /\ werr \in {"nil", "EOF", "ErrClosedPipe"}
    /\ werr = "ErrClosedPipe" <=> outcome = "panickedLate" /\ hPc # "recover"
    /\ rerr # "nil" => caller = "closed" \/ rtPc \in {"waitDone", "failed"}
    /\ hPc \notin {"write", "synthWrite"} => wbuf = 0
    /\ delivered + wbuf <= offered
    /\ rerr = "nil" => delivered + wbuf = offered

\* What the caller has seen, against the state it is entitled to conclude.
CallerInv ==
    /\ caller = "none" <=> rtPc # "returned"
    /\ rtPc = "returned" => ready /\ resp = IF status = 0 THEN 200 ELSE status
    /\ caller = "eof" => werr = "EOF" /\ delivered = offered
    /\ caller = "error" => werr = "ErrClosedPipe"
    /\ rtPc = "failed" => done

IInv == TypeOK /\ GoroutineInv /\ BodyInv /\ PipeInv /\ CallerInv

-----------------------------------------------------------------------------

\* Every variable keeps its type: the steps that count units only move units
\* that are there, and a status comes from the handler or from the writer.
THEOREM TypeCorrect == Spec => []TypeOK
<1> USE StatusesAssumption, BoundsAssumption, SynthLenAssumption
<1>1. Init => TypeOK
  <2> SUFFICES ASSUME Init PROVE TypeOK
    OBVIOUS
  <2>1. ready \in BOOLEAN /\ done \in BOOLEAN
    BY Zenon DEF Init
  <2> QED
    BY <2>1 DEF Init, TypeOK, HandlerPcs, Outcomes, PipeErrs
<1>2. TypeOK /\ [Next]_vars => TypeOK'
  <2> SUFFICES ASSUME TypeOK, [Next]_vars PROVE TypeOK'
    OBVIOUS
  <2> USE DEF handlerVars, writerVars, pipeVars
  <2>1. CASE HWriteHeader
    BY <2>1 DEF HWriteHeader, TypeOK, HandlerPcs, Outcomes, PipeErrs, WriteHeader
  <2>2. CASE HFlush
    BY <2>2 DEF HFlush, TypeOK, HandlerPcs, Outcomes, PipeErrs, WriteHeader, FlushHeaders
  <2>3. CASE HWrite
    BY <2>3 DEF HWrite, TypeOK, HandlerPcs, Outcomes, PipeErrs, WriteHeader, FlushHeaders, StartWrite
  <2>4. CASE HWriteFails
    BY <2>4 DEF HWriteFails, TypeOK, HandlerPcs, Outcomes, PipeErrs, PipeDone
  <2>5. CASE HReturn
    BY <2>5 DEF HReturn, TypeOK, HandlerPcs, Outcomes, PipeErrs, AfterRecover
  <2>6. CASE HPanic
    BY <2>6 DEF HPanic, TypeOK, HandlerPcs, Outcomes, PipeErrs
  <2>7. CASE HRecoverLate
    BY <2>7 DEF HRecoverLate, TypeOK, HandlerPcs, Outcomes, PipeErrs, AfterRecover, StoreOnce
  <2>8. CASE HRecoverEarly
    BY <2>8 DEF HRecoverEarly, TypeOK, HandlerPcs, Outcomes, PipeErrs, WriteHeader, StartWrite
  <2>9. CASE HSynthWriteFails
    BY <2>9 DEF HSynthWriteFails, TypeOK, HandlerPcs, Outcomes, PipeErrs, AfterRecover, PipeDone
  <2>10. CASE HCloseBody
    BY <2>10 DEF HCloseBody, TypeOK, HandlerPcs, Outcomes, PipeErrs
  <2>11. CASE HFlushDeferred
    BY <2>11 DEF HFlushDeferred, TypeOK, HandlerPcs, Outcomes, PipeErrs, WriteHeader, FlushHeaders
  <2>12. CASE HClosePipe
    BY <2>12 DEF HClosePipe, TypeOK, HandlerPcs, Outcomes, PipeErrs, StoreOnce
  <2>13. CASE HSignalDone
    BY <2>13 DEF HSignalDone, TypeOK, HandlerPcs, Outcomes, PipeErrs
  <2>14. CASE RTReady
    BY <2>14 DEF RTReady, TypeOK, HandlerPcs, Outcomes, PipeErrs
  <2>15. CASE RTCancelled
    BY <2>15 DEF RTCancelled, TypeOK, HandlerPcs, Outcomes, PipeErrs, StoreOnce
  <2>16. CASE RTWaitDone
    BY <2>16 DEF RTWaitDone, TypeOK, HandlerPcs, Outcomes, PipeErrs
  <2>17. CASE CallerReads
    BY <2>17 DEF CallerReads, TypeOK, HandlerPcs, Outcomes, PipeErrs, Min2, AfterRecover, PipeDone
  <2>18. CASE CallerSeesEnd
    BY <2>18 DEF CallerSeesEnd, TypeOK, HandlerPcs, Outcomes, PipeErrs, PipeDone, ReadCloseError
  <2>19. CASE CallerCloses
    BY <2>19 DEF CallerCloses, TypeOK, HandlerPcs, Outcomes, PipeErrs, StoreOnce
  <2>20. CASE Cancel
    BY <2>20 DEF Cancel, TypeOK, HandlerPcs, Outcomes, PipeErrs
  <2>21. CASE Terminated
    BY <2>21 DEF Terminated, TypeOK, HandlerPcs, Outcomes, PipeErrs, vars
  <2>22. CASE UNCHANGED vars
    BY <2>22 DEF vars, TypeOK, HandlerPcs, Outcomes, PipeErrs
  <2> QED
    BY <2>1, <2>2, <2>3, <2>4, <2>5, <2>6, <2>7, <2>8, <2>9, <2>10, <2>11, <2>12, <2>13, <2>14, <2>15, <2>16, <2>17, <2>18, <2>19, <2>20, <2>21, <2>22
    DEF Next, HandlerStep, HandlerEnds, Deferred, RoundTripStep, CallerStep
<1> QED
  BY <1>1, <1>2, PTL DEF Spec

\* The inductive invariant: the goroutine's position determines what has been
\* published, released and closed, and the pipe's error cells say who ended it.
THEOREM Inductive == Spec => []IInv
<1> USE StatusesAssumption, BoundsAssumption, SynthLenAssumption
<1>1. Init => IInv
  <2> SUFFICES ASSUME Init PROVE IInv
    OBVIOUS
  <2>1. ready \in BOOLEAN /\ done \in BOOLEAN /\ ~ready /\ ~done
    BY Zenon DEF Init
  <2> QED
    BY <2>1 DEF Init, IInv, TypeOK, GoroutineInv, BodyInv, PipeInv, CallerInv,
                Closing, HandlerPcs, Outcomes, PipeErrs
<1>2. IInv /\ TypeOK' /\ [Next]_vars => IInv'
  <2> SUFFICES ASSUME IInv, TypeOK', [Next]_vars PROVE IInv'
    OBVIOUS
  <2> USE DEF handlerVars, writerVars, pipeVars
  <2>1. CASE HWriteHeader
    BY <2>1 DEF HWriteHeader, IInv, TypeOK, GoroutineInv, BodyInv, PipeInv, CallerInv,
       Closing, HandlerPcs, Outcomes, PipeErrs, WriteHeader
  <2>2. CASE HFlush
    BY <2>2 DEF HFlush, IInv, TypeOK, GoroutineInv, BodyInv, PipeInv, CallerInv,
       Closing, HandlerPcs, Outcomes, PipeErrs, WriteHeader, FlushHeaders
  <2>3. CASE HWrite
    BY <2>3 DEF HWrite, IInv, TypeOK, GoroutineInv, BodyInv, PipeInv, CallerInv,
       Closing, HandlerPcs, Outcomes, PipeErrs, WriteHeader, FlushHeaders, StartWrite
  <2>4. CASE HWriteFails
    BY <2>4 DEF HWriteFails, IInv, TypeOK, GoroutineInv, BodyInv, PipeInv, CallerInv,
       Closing, HandlerPcs, Outcomes, PipeErrs, PipeDone
  <2>5. CASE HReturn
    BY <2>5 DEF HReturn, IInv, TypeOK, GoroutineInv, BodyInv, PipeInv, CallerInv,
       Closing, HandlerPcs, Outcomes, PipeErrs, AfterRecover
  <2>6. CASE HPanic
    BY <2>6 DEF HPanic, IInv, TypeOK, GoroutineInv, BodyInv, PipeInv, CallerInv,
       Closing, HandlerPcs, Outcomes, PipeErrs
  <2>7. CASE HRecoverLate
    BY <2>7 DEF HRecoverLate, IInv, TypeOK, GoroutineInv, BodyInv, PipeInv, CallerInv,
       Closing, HandlerPcs, Outcomes, PipeErrs, AfterRecover, StoreOnce
  <2>8. CASE HRecoverEarly
    BY <2>8 DEF HRecoverEarly, IInv, TypeOK, GoroutineInv, BodyInv, PipeInv, CallerInv,
       Closing, HandlerPcs, Outcomes, PipeErrs, WriteHeader, StartWrite
  <2>9. CASE HSynthWriteFails
    BY <2>9 DEF HSynthWriteFails, IInv, TypeOK, GoroutineInv, BodyInv, PipeInv, CallerInv,
       Closing, HandlerPcs, Outcomes, PipeErrs, AfterRecover, PipeDone
  <2>10. CASE HCloseBody
    BY <2>10 DEF HCloseBody, IInv, TypeOK, GoroutineInv, BodyInv, PipeInv, CallerInv,
       Closing, HandlerPcs, Outcomes, PipeErrs
  <2>11. CASE HFlushDeferred
    BY <2>11 DEF HFlushDeferred, IInv, TypeOK, GoroutineInv, BodyInv, PipeInv, CallerInv,
       Closing, HandlerPcs, Outcomes, PipeErrs, WriteHeader, FlushHeaders
  <2>12. CASE HClosePipe
    BY <2>12 DEF HClosePipe, IInv, TypeOK, GoroutineInv, BodyInv, PipeInv, CallerInv,
       Closing, HandlerPcs, Outcomes, PipeErrs, StoreOnce
  <2>13. CASE HSignalDone
    BY <2>13 DEF HSignalDone, IInv, TypeOK, GoroutineInv, BodyInv, PipeInv, CallerInv,
       Closing, HandlerPcs, Outcomes, PipeErrs
  <2>14. CASE RTReady
    BY <2>14 DEF RTReady, IInv, TypeOK, GoroutineInv, BodyInv, PipeInv, CallerInv,
       Closing, HandlerPcs, Outcomes, PipeErrs
  <2>15. CASE RTCancelled
    BY <2>15 DEF RTCancelled, IInv, TypeOK, GoroutineInv, BodyInv, PipeInv, CallerInv,
       Closing, HandlerPcs, Outcomes, PipeErrs, StoreOnce
  <2>16. CASE RTWaitDone
    BY <2>16 DEF RTWaitDone, IInv, TypeOK, GoroutineInv, BodyInv, PipeInv, CallerInv,
       Closing, HandlerPcs, Outcomes, PipeErrs
  <2>17. CASE CallerReads
    BY <2>17 DEF CallerReads, IInv, TypeOK, GoroutineInv, BodyInv, PipeInv, CallerInv,
       Closing, HandlerPcs, Outcomes, PipeErrs, Min2, AfterRecover, PipeDone
  <2>18. CASE CallerSeesEnd
    BY <2>18 DEF CallerSeesEnd, IInv, TypeOK, GoroutineInv, BodyInv, PipeInv, CallerInv,
       Closing, HandlerPcs, Outcomes, PipeErrs, PipeDone, ReadCloseError
  <2>19. CASE CallerCloses
    BY <2>19 DEF CallerCloses, IInv, TypeOK, GoroutineInv, BodyInv, PipeInv, CallerInv,
       Closing, HandlerPcs, Outcomes, PipeErrs, StoreOnce
  <2>20. CASE Cancel
    BY <2>20 DEF Cancel, IInv, TypeOK, GoroutineInv, BodyInv, PipeInv, CallerInv,
       Closing, HandlerPcs, Outcomes, PipeErrs
  <2>21. CASE Terminated
    BY <2>21 DEF Terminated, IInv, TypeOK, GoroutineInv, BodyInv, PipeInv, CallerInv,
       Closing, HandlerPcs, Outcomes, PipeErrs, vars
  <2>22. CASE UNCHANGED vars
    BY <2>22 DEF vars, IInv, TypeOK, GoroutineInv, BodyInv, PipeInv, CallerInv,
       Closing, HandlerPcs, Outcomes, PipeErrs
  <2> QED
    BY <2>1, <2>2, <2>3, <2>4, <2>5, <2>6, <2>7, <2>8, <2>9, <2>10, <2>11, <2>12, <2>13, <2>14, <2>15, <2>16, <2>17, <2>18, <2>19, <2>20, <2>21, <2>22
    DEF Next, HandlerStep, HandlerEnds, Deferred, RoundTripStep, CallerStep
<1> QED
  BY <1>1, <1>2, TypeCorrect, PTL DEF Spec

\* EOF on the response body implies that req.Body has been closed.
THEOREM EofAfterBodyClosed == Spec => []EofImpliesBodyClosed
<1>1. IInv => EofImpliesBodyClosed
  BY DEF IInv, PipeInv, BodyInv, CallerInv, Closing, EofImpliesBodyClosed
<1> QED
  BY <1>1, Inductive, PTL

\* A clean EOF means a complete body, of a handler that did not panic under it.
THEOREM CompleteAtEof == Spec => []NoSilentTruncation
<1>1. IInv => NoSilentTruncation
  BY DEF IInv, TypeOK, GoroutineInv, PipeInv, CallerInv, Outcomes, NoSilentTruncation
<1> QED
  BY <1>1, Inductive, PTL

\* The status a caller holds never drifts, and an early panic is a 500.
THEOREM StatusNeverDrifts == Spec => []StatusSettled
<1>1. IInv => StatusSettled
  BY DEF IInv, TypeOK, GoroutineInv, CallerInv, StatusSettled
<1> QED
  BY <1>1, Inductive, PTL

\* RoundTrip fails only once the goroutine it started is over.
THEOREM CancellationWaits == Spec => []CancelledCallIsOver
<1>1. IInv => CancelledCallIsOver
  BY DEF IInv, GoroutineInv, BodyInv, CallerInv, Closing, CancelledCallIsOver
<1> QED
  BY <1>1, Inductive, PTL

\* ServeHTTP never runs on a request body the transport has closed.
THEOREM BodyOutlivesHandler == Spec => []BodyOpenWhileServing
<1>1. IInv => BodyOpenWhileServing
  BY DEF IInv, GoroutineInv, BodyInv, Closing, BodyOpenWhileServing
<1> QED
  BY <1>1, Inductive, PTL

-----------------------------------------------------------------------------

\* The transport implements the contract: under the inductive invariant every
\* step is a step of the contract through the mapping, or leaves it unchanged.
THEOREM Implementation == Spec => ImplementsContract
<1> USE StatusesAssumption, BoundsAssumption, SynthLenAssumption
<1>1. Init => Contract!Init
  BY DEF Init, Contract!Init, Phase, Verdict
<1>2. IInv /\ IInv' /\ [Next]_vars => [Contract!Next]_(Contract!contractVars)
  <2> SUFFICES ASSUME IInv, IInv', [Next]_vars
               PROVE  Contract!Next \/ UNCHANGED Contract!contractVars
    OBVIOUS
  <2> USE DEF handlerVars, writerVars, pipeVars, Phase, Verdict, Contract!Next,
              Contract!contractVars, IInv, TypeOK, GoroutineInv, BodyInv, PipeInv,
              CallerInv, Closing, HandlerPcs, Outcomes, PipeErrs
  <2>1. CASE HWriteHeader
    BY <2>1 DEF HWriteHeader, WriteHeader
  <2>2. CASE HFlush
    BY <2>2 DEF HFlush, WriteHeader, FlushHeaders
  <2>3. CASE HWrite
    BY <2>3 DEF HWrite, WriteHeader, FlushHeaders, StartWrite, Contract!Produce
  <2>4. CASE HWriteFails
    BY <2>4 DEF HWriteFails, PipeDone
  <2>5. CASE HReturn
    BY <2>5 DEF HReturn, AfterRecover, Contract!Conclude
  <2>6. CASE HPanic
    BY <2>6 DEF HPanic, Contract!Conclude
  <2>7. CASE HRecoverLate
    BY <2>7 DEF HRecoverLate, AfterRecover, StoreOnce
  <2>8. CASE HRecoverEarly
    BY <2>8 DEF HRecoverEarly, WriteHeader, StartWrite, Contract!Produce
  <2>9. CASE HSynthWriteFails
    BY <2>9 DEF HSynthWriteFails, AfterRecover, PipeDone
  <2>10. CASE HCloseBody
    BY <2>10 DEF HCloseBody, Contract!Release
  <2>11. CASE HFlushDeferred
    BY <2>11 DEF HFlushDeferred, WriteHeader, FlushHeaders
  <2>12. CASE HClosePipe
    BY <2>12 DEF HClosePipe, StoreOnce
  <2>13. CASE HSignalDone
    <3>1. done' = TRUE
      BY <2>13, Zenon DEF HSignalDone
    <3>2. Contract!Finish
      BY <2>13, <3>1 DEF HSignalDone, Contract!Finish
    <3> QED
      BY <3>2
  <2>14. CASE RTReady
    BY <2>14 DEF RTReady, Contract!Respond
  <2>15. CASE RTCancelled
    BY <2>15 DEF RTCancelled, StoreOnce
  <2>16. CASE RTWaitDone
    BY <2>16 DEF RTWaitDone, Contract!Fail
  <2>17. CASE CallerReads
    BY <2>17 DEF CallerReads, Min2, AfterRecover, PipeDone, Contract!Deliver
  <2>18. CASE CallerSeesEnd
    BY <2>18 DEF CallerSeesEnd, PipeDone, ReadCloseError, Contract!Complete, Contract!Abort
  <2>19. CASE CallerCloses
    BY <2>19 DEF CallerCloses, StoreOnce, Contract!CloseResponse
  <2>20. CASE Cancel
    BY <2>20 DEF Cancel
  <2>21. CASE Terminated
    BY <2>21 DEF Terminated, vars
  <2>22. CASE UNCHANGED vars
    BY <2>22 DEF vars
  <2> QED
    BY <2>1, <2>2, <2>3, <2>4, <2>5, <2>6, <2>7, <2>8, <2>9, <2>10, <2>11, <2>12, <2>13, <2>14, <2>15, <2>16, <2>17, <2>18, <2>19, <2>20, <2>21, <2>22
    DEF Next, HandlerStep, HandlerEnds, Deferred, RoundTripStep, CallerStep
<1> QED
  BY <1>1, <1>2, Inductive, PTL DEF Spec, ImplementsContract, Contract!ContractSpec
=============================================================================
