------------------------- MODULE LoopbackTransport -------------------------
(***************************************************************************)
(* One RoundTrip of the in-process transport (loopback.go).                *)
(*                                                                         *)
(* Three parties run concurrently:                                         *)
(*   - the handler goroutine RoundTrip starts: ServeHTTP, then the         *)
(*     deferred functions in LIFO order (recover, req.Body.Close,          *)
(*     flushHeaders, pw.Close, close(done));                               *)
(*   - RoundTrip itself: the select on ready / ctx.Done, then either the   *)
(*     response or the wait for done;                                      *)
(*   - the caller, who cancels the context, reads the response body and    *)
(*     closes it.                                                          *)
(* They meet on two channels (ready, done), on the context and on an       *)
(* io.Pipe.  The pipe is the standard library's: it is modelled from its   *)
(* documented behaviour, a write being complete only once the reader has   *)
(* consumed all of it or the pipe is done.                                 *)
(*                                                                         *)
(* Body bytes are counted in units.  runtime.Goexit inside a handler takes *)
(* the same path as a return (recover() yields nil), so HReturn is both.   *)
(***************************************************************************)
EXTENDS Integers

CONSTANTS
    Statuses,   \* status codes a handler passes to WriteHeader (0 included)
    MaxUnits,   \* bound: body units a handler writes in all
    MaxChunk,   \* bound: body units of one Write, and of one Read
    SynthLen    \* units of the synthesized "internal server error" body

ASSUME StatusesAssumption == Statuses \subseteq Nat
ASSUME BoundsAssumption == MaxUnits \in Nat /\ MaxChunk \in Nat \ {0}
ASSUME SynthLenAssumption == SynthLen \in Nat \ {0}

VARIABLES
    rtPc,       \* RoundTrip: "select", "waitDone", "returned" or "failed"
    hPc,        \* handler goroutine, see HandlerPcs
    outcome,    \* how ServeHTTP ended
    ready,      \* rw.ready is closed: headers are sent
    status,     \* rw.status
    done,       \* the done channel is closed
    ctxDone,    \* the request's context is cancelled
    reqBody,    \* "none" (nil), "open" or "closed"
    wbuf,       \* units of the write in progress not consumed yet
    offered,    \* units passed to pw.Write so far
    delivered,  \* units the caller has read
    werr, rerr, \* the pipe's two first-error cells
    resp,       \* StatusCode of the response RoundTrip returned (0: none)
    caller      \* the caller's view of the response body

handlerVars == <<hPc, outcome>>
writerVars  == <<ready, status>>
pipeVars    == <<wbuf, offered, delivered, werr, rerr>>
vars == <<rtPc, hPc, outcome, ready, status, done, ctxDone, reqBody,
          wbuf, offered, delivered, werr, rerr, resp, caller>>

HandlerPcs == {"serve", "write", "recover", "synthWrite", "closeBody",
               "flush", "closePipe", "signalDone", "gone"}
Outcomes   == {"running", "returned", "panickedEarly", "panickedLate"}
PipeErrs   == {"nil", "EOF", "ErrClosedPipe", "cause"}

\* Mutant: a Read that returns more than the writer offered.
Min2_ReaderSize(a, b) == a

Min2(a, b) == IF a < b THEN a ELSE b

-----------------------------------------------------------------------------
\* The pipe (external): either end's close ends it, the first error of each
\* end is kept, and each end's error is derived from the other's.

PipeDone == werr # "nil" \/ rerr # "nil"

StoreOnce(cell, err) == IF cell = "nil" THEN err ELSE cell

ReadCloseError == IF rerr = "nil" /\ werr # "nil" THEN werr ELSE "ErrClosedPipe"

\* The part of pw.Write that starts a write of n units: it fails at once on
\* a finished pipe, otherwise it blocks the goroutine at pc.
StartWrite(n, pc) ==
    /\ hPc' = pc
    /\ offered' = offered + n
    /\ wbuf' = n

-----------------------------------------------------------------------------
\* loopbackResponseWriter.

\* Mutant: WriteHeader without the once.
WriteHeader_EveryTime(s) == ready' = TRUE /\ status' = s

\* WriteHeader: the once makes the first status stick and publishes it.
WriteHeader(s) ==
    /\ ready' = TRUE
    /\ status' = IF ready THEN status ELSE s

FlushHeaders == WriteHeader(200)

-----------------------------------------------------------------------------
\* The handler goroutine: ServeHTTP.

HWriteHeader ==
    /\ hPc = "serve"
    /\ \E s \in Statuses : WriteHeader(s)
    /\ UNCHANGED <<rtPc, handlerVars, done, ctxDone, reqBody, pipeVars, resp, caller>>

HFlush ==
    /\ hPc = "serve"
    /\ FlushHeaders
    /\ UNCHANGED <<rtPc, handlerVars, done, ctxDone, reqBody, pipeVars, resp, caller>>

HWrite ==
    /\ hPc = "serve"
    /\ FlushHeaders
    /\ \E n \in 0 .. MaxChunk : offered + n <= MaxUnits /\ StartWrite(n, "write")
    /\ UNCHANGED <<rtPc, outcome, done, ctxDone, reqBody, delivered, werr, rerr,
                   resp, caller>>

\* Mutant: a failed write gives the request body up under the handler.
HWriteFails_DropsBody ==
    /\ hPc = "write" /\ PipeDone
    /\ hPc' = "serve"
    /\ wbuf' = 0
    /\ reqBody' = IF reqBody = "open" THEN "closed" ELSE reqBody
    /\ UNCHANGED <<rtPc, outcome, writerVars, done, ctxDone, offered,
                   delivered, werr, rerr, resp, caller>>

\* The write returns an error: the pipe was closed under it.  The handler
\* sees the error and may do anything ServeHTTP may do.
HWriteFails ==
    /\ hPc = "write" /\ PipeDone
    /\ hPc' = "serve"
    /\ wbuf' = 0
    /\ UNCHANGED <<rtPc, outcome, writerVars, done, ctxDone, reqBody, offered,
                   delivered, werr, rerr, resp, caller>>

\* Mutant: req.Body.Close is not deferred.
AfterRecover_NoClose == "flush"

\* The deferred function that follows the recovering one.
AfterRecover == IF reqBody = "none" THEN "flush" ELSE "closeBody"

HReturn ==
    /\ hPc = "serve"
    /\ hPc' = AfterRecover
    /\ outcome' = "returned"
    /\ UNCHANGED <<rtPc, writerVars, done, ctxDone, reqBody, pipeVars, resp, caller>>

HPanic ==
    /\ hPc = "serve"
    /\ hPc' = "recover"
    /\ outcome' = IF ready THEN "panickedLate" ELSE "panickedEarly"
    /\ UNCHANGED <<rtPc, writerVars, done, ctxDone, reqBody, pipeVars, resp, caller>>

-----------------------------------------------------------------------------
\* The handler goroutine: the deferred functions.

\* Mutant: a late panic is only logged.
HRecoverLate_LogOnly ==
    /\ hPc = "recover" /\ ready
    /\ hPc' = AfterRecover
    /\ UNCHANGED <<rtPc, outcome, writerVars, done, ctxDone, reqBody, pipeVars,
                   resp, caller>>

\* Headers in flight: tear the body down.
HRecoverLate ==
    /\ hPc = "recover" /\ ready
    /\ werr' = StoreOnce(werr, "ErrClosedPipe")
    /\ hPc' = AfterRecover
    /\ UNCHANGED <<rtPc, outcome, writerVars, done, ctxDone, reqBody, wbuf,
                   offered, delivered, rerr, resp, caller>>

\* Headers not sent: synthesize a 500 response.
HRecoverEarly ==
    /\ hPc = "recover" /\ ~ready
    /\ WriteHeader(500)
    /\ StartWrite(SynthLen, "synthWrite")
    /\ UNCHANGED <<rtPc, outcome, done, ctxDone, reqBody, delivered, werr, rerr,
                   resp, caller>>

HSynthWriteFails ==
    /\ hPc = "synthWrite" /\ PipeDone
    /\ hPc' = AfterRecover
    /\ wbuf' = 0
    /\ UNCHANGED <<rtPc, outcome, writerVars, done, ctxDone, reqBody, offered,
                   delivered, werr, rerr, resp, caller>>

HCloseBody ==
    /\ hPc = "closeBody"
    /\ reqBody' = "closed"
    /\ hPc' = "flush"
    /\ UNCHANGED <<rtPc, outcome, writerVars, done, ctxDone, pipeVars, resp, caller>>

\* Mutant: flushHeaders is not deferred.
HFlushDeferred_Missing ==
    /\ hPc = "flush"
    /\ hPc' = "closePipe"
    /\ UNCHANGED <<rtPc, outcome, writerVars, done, ctxDone, reqBody, pipeVars,
                   resp, caller>>

HFlushDeferred ==
    /\ hPc = "flush"
    /\ FlushHeaders
    /\ hPc' = "closePipe"
    /\ UNCHANGED <<rtPc, outcome, done, ctxDone, reqBody, pipeVars, resp, caller>>

\* Mutant: pw.Close is not deferred.
HClosePipe_Missing ==
    /\ hPc = "closePipe"
    /\ hPc' = "signalDone"
    /\ UNCHANGED <<rtPc, outcome, writerVars, done, ctxDone, reqBody, pipeVars,
                   resp, caller>>

HClosePipe ==
    /\ hPc = "closePipe"
    /\ werr' = StoreOnce(werr, "EOF")
    /\ hPc' = "signalDone"
    /\ UNCHANGED <<rtPc, outcome, writerVars, done, ctxDone, reqBody, wbuf,
                   offered, delivered, rerr, resp, caller>>

HSignalDone ==
    /\ hPc = "signalDone"
    /\ done' = TRUE
    /\ hPc' = "gone"
    /\ UNCHANGED <<rtPc, outcome, writerVars, ctxDone, reqBody, pipeVars, resp, caller>>

-----------------------------------------------------------------------------
\* RoundTrip.  When both channels of the select are ready, either case runs.

RTReady ==
    /\ rtPc = "select" /\ ready
    /\ rtPc' = "returned"
    /\ resp' = IF status = 0 THEN 200 ELSE status
    /\ caller' = "reading"
    /\ UNCHANGED <<handlerVars, writerVars, done, ctxDone, reqBody, pipeVars>>

\* Mutant: the cancelled call waits without tearing the pipe down.
RTCancelled_PipeOpen ==
    /\ rtPc = "select" /\ ctxDone
    /\ rtPc' = "waitDone"
    /\ UNCHANGED <<handlerVars, writerVars, done, ctxDone, reqBody, pipeVars,
                   resp, caller>>

RTCancelled ==
    /\ rtPc = "select" /\ ctxDone
    /\ rtPc' = "waitDone"
    /\ rerr' = StoreOnce(rerr, "cause")
    /\ UNCHANGED <<handlerVars, writerVars, done, ctxDone, reqBody, wbuf,
                   offered, delivered, werr, resp, caller>>

\* Mutant: the cancelled call returns without waiting for the goroutine.
RTWaitDone_NoWait ==
    /\ rtPc = "waitDone"
    /\ rtPc' = "failed"
    /\ UNCHANGED <<handlerVars, writerVars, done, ctxDone, reqBody, pipeVars,
                   resp, caller>>

RTWaitDone ==
    /\ rtPc = "waitDone" /\ done
    /\ rtPc' = "failed"
    /\ UNCHANGED <<handlerVars, writerVars, done, ctxDone, reqBody, pipeVars,
                   resp, caller>>

-----------------------------------------------------------------------------
\* The caller (external): cancels at any time; reads until an error; closes
\* the response body at any time once it has one.

Cancel ==
    /\ ~ctxDone /\ ctxDone' = TRUE
    /\ UNCHANGED <<rtPc, handlerVars, writerVars, done, reqBody, pipeVars, resp, caller>>

\* The rendezvous of a Read with the blocked Write; the write that is fully
\* consumed returns, to the handler or to the recovering function.
CallerReads ==
    /\ caller = "reading" /\ ~PipeDone
    /\ hPc \in {"write", "synthWrite"}
    /\ \E k \in 1 .. MaxChunk :
         /\ wbuf' = wbuf - Min2(k, wbuf)
         /\ delivered' = delivered + Min2(k, wbuf)
    /\ hPc' = IF wbuf' > 0 THEN hPc
              ELSE IF hPc = "write" THEN "serve" ELSE AfterRecover
    /\ UNCHANGED <<rtPc, outcome, writerVars, done, ctxDone, reqBody, offered,
                   werr, rerr, resp, caller>>

CallerSeesEnd ==
    /\ caller = "reading" /\ PipeDone
    /\ caller' = IF ReadCloseError = "EOF" THEN "eof" ELSE "error"
    /\ UNCHANGED <<rtPc, handlerVars, writerVars, done, ctxDone, reqBody, pipeVars, resp>>

CallerCloses ==
    /\ caller \in {"reading", "eof", "error"}
    /\ caller' = "closed"
    /\ rerr' = StoreOnce(rerr, "ErrClosedPipe")
    /\ UNCHANGED <<rtPc, handlerVars, writerVars, done, ctxDone, reqBody, wbuf,
                   offered, delivered, werr, resp>>

-----------------------------------------------------------------------------

Init ==
    /\ rtPc = "select" /\ hPc = "serve" /\ outcome = "running"
    /\ ready = FALSE /\ status = 0 /\ done = FALSE
    /\ ctxDone \in BOOLEAN
    /\ reqBody \in {"none", "open"}
    /\ wbuf = 0 /\ offered = 0 /\ delivered = 0
    /\ werr = "nil" /\ rerr = "nil"
    /\ resp = 0 /\ caller = "none"

\* Steps the goroutine takes by itself; a handler's return or panic is its own.
HandlerEnds == HReturn \/ HPanic
Deferred ==
    \/ HRecoverLate \/ HRecoverEarly \/ HSynthWriteFails \/ HCloseBody
    \/ HFlushDeferred \/ HClosePipe \/ HSignalDone
HandlerStep == HWriteHeader \/ HFlush \/ HWrite \/ HWriteFails \/ HandlerEnds \/ Deferred
RoundTripStep == RTReady \/ RTCancelled \/ RTWaitDone
CallerStep == CallerReads \/ CallerSeesEnd \/ CallerCloses

\* The call is over; nothing is left to do.
Terminated ==
    /\ hPc = "gone"
    /\ rtPc = "failed" \/ caller = "closed"
    /\ UNCHANGED vars

Next == HandlerStep \/ RoundTripStep \/ CallerStep \/ Cancel \/ Terminated

Spec == Init /\ [][Next]_vars

(***************************************************************************)
(* Fairness.  The Go scheduler runs a goroutine that can run (WF on the    *)
(* deferred functions, on a failed write and on RoundTrip).  Liveness is   *)
(* promised to handlers that return: SF on HandlerEnds, since a handler    *)
(* between two writes can return each time.  Nothing is asked of the       *)
(* caller; a property that needs one who keeps reading has CallerReadsOn    *)
(* as its premise.                                                         *)
(***************************************************************************)
Fairness ==
    /\ WF_vars(Deferred) /\ WF_vars(HWriteFails)
    /\ SF_vars(HandlerEnds)
    /\ WF_vars(RoundTripStep)
CallerReadsOn == WF_vars(CallerReads \/ CallerSeesEnd)

FairSpec == Spec /\ Fairness
-----------------------------------------------------------------------------
\* Safety.

\* Types of every variable; the counters stay within what was offered.
TypeOK ==
    /\ rtPc \in {"select", "waitDone", "returned", "failed"}
    /\ hPc \in HandlerPcs /\ outcome \in Outcomes
    /\ ready \in BOOLEAN /\ status \in Nat
    /\ done \in BOOLEAN /\ ctxDone \in BOOLEAN
    /\ reqBody \in {"none", "open", "closed"}
    /\ wbuf \in Nat /\ offered \in Nat /\ delivered \in Nat
    /\ werr \in PipeErrs /\ rerr \in PipeErrs
    /\ resp \in Nat
    /\ caller \in {"none", "reading", "eof", "error", "closed"}

\* "Observing EOF on the response body therefore implies req.Body has already
\* been closed" (the comment on the defers): the order of the deferred
\* functions, seen from another goroutine through the pipe.
EofImpliesBodyClosed == caller = "eof" => reqBody # "open"

\* A caller that reads a clean EOF has the whole body: every unit the handler
\* passed to Write, of a handler that did not panic after its headers, or the
\* whole synthesized error body of one that panicked before them.
NoSilentTruncation ==
    caller = "eof" =>
        /\ outcome \in {"returned", "panickedEarly"}
        /\ delivered = offered
        /\ outcome = "panickedEarly" => delivered = SynthLen

\* The status the caller holds is the one the writer settled on, for as long
\* as the handler keeps running; a handler that panics before its headers can
\* only be seen as a 500.
StatusSettled ==
    rtPc = "returned" =>
        /\ resp = IF status = 0 THEN 200 ELSE status
        /\ outcome = "panickedEarly" => resp = 500

\* RoundTrip's error return after a cancellation: the handler goroutine has
\* nothing left to do and the request body is closed, so that the caller may
\* reuse what it passed in.
CancelledCallIsOver ==
    rtPc = "failed" => hPc = "gone" /\ reqBody # "open" /\ caller = "none"

\* The transport never closes the request body under a running ServeHTTP.
BodyOpenWhileServing == reqBody = "closed" => outcome # "running"

-----------------------------------------------------------------------------
\* Refinement: one round trip implements RoundTripContract.

Phase ==
    CASE rtPc = "failed"                         -> "failed"
      [] rtPc \in {"select", "waitDone"}          -> "pending"
      [] rtPc = "returned" /\ caller = "reading"  -> "open"
      [] rtPc = "returned" /\ caller = "eof"      -> "complete"
      [] rtPc = "returned" /\ caller = "error"    -> "aborted"
      [] OTHER                                   -> "closed"

Verdict ==
    CASE outcome = "running"      -> "running"
      [] outcome = "panickedLate" -> "crashed"
      [] OTHER                    -> "good"

Contract == INSTANCE RoundTripContract WITH
    phase <- Phase, produced <- offered, delivered <- delivered,
    verdict <- Verdict, bodyHeld <- (reqBody = "open"), finished <- done

\* What the transport does, read through the mapping above, is what the
\* contract allows: the order of cleanup, completeness and failure of
\* RoundTrip as its two ends see them.
ImplementsContract == Contract!ContractSpec

-----------------------------------------------------------------------------
\* Liveness.

\* RoundTrip returns whatever the caller does: on the first Write, Flush or
\* WriteHeader, on the handler's end, or on cancellation once the handler has
\* been waited for.
RoundTripReturns == <>(rtPc \in {"returned", "failed"})

\* With a caller that reads on, the handler goroutine ends, releases the
\* request body and is not left blocked in a write.
GoroutineEnds == CallerReadsOn => <>(hPc = "gone" /\ reqBody # "open")

\* A caller that keeps reading gets to the end of the body.
CallerReachesEnd ==
    CallerReadsOn => ((caller = "reading") ~> (caller \in {"eof", "error", "closed"}))
=============================================================================
