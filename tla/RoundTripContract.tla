------------------------- MODULE RoundTripContract -------------------------
(***************************************************************************)
(* What one in-process round trip promises its two ends, whatever the      *)
(* transport does inside: the abstract specification that module           *)
(* LoopbackTransport (loopback.go) implements.                             *)
(*                                                                         *)
(* The service side produces body units and reaches a verdict; the caller  *)
(* side sees at most one outcome.  The promises are the guards:            *)
(*   - a response is complete (EOF) only when the service side finished    *)
(*     well, every produced unit was delivered and the request body was    *)
(*     released;                                                           *)
(*   - a response is cut short (read error) only when the service side     *)
(*     crashed after its headers had left;                                 *)
(*   - the call fails without a response only when nothing of it is left   *)
(*     running.                                                            *)
(***************************************************************************)
EXTENDS Naturals

VARIABLES
    phase,      \* what the caller of RoundTrip has seen so far
    produced,   \* body units the service side handed over
    delivered,  \* body units the caller read
    verdict,    \* how the service side ended: "running", "good" or "crashed"
    bodyHeld,   \* the request body is still open
    finished    \* nothing of the call is running any more

contractVars == <<phase, produced, delivered, verdict, bodyHeld, finished>>

Phases   == {"pending", "open", "complete", "aborted", "closed", "failed"}
Verdicts == {"running", "good", "crashed"}

Init ==
    /\ phase = "pending"
    /\ produced = 0 /\ delivered = 0
    /\ verdict = "running"
    /\ bodyHeld \in BOOLEAN
    /\ finished = FALSE

-----------------------------------------------------------------------------
\* The service side.

Produce ==
    /\ ~finished /\ phase # "complete"
    /\ produced' \in Nat /\ produced' >= produced
    /\ UNCHANGED <<phase, delivered, verdict, bodyHeld, finished>>

\* Reach a verdict; an error page may still be produced after it.
Conclude ==
    /\ verdict = "running"
    /\ verdict' \in {"good", "crashed"}
    /\ UNCHANGED <<phase, produced, delivered, bodyHeld, finished>>

Release ==
    /\ verdict # "running"
    /\ bodyHeld /\ bodyHeld' = FALSE
    /\ UNCHANGED <<phase, produced, delivered, verdict, finished>>

Finish ==
    /\ verdict # "running" /\ ~bodyHeld
    /\ ~finished /\ finished'
    /\ UNCHANGED <<phase, produced, delivered, verdict, bodyHeld>>

-----------------------------------------------------------------------------
\* The caller side.

Respond ==
    /\ phase = "pending" /\ phase' = "open"
    /\ UNCHANGED <<produced, delivered, verdict, bodyHeld, finished>>

Fail ==
    /\ phase = "pending" /\ finished /\ phase' = "failed"
    /\ UNCHANGED <<produced, delivered, verdict, bodyHeld, finished>>

Deliver ==
    /\ phase = "open"
    /\ delivered' \in Nat /\ delivered < delivered' /\ delivered' <= produced
    /\ UNCHANGED <<phase, produced, verdict, bodyHeld, finished>>

Complete ==
    /\ phase = "open" /\ phase' = "complete"
    /\ verdict = "good" /\ delivered = produced /\ ~bodyHeld
    /\ UNCHANGED <<produced, delivered, verdict, bodyHeld, finished>>

Abort ==
    /\ phase = "open" /\ phase' = "aborted"
    /\ verdict = "crashed"
    /\ UNCHANGED <<produced, delivered, verdict, bodyHeld, finished>>

CloseResponse ==
    /\ phase \in {"open", "complete", "aborted"} /\ phase' = "closed"
    /\ UNCHANGED <<produced, delivered, verdict, bodyHeld, finished>>

Next ==
    \/ Produce \/ Conclude \/ Release \/ Finish
    \/ Respond \/ Fail \/ Deliver \/ Complete \/ Abort \/ CloseResponse

ContractSpec == Init /\ [][Next]_contractVars
=============================================================================
