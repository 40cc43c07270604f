----------------------------- MODULE ClientCalls -----------------------------
(***************************************************************************)
(* What reaches the wire of a client call: the headers, contexts and body  *)
(* of every attempt.                                                       *)
(*                                                                         *)
(* A Go caller keeps one connect.Request and sends it through clients      *)
(* built with different static headers (WithHeader).  CallRequest composes *)
(* the headers in that request, and hands interceptors a function, next,   *)
(* that they may call once, again (retry) or from several goroutines       *)
(* (hedge).  Every call of next is an attempt; the attempts of a call      *)
(* share the captured variable httpReq and one bytes.Reader.               *)
(* The streaming Go client and the Python and TypeScript runtimes take the *)
(* caller's headers per call and send once.                                *)
(*                                                                         *)
(* A header is a set of lines, a line who wrote it: "caller",              *)
(* "interceptor", "client" (the values a runtime sets itself) or the name  *)
(* of the client whose static header it is.                                *)
(***************************************************************************)
EXTENDS Naturals, Sequences, SequencesExt

CONSTANTS
    Clients,    \* [name, kind, statics, body, procedure, host]
    Keys,       \* header names
    BodyUnits,  \* reads it takes to read a request body
    MaxCalls,   \* bound: calls with one request
    MaxTries,   \* bound: attempts an interceptor makes in one call
    InterceptorKeys  \* bound: header names interceptors set

Kinds == {"unary", "stream", "py", "ts"}

ASSUME ClientsAssumption ==
    /\ {"Accept", "Content-Type"} \subseteq Keys /\ InterceptorKeys \subseteq Keys
    /\ \A c \in Clients :
          /\ c.kind \in Kinds /\ c.statics \subseteq Keys /\ c.body \in BOOLEAN
          /\ c.name \notin {"caller", "interceptor", "client"}
ASSUME BoundsAssumption ==
    BodyUnits \in Nat /\ MaxCalls \in Nat \ {0} /\ MaxTries \in Nat \ {0}

VARIABLES
    kind,      \* the runtime the caller uses
    header,    \* headers of the caller's request
    own,       \* of them, those the caller has set
    other,     \* of those, the ones spelled otherwise than the runtime does
    changed,   \* those an interceptor has set since
    spec,      \* procedure and peer of the request
    named,     \* the clients CallRequest has entered with the request
    filled,    \* of them, those that got to compose its headers
    phase,     \* "idle", or "calling" while interceptors run
    client,    \* the client of the current call
    reqs,      \* http.Requests of the call: 0 is the first, a is attempt a's copy
    httpReq,   \* the captured variable: which of them it points to
    read,      \* the bytes.Reader's index
    attempts   \* the calls of next

vars == <<kind, header, own, other, changed, spec, named, filled, phase, client,
          reqs, httpReq, read, attempts>>
request == <<kind, header, own, other, changed, spec, named, filled>>

Writers == {"caller", "interceptor", "client"} \cup {c.name : c \in Clients}
None    == [k \in Keys |-> {}]
NotSent == [ctx |-> 0, header |-> None]

\* The parts of a client's request body, in order.
Whole(c) == [i \in 1 .. (IF c.body THEN BodyUnits ELSE 0) |-> i]

Over(a) == attempts[a].step \in {"answered", "failed"}
AllOver == \A a \in DOMAIN attempts : Over(a)

-----------------------------------------------------------------------------
\* The headers.

\* Headers the runtime sets by itself: Content-Type if it sends a body.
ClientSets(c) == IF c.body THEN {"Accept", "Content-Type"} ELSE {"Accept"}

\* Static headers of a client, as lines.
Static(c) == [k \in Keys |-> IF k \in c.statics THEN {c.name} ELSE {}]
Defaults(c) == [k \in Keys |-> IF k \in ClientSets(c) THEN {"client"} ELSE {}]

\* Get(k) == "" ? Set(k, v): what is there already stays.
Fill(h, g) == [k \in Keys |-> IF h[k] = {} THEN g[k] ELSE h[k]]

\* Mutant: static headers are added.
Composed_Add(h, c) == [k \in Keys |-> Fill(h, Defaults(c))[k] \cup Static(c)[k]]

\* Mutant: static headers are set, whatever is there.
Composed_Overrides(h, c) == Fill(Static(c), Fill(h, Defaults(c)))

\* Mutant: static headers come before Accept and Content-Type.
Composed_StaticFirst(h, c) == Fill(Fill(h, Static(c)), Defaults(c))

\* CallRequest: Accept and Content-Type, then the static headers.
Composed(h, c) == Fill(Fill(h, Defaults(c)), Static(c))

\* The streaming Go client: connect-sse sends the caller's headers and its own
\* Accept and Content-Type; headerTransport then sets the static ones.
StreamHeaders(c) == Fill(Static(c), Fill(Defaults(c), header))

\* Python: dictionaries, whose keys are not names of headers but strings; a
\* header spelled otherwise is a second line.
PyHeaders(c) ==
    [k \in Keys |->
        (IF k \in ClientSets(c) THEN {"client"}
         ELSE IF k \in own \ other THEN {"caller"} ELSE Static(c)[k])
        \cup (IF k \in other THEN {"caller"} ELSE {})]

\* TypeScript: new Headers, set and set.
TsHeaders(c) == Fill(Defaults(c), Fill(header, Static(c)))

-----------------------------------------------------------------------------
\* The caller.

Init ==
    /\ kind \in Kinds
    /\ header = None /\ own = {} /\ other = {} /\ changed = {}
    /\ spec = [procedure |-> "", peer |-> ""]
    /\ named = <<>> /\ filled = <<>>
    /\ phase = "idle"
    /\ client \in {c \in Clients : c.kind = kind}
    /\ reqs = [i \in 0 .. MaxTries |-> NotSent]
    /\ httpReq = 0 /\ read = 0 /\ attempts = <<>>

\* The caller sets a header of the request.  http.Header and Headers know only
\* one spelling.
CallerSets(k) ==
    /\ phase = "idle" /\ Len(named) < MaxCalls /\ k \notin own
    /\ header' = [header EXCEPT ![k] = {"caller"}]
    /\ own' = own \cup {k} /\ changed' = changed \ {k}
    /\ other' \in {other} \cup (IF kind = "py" THEN {other \cup {k}} ELSE {})
    /\ attempts' = <<>>  \* those of the call before
    /\ UNCHANGED <<kind, spec, named, filled, phase, client, reqs, httpReq, read>>

\* setRequestSpec and setRequestPeer leave alone what a client has no value for.
Named(c) ==
    [procedure |-> IF c.procedure # "" THEN c.procedure ELSE spec.procedure,
     peer      |-> IF c.host # "" THEN c.host ELSE spec.peer]

\* CallRequest up to its first call of next; the message may not marshal, or
\* the URL not parse.
CallRequest(c) ==
    /\ phase = "idle" /\ kind = "unary" /\ c.kind = "unary" /\ Len(named) < MaxCalls
    /\ spec' = Named(c) /\ named' = Append(named, c) /\ client' = c
    /\ \/ /\ header' = Composed(header, c) /\ filled' = Append(filled, c)
          /\ phase' = "calling"
       \/ UNCHANGED <<header, filled, phase>>
    /\ UNCHANGED <<kind, own, other, changed, reqs, httpReq, read, attempts>>

\* The other runtimes send once, and change nothing of the caller's.
SendOnce(c) ==
    /\ phase = "idle" /\ kind # "unary" /\ c.kind = kind /\ Len(named) < MaxCalls
    /\ named' = Append(named, c) /\ client' = c
    /\ LET h == IF kind = "stream" THEN StreamHeaders(c)
                ELSE IF kind = "py" THEN PyHeaders(c) ELSE TsHeaders(c)
       IN attempts' = <<[step |-> "answered", header |-> h, set |-> {}, alone |-> TRUE, ptr |-> 0,
                         sent |-> [ctx |-> 1, header |-> h], pos |-> 0, got |-> Whole(c)]>>
    /\ UNCHANGED <<kind, header, own, other, changed, spec, filled, phase, reqs, httpReq, read>>

-----------------------------------------------------------------------------
\* Interceptors.

\* An interceptor calls next: with the request it was given, in which it may
\* have set a header, or with a copy of it.  It leaves the request alone while
\* attempts with it are running.
CallNext(ks, inPlace) ==
    /\ phase = "calling" /\ Len(attempts) < MaxTries
    /\ inPlace => AllOver
    /\ LET h == [k \in Keys |-> IF k \in ks THEN {"interceptor"} ELSE header[k]]
       IN /\ attempts' =
               Append([a \in DOMAIN attempts |->
                          [attempts[a] EXCEPT !.alone = @ /\ Over(a)]],
                      [step |-> "called", header |-> h, set |-> changed \cup ks, alone |-> AllOver,
                       ptr |-> 0, sent |-> NotSent, pos |-> 0, got |-> <<>>])
          /\ header' = IF inPlace THEN h ELSE header
    /\ changed' = IF inPlace THEN changed \cup ks ELSE changed
    /\ UNCHANGED <<kind, own, other, spec, named, filled, phase, client, reqs, httpReq, read>>

\* The interceptors wait for the attempts they started, and return; CallRequest
\* returns, and what the attempts shared is gone.
Return ==
    /\ phase = "calling" /\ AllOver
    /\ phase' = "idle"
    /\ reqs' = [i \in 0 .. MaxTries |-> NotSent]
    /\ httpReq' = 0 /\ read' = 0 /\ attempts' = <<>>
    /\ UNCHANGED <<request, client>>

-----------------------------------------------------------------------------
\* One attempt: the body of next, and the http client.

Step(a, from, to) ==
    /\ a \in DOMAIN attempts /\ attempts[a].step = from
    /\ attempts' = [attempts EXCEPT ![a].step = to]
    /\ UNCHANGED <<request, phase, client>>

\* httpReq.WithContext(ctx): a copy with the attempt's context.
CopyRequest(a) ==
    /\ Step(a, "called", "copied")
    /\ reqs' = [reqs EXCEPT ![a] = [ctx |-> a, header |-> reqs[httpReq].header]]
    /\ UNCHANGED <<httpReq, read>>

\* httpReq = the copy.
AssignRequest(a) ==
    /\ Step(a, "copied", "assigned")
    /\ httpReq' = a
    /\ UNCHANGED <<reqs, read>>

\* Mutant: only the first attempt sets the headers.
AssignHeader_Once(a) ==
    /\ Step(a, "assigned", "headed")
    /\ reqs' = IF reqs[httpReq].header = None
               THEN [reqs EXCEPT ![httpReq].header = attempts[a].header] ELSE reqs
    /\ UNCHANGED <<httpReq, read>>

\* httpReq.Header = anyReq.Header().Clone(), in whatever httpReq is by now.
AssignHeader(a) ==
    /\ Step(a, "assigned", "headed")
    /\ reqs' = [reqs EXCEPT ![httpReq].header = attempts[a].header]
    /\ UNCHANGED <<httpReq, read>>

\* doHTTPCall(httpClient, httpReq).
Do(a) ==
    /\ a \in DOMAIN attempts /\ attempts[a].step = "headed"
    /\ attempts' = [attempts EXCEPT ![a].step = "doing", ![a].ptr = httpReq]
    /\ UNCHANGED <<request, phase, client, reqs, httpReq, read>>

\* The http client writes the head of the request.
SendHead(a) ==
    /\ a \in DOMAIN attempts /\ attempts[a].step = "doing"
    /\ attempts' = [attempts EXCEPT ![a].step = "sending", ![a].sent = reqs[attempts[a].ptr]]
    /\ UNCHANGED <<request, phase, client, reqs, httpReq, read>>

\* It copies a part of the body from the reader ...
ReadPart(a) ==
    /\ a \in DOMAIN attempts /\ attempts[a].step = "sending"
    /\ read < Len(Whole(client)) /\ Len(attempts[a].got) < Len(Whole(client))
    /\ attempts' = [attempts EXCEPT ![a].step = "reading", ![a].pos = read,
                                    ![a].got = Append(@, read + 1)]
    /\ UNCHANGED <<request, phase, client, reqs, httpReq, read>>

\* ... which moves its index: from where it was or, unless nobody else moves
\* it meanwhile, from where it is by now.
MoveIndex(a) ==
    /\ Step(a, "reading", "sending")
    /\ read' \in {attempts[a].pos + 1, read + 1}
    /\ UNCHANGED <<reqs, httpReq>>

\* An answer, once the body is sent or the reader has no more of it.
Answered(a) ==
    /\ Step(a, "sending", "answered")
    /\ read >= Len(Whole(client)) \/ Len(attempts[a].got) = Len(Whole(client))
    /\ UNCHANGED <<reqs, httpReq, read>>

\* No answer: no connection, a broken one, or an expired context.
Failed(a) ==
    /\ \E from \in {"doing", "sending"} : Step(a, from, "failed")
    /\ UNCHANGED <<reqs, httpReq, read>>

-----------------------------------------------------------------------------
Attempt(a) ==
    \/ CopyRequest(a) \/ AssignRequest(a) \/ AssignHeader(a) \/ Do(a) \/ SendHead(a)
    \/ ReadPart(a) \/ MoveIndex(a) \/ Answered(a) \/ Failed(a)

Next ==
    \/ \E k \in Keys : CallerSets(k)
    \/ \E c \in Clients : CallRequest(c) \/ SendOnce(c)
    \/ \E k \in InterceptorKeys, inPlace \in BOOLEAN : CallNext({k}, inPlace)
    \/ CallNext({}, FALSE)
    \/ Return
    \/ \E a \in 1 .. MaxTries : Attempt(a)

Spec == Init /\ [][Next]_vars

-----------------------------------------------------------------------------
Line == {{}} \cup {{w} : w \in Writers}
Heads == [ctx : 0 .. MaxTries, header : [Keys -> SUBSET Writers]]
Steps == {"called", "copied", "assigned", "headed", "doing", "sending", "reading", "answered", "failed"}
AttemptType ==
    [step : Steps, header : [Keys -> SUBSET Writers], set : SUBSET Keys, alone : BOOLEAN,
     ptr : 0 .. MaxTries, sent : Heads, pos : Nat, got : Seq(1 .. BodyUnits)]

\* Types.  A header of the caller's request has one line: CallRequest, which
\* may see a request many times, never adds a second (client.go:323-333).
TypeOK ==
    /\ kind \in Kinds /\ phase \in {"idle", "calling"} /\ client \in Clients
    /\ header \in [Keys -> Line] /\ own \subseteq Keys /\ other \subseteq own /\ changed \subseteq Keys
    /\ named \in Seq(Clients) /\ filled \in Seq(Clients) /\ Len(named) <= MaxCalls
    /\ reqs \in [0 .. MaxTries -> Heads] /\ httpReq \in 0 .. MaxTries /\ read \in Nat
    /\ attempts \in Seq(AttemptType) /\ Len(attempts) <= MaxTries

\* A header the caller sets reaches the wire as the caller set it, whatever
\* the static headers of the client and of the clients before it ("per-call
\* headers from connectReq override them", client.go:258), but for what an
\* interceptor sets afterwards, and except that
\*  - the streaming Go client prefers a static header (headerTransport) and
\*    its own Accept and Content-Type,
\*  - Python and TypeScript prefer their own Accept and Content-Type,
\*  - Python keeps the static header too if the caller spells it otherwise.
CallerHeadersWin ==
    \A a \in DOMAIN attempts : \A k \in own \ attempts[a].set :
        LET h == attempts[a].header[k]
        IN IF kind = "py" /\ k \in other THEN "caller" \in h
           ELSE \/ h = {"caller"}
                \/ kind = "stream" /\ k \in client.statics \cup ClientSets(client)
                \/ kind \in {"py", "ts"} /\ k \in ClientSets(client)

Offers(c, k) == IF k \in ClientSets(c) THEN {"client"} ELSE Static(c)[k]

\* What the first of the clients in s that has something for k has for it.
FirstOffer(s, k) ==
    LET some == {i \in DOMAIN s : Offers(s[i], k) # {}}
    IN IF some = {} THEN {} ELSE Offers(s[Min(some)], k)

\* The last of the texts in s that is not empty.
LastValue(s) ==
    LET some == {i \in DOMAIN s : s[i] # ""}
    IN IF some = {} THEN "" ELSE s[Max(some)]

\* A request remembers the clients it was sent through (client.go:261-264,
\* 323-333).  A header that neither the caller nor an interceptor set is what
\* the first client that had a value for it gave it -- not the static header
\* of the client it is sent with, and never a static Accept, nor a static
\* Content-Type beside a body.  The procedure and the peer that interceptors
\* see are those of the last client that has one.  The other runtimes send
\* nothing of another client.
RequestRemembersClients ==
    /\ \A a \in DOMAIN attempts : \A k \in Keys \ (own \cup attempts[a].set) :
          IF kind = "unary" THEN attempts[a].header[k] = FirstOffer(filled, k)
          ELSE attempts[a].header[k] \subseteq {"client", client.name}
    /\ kind = "unary" =>
          /\ spec.procedure = LastValue([i \in DOMAIN named |-> named[i].procedure])
          /\ spec.peer = LastValue([i \in DOMAIN named |-> named[i].host])

Sent(a) == attempts[a].step \in {"sending", "reading", "answered"}

\* What attempt a has sent is its own.
Own(a) ==
    LET t == attempts[a]
    IN /\ t.alone => t.sent = [ctx |-> a, header |-> t.header]
       /\ t.sent.ctx \in DOMAIN attempts
       /\ t.sent.header = None \/ \E b \in DOMAIN attempts : t.sent.header = attempts[b].header
       /\ t.alone /\ t.step = "answered" =>
             (t.got = Whole(client)
                <=> Whole(client) = <<>> \/ \A b \in 1 .. a - 1 : attempts[b].got = <<>>)

\* An attempt that shares its time with no other sends the headers it was
\* given under its own context; its answer is to the whole body exactly if no
\* attempt of the call before it read any of the body (client.go:336-339; the
\* reader is not rewound).  Attempts that overlap may swap contexts and
\* headers, and one may even go out with no headers at all; but they send
\* nothing of another call, and never the bare context of the call.
AttemptsSendTheirOwn == \A a \in DOMAIN attempts : Sent(a) => Own(a)
=============================================================================
