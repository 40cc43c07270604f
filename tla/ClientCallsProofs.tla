-------------------------- MODULE ClientCallsProofs --------------------------
(***************************************************************************)
(* Proofs about ClientCalls: types, the headers of every attempt and what  *)
(* an attempt sends, for every set of clients and headers and every bound. *)
(***************************************************************************)
EXTENDS ClientCalls, NaturalsInduction, WellFoundedInduction, TLAPS

\* Only unary calls have attempts of their own, and only while they last.
Calls ==
    /\ kind # "unary" => phase = "idle" /\ changed = {} /\ AllOver
    /\ kind = "unary" /\ phase = "idle" => attempts = <<>>

\* The caller's own headers, in the request and in every attempt.
OwnHeaders ==
    \A k \in own : /\ k \notin changed => header[k] = {"caller"}
                   /\ kind = "unary" => \A a \in DOMAIN attempts :
                         k \notin attempts[a].set => attempts[a].header[k] = {"caller"}

Headers == Calls /\ OwnHeaders /\ CallerHeadersWin

\* Who is alone: nobody runs beside it, and all before it are over.
Alone ==
    \A a, b \in DOMAIN attempts : attempts[a].alone /\ a # b =>
        /\ b < a => Over(b)
        /\ ~Over(a) => Over(b)

\* The copy an attempt made, and the request it sends.
Carries(a) ==
    LET t == attempts[a]
    IN /\ t.step # "called" => reqs[a].ctx = a
       /\ t.step \in {"assigned", "headed"} => httpReq # 0
       /\ t.step = "doing" => t.ptr \in DOMAIN attempts /\ reqs[t.ptr].ctx = t.ptr
       /\ t.alone =>
             /\ t.step \in {"assigned", "headed"} => httpReq = a
             /\ t.step = "doing" => t.ptr = a
             /\ t.step \in {"headed", "doing"} => reqs[a].header = t.header

\* The requests of a call: copy i has the context of attempt i, and headers
\* given to one of the attempts.
Requests ==
    /\ \A i \in 0 .. MaxTries :
          reqs[i].header = None \/ \E b \in DOMAIN attempts : reqs[i].header = attempts[b].header
    /\ kind # "unary" => \A i \in 0 .. MaxTries : reqs[i].header = None
    /\ kind = "unary" =>
          /\ httpReq \in 0 .. Len(attempts) /\ (httpReq # 0 => reqs[httpReq].ctx = httpReq)
          /\ \A a \in DOMAIN attempts : Carries(a)

\* No attempt before this one has read any of the body.
First(a) == \A b \in 1 .. a - 1 : attempts[b].got = <<>>

\* Who reads alone, and first or not, reads on from where the reader is.
ReadsOn(a) ==
    LET t == attempts[a]
    IN /\ t.step = "reading" => t.got # <<>>
       /\ t.got # <<>> /\ t.step # "reading" => read > 0
       /\ t.alone /\ ~First(a) => t.got = <<>> \/ t.got[1] # 1
       /\ t.alone /\ ~First(a) /\ ~Over(a) => read > 0
       /\ t.alone /\ First(a) /\ ~Over(a) =>
             /\ \A i \in 1 .. Len(t.got) : t.got[i] = i
             /\ t.step = "reading" => t.pos = read /\ Len(t.got) = read + 1
             /\ t.step # "reading" => Len(t.got) = read

\* The reader has not moved if nobody has read from it.
Reading ==
    /\ \A a \in DOMAIN attempts : Len(attempts[a].got) <= Len(Whole(client))
    /\ kind = "unary" =>
          /\ (\A a \in DOMAIN attempts : attempts[a].got = <<>>) => read = 0
          /\ \A a \in DOMAIN attempts : ReadsOn(a)

-----------------------------------------------------------------------------
\* One attempt of a sequence is updated.
LEMMA Updated ==
    ASSUME NEW T, NEW s \in Seq(T), NEW a \in DOMAIN s, NEW r \in T
    PROVE  /\ [s EXCEPT ![a] = r] \in Seq(T)
           /\ Len([s EXCEPT ![a] = r]) = Len(s)
           /\ DOMAIN [s EXCEPT ![a] = r] = DOMAIN s
    OBVIOUS

LEMMA FunctionIsSeq ==
    ASSUME NEW S, NEW m \in Nat, NEW f \in [1 .. m -> S]
    PROVE  f \in Seq(S) /\ Len(f) = m
    OBVIOUS

LEMMA Appended ==
    ASSUME NEW S, NEW s \in Seq(S), NEW e \in S
    PROVE  Append(s, e) \in Seq(S) /\ Len(Append(s, e)) = Len(s) + 1 /\ Len(s) \in Nat
    OBVIOUS

LEMMA WholeType ==
    ASSUME NEW c \in Clients
    PROVE  Whole(c) \in Seq(1 .. BodyUnits) /\ Len(Whole(c)) \in Nat
           /\ DOMAIN Whole(c) = 1 .. Len(Whole(c))
           /\ Len(Whole(c)) <= BodyUnits
           /\ \A i \in 1 .. Len(Whole(c)) : Whole(c)[i] = i
    BY BoundsAssumption, ClientsAssumption DEF Whole

\* What a runtime fills in is one line, and a line is a set of writers.
LEMMA LineTypes ==
    ASSUME NEW c \in Clients
    PROVE  /\ Static(c) \in [Keys -> Line] /\ Defaults(c) \in [Keys -> Line]
           /\ \A h, g \in [Keys -> Line] : Fill(h, g) \in [Keys -> Line]
           /\ [Keys -> Line] \subseteq [Keys -> SUBSET Writers]
<1>1. c.name \in Writers /\ "client" \in Writers
  BY DEF Writers
<1> HIDE DEF Writers
<1>2. Static(c) \in [Keys -> Line] /\ Defaults(c) \in [Keys -> Line]
  BY <1>1 DEF Static, Defaults, Line
<1>3. \A h, g \in [Keys -> Line] : Fill(h, g) \in [Keys -> Line]
  BY DEF Fill
<1>4. Line \subseteq SUBSET Writers
  BY DEF Line
<1> QED BY <1>2, <1>3, <1>4

LEMMA ComposedTypes ==
    ASSUME NEW c \in Clients, TypeOK
    PROVE  /\ Composed(header, c) \in [Keys -> Line]
           /\ StreamHeaders(c) \in [Keys -> SUBSET Writers]
           /\ PyHeaders(c) \in [Keys -> SUBSET Writers]
           /\ TsHeaders(c) \in [Keys -> SUBSET Writers]
<1>1. Composed(header, c) \in [Keys -> Line]
  BY LineTypes DEF Composed, TypeOK
<1>2. StreamHeaders(c) \in [Keys -> Line] /\ TsHeaders(c) \in [Keys -> Line]
  BY LineTypes DEF StreamHeaders, TsHeaders, TypeOK
<1>3. PyHeaders(c) \in [Keys -> SUBSET Writers]
  BY LineTypes DEF PyHeaders, Writers, Line
<1> QED BY <1>1, <1>2, <1>3, LineTypes

LEMMA EmptySeq ==
    ASSUME NEW S
    PROVE  <<>> \in Seq(S) /\ Len(<<>>) = 0 /\ DOMAIN <<>> = {}
    OBVIOUS

LEMMA InitTypes == Init => TypeOK
<1> SUFFICES ASSUME Init PROVE TypeOK
  OBVIOUS
<1>1. None \in [Keys -> Line] /\ NotSent \in Heads
  BY BoundsAssumption DEF None, NotSent, Heads, Line
<1>2. reqs \in [0 .. MaxTries -> Heads] /\ header \in [Keys -> Line]
  BY <1>1 DEF Init
<1>3. attempts = <<>> /\ named = <<>> /\ filled = <<>>
  BY DEF Init
<1>4. /\ attempts \in Seq(AttemptType) /\ Len(attempts) = 0
      /\ named \in Seq(Clients) /\ filled \in Seq(Clients) /\ Len(named) = 0
  BY <1>3, EmptySeq
<1>5. /\ kind \in Kinds /\ phase = "idle" /\ client \in Clients
      /\ own = {} /\ other = {} /\ changed = {} /\ httpReq = 0 /\ read = 0
  BY DEF Init
<1> QED BY <1>2, <1>4, <1>5, BoundsAssumption DEF TypeOK

\* Every step keeps the types.
LEMMA StepTypes == TypeOK /\ [Next]_vars => TypeOK'
<1> SUFFICES ASSUME TypeOK, [Next]_vars PROVE TypeOK'
  OBVIOUS
<1> USE BoundsAssumption
<1>0. None \in [Keys -> SUBSET Writers] /\ NotSent \in Heads
  BY DEF None, NotSent, Heads
<1>1. CASE UNCHANGED vars
  BY <1>1 DEF vars, TypeOK
<1>2. ASSUME NEW k \in Keys, CallerSets(k) PROVE TypeOK'
  <2>1. header' \in [Keys -> Line]
    BY <1>2 DEF CallerSets, TypeOK, Line, Writers
  <2> QED BY <1>2, <2>1 DEF CallerSets, TypeOK
<1>3. ASSUME NEW c \in Clients, CallRequest(c) PROVE TypeOK'
  <2>1. header' \in [Keys -> Line]
    BY <1>3, ComposedTypes DEF CallRequest, TypeOK
  <2>2. /\ named' \in Seq(Clients) /\ Len(named') <= MaxCalls
        /\ filled' \in Seq(Clients)
    <3>1. named' = Append(named, c) /\ Len(named) < MaxCalls /\ filled' \in {filled, Append(filled, c)}
      BY <1>3 DEF CallRequest
    <3>2. named \in Seq(Clients) /\ filled \in Seq(Clients)
      BY DEF TypeOK
    <3>3. /\ Append(named, c) \in Seq(Clients) /\ Append(filled, c) \in Seq(Clients)
          /\ Len(Append(named, c)) = Len(named) + 1 /\ Len(named) \in Nat
      BY <3>2, Appended
    <3> QED BY <3>1, <3>2, <3>3, SMTT(30)
  <2>3. client' \in Clients /\ phase' \in {"idle", "calling"}
    BY <1>3 DEF CallRequest, TypeOK
  <2>4. UNCHANGED <<kind, own, other, changed, reqs, httpReq, read, attempts>>
    BY <1>3 DEF CallRequest
  <2> QED BY <2>1, <2>2, <2>3, <2>4 DEF TypeOK
<1>4. ASSUME NEW c \in Clients, SendOnce(c) PROVE TypeOK'
  <2>1. PICK h \in [Keys -> SUBSET Writers] :
           attempts' = <<[step |-> "answered", header |-> h, set |-> {}, alone |-> TRUE, ptr |-> 0,
                         sent |-> [ctx |-> 1, header |-> h], pos |-> 0, got |-> Whole(c)]>>
    BY <1>4, ComposedTypes DEF SendOnce
  <2>2. attempts' \in Seq(AttemptType) /\ Len(attempts') <= MaxTries
    BY <2>1, WholeType DEF AttemptType, Heads, Steps
  <2> QED BY <1>4, <2>2 DEF SendOnce, TypeOK
<1>5. ASSUME NEW ks \in SUBSET Keys, NEW inPlace \in BOOLEAN, CallNext(ks, inPlace) PROVE TypeOK'
  <2> DEFINE h == [k \in Keys |-> IF k \in ks THEN {"interceptor"} ELSE header[k]]
             older == [a \in DOMAIN attempts |-> [attempts[a] EXCEPT !.alone = @ /\ Over(a)]]
             new == [step |-> "called", header |-> h, set |-> changed \cup ks, alone |-> AllOver,
                     ptr |-> 0, sent |-> NotSent, pos |-> 0, got |-> <<>>]
  <2>0. {"interceptor"} \in Line /\ Line \subseteq SUBSET Writers
    BY DEF Line, Writers
  <2>1. h \in [Keys -> Line] /\ h \in [Keys -> SUBSET Writers]
    BY <2>0 DEF TypeOK
  <2>2. AllOver \in BOOLEAN /\ \A a : Over(a) \in BOOLEAN
    BY DEF AllOver, Over
  <2>3. new \in AttemptType
    BY <1>0, <2>1, <2>2 DEF AttemptType, Steps, TypeOK
  <2>4. older \in Seq(AttemptType) /\ Len(older) = Len(attempts)
    <3>1. ASSUME NEW a \in DOMAIN attempts PROVE older[a] \in AttemptType
      <4>1. attempts[a] \in AttemptType /\ (attempts[a].alone /\ Over(a)) \in BOOLEAN
        BY <2>2 DEF TypeOK
      <4>2. \A b \in BOOLEAN : [attempts[a] EXCEPT !.alone = b] \in AttemptType
        BY <4>1 DEF AttemptType
      <4> QED BY <4>1, <4>2
    <3>2. DOMAIN attempts = 1 .. Len(attempts) /\ Len(attempts) \in Nat
      BY DEF TypeOK
    <3>3. older \in [DOMAIN attempts -> AttemptType]
      BY <3>1
    <3> HIDE DEF older
    <3>4. older \in [1 .. Len(attempts) -> AttemptType]
      BY <3>2, <3>3
    <3> QED BY <3>2, <3>4, FunctionIsSeq
  <2>5. attempts' = Append(older, new) /\ Len(attempts) < MaxTries
    BY <1>5 DEF CallNext
  <2>6. attempts' \in Seq(AttemptType) /\ Len(attempts') <= MaxTries
    BY <2>3, <2>4, <2>5 DEF TypeOK
  <2> HIDE DEF h, older, new
  <2>7. header' \in [Keys -> Line] /\ changed' \subseteq Keys
    BY <1>5, <2>1 DEF CallNext, TypeOK, h
  <2> QED BY <1>5, <2>6, <2>7 DEF CallNext, TypeOK
<1>6. CASE Return
  BY <1>0, <1>6 DEF Return, TypeOK, request
<1>7. ASSUME NEW a \in 1 .. MaxTries, Attempt(a) PROVE TypeOK'
  <2>1. /\ a \in DOMAIN attempts /\ attempts[a] \in AttemptType
        /\ UNCHANGED <<kind, header, own, other, changed, spec, named, filled, phase, client>>
    BY <1>7 DEF Attempt, CopyRequest, AssignRequest, AssignHeader, Do, SendHead, ReadPart, MoveIndex,
               Answered, Failed, Step, request, TypeOK
  <2>2. /\ attempts' \in Seq(AttemptType) /\ Len(attempts') = Len(attempts)
    <3> DEFINE To(r) == r \in AttemptType /\ attempts' = [attempts EXCEPT ![a] = r]
    <3>1. SUFFICES \E r : To(r)
      BY <2>1, Updated DEF TypeOK
    <3>2. CASE \E from, to \in Steps : Step(a, from, to)
      <4>1. PICK from, to \in Steps : Step(a, from, to)
        BY <3>2
      <4>2. To([attempts[a] EXCEPT !.step = to])
        BY <2>1, <4>1 DEF Step, AttemptType
      <4> QED BY <4>2
    <3>3. CASE Do(a)
      <4>1. To([attempts[a] EXCEPT !.step = "doing", !.ptr = httpReq])
        BY <2>1, <3>3 DEF Do, AttemptType, Steps, TypeOK
      <4> QED BY <4>1
    <3>4. CASE SendHead(a)
      <4>1. To([attempts[a] EXCEPT !.step = "sending", !.sent = reqs[attempts[a].ptr]])
        BY <2>1, <3>4 DEF SendHead, AttemptType, Steps, TypeOK
      <4> QED BY <4>1
    <3>5. CASE ReadPart(a)
      <4>1. read + 1 \in 1 .. BodyUnits
        BY <3>5, WholeType DEF ReadPart, TypeOK
      <4>2. Append(attempts[a].got, read + 1) \in Seq(1 .. BodyUnits)
        BY <2>1, <4>1 DEF AttemptType
      <4>3. To([attempts[a] EXCEPT !.step = "reading", !.pos = read, !.got = Append(@, read + 1)])
        BY <2>1, <3>5, <4>2 DEF ReadPart, AttemptType, Steps, TypeOK
      <4> QED BY <4>3
    <3> QED BY <1>7, <3>2, <3>3, <3>4, <3>5
          DEF Attempt, CopyRequest, AssignRequest, AssignHeader, MoveIndex, Answered, Failed, Steps
  <2>3. reqs' \in [0 .. MaxTries -> Heads]
    <3>1. CASE CopyRequest(a)
      <4>1. reqs[httpReq] \in Heads
        BY DEF TypeOK
      <4>2. [ctx |-> a, header |-> reqs[httpReq].header] \in Heads
        BY <4>1 DEF Heads
      <4> QED BY <3>1, <4>2 DEF CopyRequest, TypeOK
    <3>2. CASE AssignHeader(a)
      <4>1. [reqs[httpReq] EXCEPT !.header = attempts[a].header] \in Heads
        BY <2>1 DEF TypeOK, Heads, AttemptType
      <4> QED BY <3>2, <4>1 DEF AssignHeader, TypeOK
    <3>3. ~CopyRequest(a) /\ ~AssignHeader(a) => UNCHANGED reqs
      BY <1>7 DEF Attempt, AssignRequest, Do, SendHead, ReadPart, MoveIndex, Answered, Failed
    <3> QED BY <3>1, <3>2, <3>3 DEF TypeOK
  <2>4. httpReq' \in {httpReq, a} /\ read' \in {read, attempts[a].pos + 1, read + 1}
    BY <1>7 DEF Attempt, CopyRequest, AssignRequest, AssignHeader, Do, SendHead, ReadPart,
               MoveIndex, Answered, Failed
  <2>5. attempts[a].pos \in Nat
    BY <2>1 DEF AttemptType
  <2>6. httpReq' \in 0 .. MaxTries /\ read' \in Nat
    BY <2>4, <2>5 DEF TypeOK
  <2> QED BY <2>1, <2>2, <2>3, <2>6 DEF TypeOK
<1>8. InterceptorKeys \subseteq Keys
  BY ClientsAssumption
<1> QED BY <1>1, <1>2, <1>3, <1>4, <1>5, <1>6, <1>7, <1>8 DEF Next

\* The types hold for every set of clients and headers and all bounds.
THEOREM TypesHold == Spec => []TypeOK
BY InitTypes, StepTypes, PTL DEF Spec

-----------------------------------------------------------------------------
\* What calling next does to the attempts: the older ones may stop being
\* alone, and there is one more.
LEMMA CallNextEffect ==
    ASSUME TypeOK, NEW ks, NEW inPlace, CallNext(ks, inPlace)
    PROVE  /\ Len(attempts) \in Nat /\ Len(attempts') = Len(attempts) + 1
           /\ DOMAIN attempts = 1 .. Len(attempts) /\ DOMAIN attempts' = 1 .. Len(attempts) + 1
           /\ \A a \in DOMAIN attempts :
                 /\ attempts'[a].step = attempts[a].step
                 /\ attempts'[a].header = attempts[a].header /\ attempts'[a].set = attempts[a].set
                 /\ attempts'[a].alone = (attempts[a].alone /\ Over(a))
                 /\ attempts'[a].ptr = attempts[a].ptr /\ attempts'[a].sent = attempts[a].sent
                 /\ attempts'[a].pos = attempts[a].pos /\ attempts'[a].got = attempts[a].got
           /\ attempts'[Len(attempts) + 1] =
                 [step |-> "called",
                  header |-> [k \in Keys |-> IF k \in ks THEN {"interceptor"} ELSE header[k]],
                  set |-> changed \cup ks, alone |-> AllOver,
                  ptr |-> 0, sent |-> NotSent, pos |-> 0, got |-> <<>>]
<1> DEFINE older == [a \in DOMAIN attempts |-> [attempts[a] EXCEPT !.alone = @ /\ Over(a)]]
           new == [step |-> "called",
                   header |-> [k \in Keys |-> IF k \in ks THEN {"interceptor"} ELSE header[k]],
                   set |-> changed \cup ks, alone |-> AllOver,
                   ptr |-> 0, sent |-> NotSent, pos |-> 0, got |-> <<>>]
<1>1. Len(attempts) \in Nat /\ DOMAIN attempts = 1 .. Len(attempts)
  BY DEF TypeOK
<1>2. older \in Seq({older[a] : a \in 1 .. Len(attempts)}) /\ Len(older) = Len(attempts)
  <2>1. older \in [1 .. Len(attempts) -> {older[a] : a \in 1 .. Len(attempts)}]
    BY <1>1
  <2> HIDE DEF older
  <2> QED BY <1>1, <2>1, FunctionIsSeq
<1>3. attempts' = Append(older, new)
  BY DEF CallNext
<1>4. ASSUME NEW a \in DOMAIN attempts
      PROVE  /\ older[a].step = attempts[a].step
             /\ older[a].header = attempts[a].header /\ older[a].set = attempts[a].set
             /\ older[a].alone = (attempts[a].alone /\ Over(a))
             /\ older[a].ptr = attempts[a].ptr /\ older[a].sent = attempts[a].sent
             /\ older[a].pos = attempts[a].pos /\ older[a].got = attempts[a].got
  <2>1. attempts[a] \in AttemptType
    BY DEF TypeOK
  <2>2. \A v : LET t == [attempts[a] EXCEPT !.alone = v]
               IN /\ t.step = attempts[a].step /\ t.alone = v
                  /\ t.header = attempts[a].header /\ t.set = attempts[a].set
                  /\ t.ptr = attempts[a].ptr /\ t.sent = attempts[a].sent
                  /\ t.pos = attempts[a].pos /\ t.got = attempts[a].got
    BY <2>1 DEF AttemptType
  <2>3. older[a] = [attempts[a] EXCEPT !.alone = attempts[a].alone /\ Over(a)]
    OBVIOUS
  <2> HIDE DEF older
  <2> QED BY <2>2, <2>3
<1> HIDE DEF older, new
<1>5. /\ Len(attempts') = Len(attempts) + 1 /\ DOMAIN attempts' = 1 .. Len(attempts) + 1
      /\ \A a \in 1 .. Len(attempts) : attempts'[a] = older[a]
      /\ attempts'[Len(attempts) + 1] = new
  BY <1>1, <1>2, <1>3
<1> QED BY <1>1, <1>4, <1>5 DEF new

\* What a step of an attempt does to the others and to the caller: nothing.
LEMMA AttemptEffect ==
    ASSUME TypeOK, NEW a, Attempt(a)
    PROVE  /\ a \in DOMAIN attempts /\ ~Over(a)
           /\ DOMAIN attempts' = DOMAIN attempts /\ Len(attempts') = Len(attempts)
           /\ (\A b \in DOMAIN attempts : b # a => attempts'[b] = attempts[b])
           /\ attempts'[a].header = attempts[a].header /\ attempts'[a].set = attempts[a].set
           /\ attempts'[a].alone = attempts[a].alone
           /\ UNCHANGED <<kind, header, own, other, changed, phase, client>>
<1> DEFINE Sets(r) == /\ attempts' = [attempts EXCEPT ![a] = r] /\ r \in AttemptType
                      /\ r.header = attempts[a].header /\ r.set = attempts[a].set
                      /\ r.alone = attempts[a].alone
<1>1. /\ a \in DOMAIN attempts /\ ~Over(a)
      /\ UNCHANGED <<kind, header, own, other, changed, phase, client>>
  BY DEF Attempt, CopyRequest, AssignRequest, AssignHeader, Do, SendHead, ReadPart, MoveIndex,
         Answered, Failed, Step, request, Over
<1>2. attempts[a] \in AttemptType /\ attempts \in Seq(AttemptType)
  BY <1>1 DEF TypeOK
<1>3. \E r : Sets(r)
  <2>1. CASE \E from, to \in Steps : Step(a, from, to)
    <3>1. PICK from, to \in Steps : Step(a, from, to)
      BY <2>1
    <3>2. Sets([attempts[a] EXCEPT !.step = to])
      BY <1>2, <3>1 DEF Step, AttemptType
    <3> QED BY <3>2
  <2>2. CASE Do(a)
    <3>1. Sets([attempts[a] EXCEPT !.step = "doing", !.ptr = httpReq])
      BY <1>2, <2>2 DEF Do, AttemptType, Steps, TypeOK
    <3> QED BY <3>1
  <2>3. CASE SendHead(a)
    <3>1. Sets([attempts[a] EXCEPT !.step = "sending", !.sent = reqs[attempts[a].ptr]])
      BY <1>2, <2>3 DEF SendHead, AttemptType, Steps, TypeOK
    <3> QED BY <3>1
  <2>4. CASE ReadPart(a)
    <3>1. Append(attempts[a].got, read + 1) \in Seq(1 .. BodyUnits)
      <4>1. attempts[a].got \in Seq(1 .. BodyUnits)
        BY <1>2 DEF AttemptType
      <4>2. read + 1 \in 1 .. BodyUnits
        BY <2>4, WholeType, BoundsAssumption, SMTT(30) DEF ReadPart, TypeOK
      <4> QED BY <4>1, <4>2, Appended
    <3>2. Sets([attempts[a] EXCEPT !.step = "reading", !.pos = read, !.got = Append(@, read + 1)])
      BY <1>2, <2>4, <3>1 DEF ReadPart, AttemptType, Steps, TypeOK
    <3> QED BY <3>2
  <2> QED BY <2>1, <2>2, <2>3, <2>4
        DEF Attempt, CopyRequest, AssignRequest, AssignHeader, MoveIndex, Answered, Failed, Steps
<1>4. PICK r : Sets(r)
  BY <1>3
<1>5. DOMAIN attempts' = DOMAIN attempts /\ Len(attempts') = Len(attempts)
  BY <1>1, <1>2, <1>4, Updated
<1>6. attempts'[a] = r /\ \A b \in DOMAIN attempts : b # a => attempts'[b] = attempts[b]
  BY <1>1, <1>4
<1> QED BY <1>1, <1>4, <1>5, <1>6

\* What is there already stays when the client's headers are composed.
LEMMA ComposedKeeps ==
    ASSUME NEW c, NEW k \in Keys, header[k] = {"caller"}
    PROVE  Composed(header, c)[k] = {"caller"}
    BY DEF Composed, Fill

\* What the other runtimes make of the caller's headers.
LEMMA OnceHeaders ==
    ASSUME NEW c, NEW k \in own, own \subseteq Keys, other \subseteq own, header[k] = {"caller"}
    PROVE  /\ StreamHeaders(c)[k] = {"caller"} \/ k \in c.statics \cup ClientSets(c)
           /\ k \in other => "caller" \in PyHeaders(c)[k]
           /\ k \notin other => PyHeaders(c)[k] = {"caller"} \/ k \in ClientSets(c)
           /\ TsHeaders(c)[k] = {"caller"} \/ k \in ClientSets(c)
<1>1. k \in Keys
  OBVIOUS
<1>2. StreamHeaders(c)[k] = {"caller"} \/ k \in c.statics \cup ClientSets(c)
  BY <1>1 DEF StreamHeaders, Fill, Static, Defaults
<1>3. TsHeaders(c)[k] = {"caller"} \/ k \in ClientSets(c)
  BY <1>1 DEF TsHeaders, Fill, Static, Defaults
<1>4. k \in other => "caller" \in PyHeaders(c)[k]
  BY <1>1 DEF PyHeaders
<1>5. k \notin other => PyHeaders(c)[k] = {"caller"} \/ k \in ClientSets(c)
  BY <1>1 DEF PyHeaders
<1> QED BY <1>2, <1>3, <1>4, <1>5

LEMMA HeadersStep == TypeOK /\ Headers /\ [Next]_vars => Headers'
<1> SUFFICES ASSUME TypeOK, Headers, [Next]_vars PROVE Headers'
  OBVIOUS
<1>0. own \subseteq Keys /\ other \subseteq own
  BY DEF TypeOK
<1>1. CASE UNCHANGED vars
  BY <1>1 DEF vars, Headers, Calls, OwnHeaders, CallerHeadersWin, AllOver, Over
<1>u. ASSUME OwnHeaders', kind' = "unary" PROVE CallerHeadersWin'
  BY <1>u DEF OwnHeaders, CallerHeadersWin
<1>2. ASSUME NEW k \in Keys, CallerSets(k) PROVE Headers'
  <2>1. attempts' = <<>> /\ DOMAIN attempts' = {} /\ Len(attempts') = 0
    BY <1>2, EmptySeq DEF CallerSets
  <2>2. Calls'
    BY <1>2, <2>1 DEF CallerSets, Headers, Calls, AllOver
  <2>3. OwnHeaders'
    BY <1>2, <2>1 DEF CallerSets, Headers, OwnHeaders, TypeOK
  <2> QED BY <2>1, <2>2, <2>3 DEF Headers, CallerHeadersWin
<1>3. ASSUME NEW c \in Clients, CallRequest(c) PROVE Headers'
  <2>1. kind = "unary" /\ attempts = <<>> /\ DOMAIN attempts = {}
        /\ UNCHANGED <<kind, own, changed, attempts>>
        /\ header' \in {header, Composed(header, c)}
    BY <1>3, EmptySeq DEF CallRequest, Headers, Calls
  <2>2. OwnHeaders'
    BY <1>0, <2>1, ComposedKeeps DEF Headers, OwnHeaders
  <2>3. Calls'
    BY <1>3, <2>1 DEF CallRequest, Calls
  <2> QED BY <1>u, <2>1, <2>2, <2>3 DEF Headers
<1>4. ASSUME NEW c \in Clients, SendOnce(c) PROVE Headers'
  <2> DEFINE h == IF kind = "stream" THEN StreamHeaders(c)
                  ELSE IF kind = "py" THEN PyHeaders(c) ELSE TsHeaders(c)
             t == [step |-> "answered", header |-> h, set |-> {}, alone |-> TRUE, ptr |-> 0,
                   sent |-> [ctx |-> 1, header |-> h], pos |-> 0, got |-> Whole(c)]
  <2>1. attempts' = <<t>> /\ client' = c /\ kind \in Kinds \ {"unary"} /\ phase = "idle"
        /\ UNCHANGED <<kind, header, own, other, changed, phase>>
    BY <1>4 DEF SendOnce, TypeOK
  <2>2. Len(attempts') = 1 /\ DOMAIN attempts' = {1} /\ attempts'[1] = t
    BY <2>1
  <2>3. attempts'[1].header = h /\ attempts'[1].set = {}
    BY <2>2
  <2>4. Calls' /\ changed = {}
    BY <2>1, <2>2 DEF Headers, Calls, AllOver, Over
  <2>5. OwnHeaders'
    BY <2>1 DEF Headers, OwnHeaders
  <2>6. CallerHeadersWin'
    <3> SUFFICES ASSUME NEW k \in own
                 PROVE IF kind = "py" /\ k \in other THEN "caller" \in h[k]
                       ELSE \/ h[k] = {"caller"}
                            \/ kind = "stream" /\ k \in c.statics \cup ClientSets(c)
                            \/ kind \in {"py", "ts"} /\ k \in ClientSets(c)
      BY <2>1, <2>2, <2>3 DEF CallerHeadersWin
    <3>1. header[k] = {"caller"}
      BY <2>4 DEF Headers, OwnHeaders
    <3> QED BY <1>0, <2>1, <3>1, OnceHeaders DEF Kinds
  <2> QED BY <2>4, <2>5, <2>6 DEF Headers
<1>5. ASSUME NEW ks \in SUBSET Keys, NEW inPlace \in BOOLEAN, CallNext(ks, inPlace) PROVE Headers'
  <2>1. kind = "unary" /\ phase = "calling" /\ UNCHANGED <<kind, own, phase>>
        /\ changed' \in {changed, changed \cup ks}
    BY <1>5 DEF CallNext, Headers, Calls
  <2>2. Len(attempts) \in Nat /\ DOMAIN attempts' = 1 .. Len(attempts) + 1
    BY <1>5, CallNextEffect
  <2>3. /\ attempts'[Len(attempts) + 1].header =
              [j \in Keys |-> IF j \in ks THEN {"interceptor"} ELSE header[j]]
        /\ attempts'[Len(attempts) + 1].set = changed \cup ks
    <3>1. attempts'[Len(attempts) + 1] =
             [step |-> "called",
              header |-> [j \in Keys |-> IF j \in ks THEN {"interceptor"} ELSE header[j]],
              set |-> changed \cup ks, alone |-> AllOver,
              ptr |-> 0, sent |-> NotSent, pos |-> 0, got |-> <<>>]
      BY <1>5, CallNextEffect
    <3> QED BY <3>1
  <2>4. OwnHeaders'
    <3> SUFFICES ASSUME NEW k \in own
                 PROVE /\ k \notin changed' => header'[k] = {"caller"}
                       /\ \A a \in DOMAIN attempts' :
                             k \notin attempts'[a].set => attempts'[a].header[k] = {"caller"}
      BY <2>1 DEF OwnHeaders
    <3>1. k \notin changed' => header'[k] = {"caller"}
      BY <1>0, <1>5 DEF CallNext, Headers, OwnHeaders
    <3>2. ASSUME NEW a \in DOMAIN attempts', k \notin attempts'[a].set
          PROVE attempts'[a].header[k] = {"caller"}
      <4>1. CASE a \in 1 .. Len(attempts)
        <5>1. attempts'[a].header = attempts[a].header /\ attempts'[a].set = attempts[a].set
          BY <1>5, <4>1, CallNextEffect
        <5> QED BY <1>5, <2>1, <3>2, <4>1, <5>1, CallNextEffect DEF Headers, OwnHeaders
      <4>2. CASE a = Len(attempts) + 1
        <5>1. /\ attempts'[a].header = [j \in Keys |-> IF j \in ks THEN {"interceptor"} ELSE header[j]]
              /\ attempts'[a].set = changed \cup ks
          BY <4>2, <2>3
        <5> QED BY <1>0, <3>2, <5>1 DEF Headers, OwnHeaders
      <4> QED BY <2>2, <4>1, <4>2
    <3> QED BY <3>1, <3>2
  <2>5. Calls'
    BY <1>5, <2>1 DEF CallNext, Calls
  <2> QED BY <1>u, <2>1, <2>4, <2>5 DEF Headers
<1>6. CASE Return
  <2>1. attempts' = <<>> /\ DOMAIN attempts' = {} /\ kind = "unary"
        /\ UNCHANGED <<kind, header, own, changed>>
    BY <1>6, EmptySeq DEF Return, request, Headers, Calls
  <2>2. OwnHeaders'
    BY <2>1 DEF Headers, OwnHeaders
  <2> QED BY <1>u, <2>1, <2>2 DEF Headers, Calls
<1>7. ASSUME NEW a \in 1 .. MaxTries, Attempt(a) PROVE Headers'
  <2>1. /\ DOMAIN attempts' = DOMAIN attempts /\ Len(attempts') = Len(attempts)
        /\ \A b \in DOMAIN attempts : attempts'[b].header = attempts[b].header
                                      /\ attempts'[b].set = attempts[b].set
        /\ attempts # <<>> /\ kind = "unary"
        /\ UNCHANGED <<kind, header, own, other, changed, phase, client>>
    BY <1>7, AttemptEffect, EmptySeq DEF Headers, Calls, AllOver
  <2>2. OwnHeaders'
    BY <2>1 DEF Headers, OwnHeaders
  <2>3. CallerHeadersWin'
    BY <2>1 DEF Headers, CallerHeadersWin
  <2>4. Calls'
    BY <2>1 DEF Headers, Calls
  <2> QED BY <2>2, <2>3, <2>4 DEF Headers
<1>8. InterceptorKeys \subseteq Keys
  BY ClientsAssumption
<1> QED BY <1>1, <1>2, <1>3, <1>4, <1>5, <1>6, <1>7, <1>8 DEF Next

LEMMA InitHeaders == Init => Headers
<1> SUFFICES ASSUME Init PROVE Headers
  OBVIOUS
<1>1. attempts = <<>> /\ own = {} /\ changed = {} /\ phase = "idle"
  BY DEF Init
<1>2. DOMAIN attempts = {} /\ Len(attempts) = 0
  BY <1>1, EmptySeq
<1> QED BY <1>1, <1>2 DEF Headers, Calls, OwnHeaders, CallerHeadersWin, AllOver

\* The caller's headers win in every call (CallerHeadersWin), however many
\* clients, calls, attempts and interceptors there are.
THEOREM CallersHeadersReachTheWire == Spec => []CallerHeadersWin
<1>1. Headers => CallerHeadersWin
  BY DEF Headers
<1> QED BY <1>1, TypesHold, InitHeaders, HeadersStep, PTL DEF Spec

-----------------------------------------------------------------------------
\* What one step of an attempt does, action by action.
Same(t, u) == u.ptr = t.ptr /\ u.sent = t.sent /\ u.pos = t.pos /\ u.got = t.got

Moves(a, from, to) == attempts[a].step = from /\ attempts'[a].step = to

LEMMA StepFields ==
    ASSUME TypeOK, NEW a, NEW from, NEW to, Step(a, from, to)
    PROVE  Moves(a, from, to) /\ Same(attempts[a], attempts'[a])
<1>1. attempts[a] \in AttemptType /\ a \in DOMAIN attempts
  BY DEF Step, TypeOK
<1>2. attempts'[a] = [attempts[a] EXCEPT !.step = to]
  BY <1>1 DEF Step
<1> QED BY <1>1, <1>2 DEF Step, Moves, Same, AttemptType

LEMMA AttemptFields ==
    ASSUME TypeOK, NEW a, Attempt(a)
    PROVE  LET t == attempts[a]
               u == attempts'[a]
           IN \/ /\ Moves(a, "called", "copied") /\ Same(t, u) /\ UNCHANGED <<httpReq, read>>
                 /\ reqs' = [reqs EXCEPT ![a] = [ctx |-> a, header |-> reqs[httpReq].header]]
              \/ /\ Moves(a, "copied", "assigned") /\ Same(t, u) /\ UNCHANGED <<reqs, read>>
                 /\ httpReq' = a
              \/ /\ Moves(a, "assigned", "headed") /\ Same(t, u) /\ UNCHANGED <<httpReq, read>>
                 /\ reqs' = [reqs EXCEPT ![httpReq].header = t.header]
              \/ /\ Moves(a, "headed", "doing") /\ UNCHANGED <<reqs, httpReq, read>>
                 /\ u.ptr = httpReq /\ u.sent = t.sent /\ u.pos = t.pos /\ u.got = t.got
              \/ /\ Moves(a, "doing", "sending") /\ UNCHANGED <<reqs, httpReq, read>>
                 /\ u.sent = reqs[t.ptr] /\ u.ptr = t.ptr /\ u.pos = t.pos /\ u.got = t.got
              \/ /\ Moves(a, "sending", "reading") /\ UNCHANGED <<reqs, httpReq, read>>
                 /\ Len(t.got) < Len(Whole(client))
                 /\ u.got = Append(t.got, read + 1) /\ u.pos = read /\ u.ptr = t.ptr /\ u.sent = t.sent
              \/ /\ Moves(a, "reading", "sending") /\ Same(t, u) /\ UNCHANGED <<reqs, httpReq>>
                 /\ read' \in {t.pos + 1, read + 1}
              \/ /\ Moves(a, "sending", "answered") /\ Same(t, u) /\ UNCHANGED <<reqs, httpReq, read>>
                 /\ read >= Len(Whole(client)) \/ Len(t.got) = Len(Whole(client))
              \/ /\ t.step \in {"doing", "sending"} /\ u.step = "failed" /\ Same(t, u)
                 /\ UNCHANGED <<reqs, httpReq, read>>
<1>1. attempts[a] \in AttemptType /\ a \in DOMAIN attempts
  BY AttemptEffect DEF TypeOK
<1>2. CASE CopyRequest(a)
  BY <1>2, StepFields DEF CopyRequest
<1>3. CASE AssignRequest(a)
  BY <1>3, StepFields DEF AssignRequest
<1>4. CASE AssignHeader(a)
  BY <1>4, StepFields DEF AssignHeader
<1>5. CASE Do(a)
  <2>1. attempts'[a] = [attempts[a] EXCEPT !.step = "doing", !.ptr = httpReq]
    BY <1>1, <1>5 DEF Do
  <2> QED BY <1>1, <1>5, <2>1 DEF Do, Moves, AttemptType
<1>6. CASE SendHead(a)
  <2>1. attempts'[a] = [attempts[a] EXCEPT !.step = "sending", !.sent = reqs[attempts[a].ptr]]
    BY <1>1, <1>6 DEF SendHead
  <2> QED BY <1>1, <1>6, <2>1 DEF SendHead, Moves, AttemptType
<1>7. CASE ReadPart(a)
  <2>1. attempts'[a] = [attempts[a] EXCEPT !.step = "reading", !.pos = read, !.got = Append(@, read + 1)]
    BY <1>1, <1>7 DEF ReadPart
  <2> QED BY <1>1, <1>7, <2>1 DEF ReadPart, Moves, AttemptType
<1>8. CASE MoveIndex(a)
  BY <1>8, StepFields DEF MoveIndex
<1>9. CASE Answered(a)
  BY <1>9, StepFields DEF Answered
<1>10. CASE Failed(a)
  <2>1. PICK from \in {"doing", "sending"} : Step(a, from, "failed")
    BY <1>10 DEF Failed
  <2>2. Moves(a, from, "failed") /\ Same(attempts[a], attempts'[a])
    BY <2>1, StepFields
  <2> QED BY <1>10, <2>2 DEF Failed, Moves
<1> QED BY <1>2, <1>3, <1>4, <1>5, <1>6, <1>7, <1>8, <1>9, <1>10 DEF Attempt

\* While an attempt takes a step, whoever is alone and is not it is over; and
\* nobody after it is alone.
LEMMA StepOfOne ==
    ASSUME TypeOK, Alone, NEW a, Attempt(a), NEW b \in DOMAIN attempts, b # a, attempts[b].alone
    PROVE  Over(b) /\ ~(a < b)
    BY AttemptEffect DEF Alone

LEMMA AloneStep == TypeOK /\ Calls /\ Alone /\ [Next]_vars => Alone'
<1> SUFFICES ASSUME TypeOK, Calls, Alone, [Next]_vars PROVE Alone'
  OBVIOUS
<1>1. CASE UNCHANGED attempts
  BY <1>1 DEF Alone, Over
<1>2. CASE attempts' = <<>>
  BY <1>2, EmptySeq DEF Alone
<1>3. ASSUME NEW c \in Clients, SendOnce(c) PROVE Alone'
  <2>1. DOMAIN attempts' = {1}
    BY <1>3 DEF SendOnce
  <2> QED BY <2>1 DEF Alone
<1>4. ASSUME NEW ks, NEW inPlace, CallNext(ks, inPlace) PROVE Alone'
  <2>1. /\ Len(attempts) \in Nat /\ DOMAIN attempts = 1 .. Len(attempts)
        /\ DOMAIN attempts' = 1 .. Len(attempts) + 1
        /\ \A a \in DOMAIN attempts : /\ attempts'[a].step = attempts[a].step
                                      /\ attempts'[a].alone = (attempts[a].alone /\ Over(a))
    BY <1>4, CallNextEffect
  <2>2. attempts'[Len(attempts) + 1].alone = AllOver
    <3>1. attempts'[Len(attempts) + 1] =
             [step |-> "called",
              header |-> [k \in Keys |-> IF k \in ks THEN {"interceptor"} ELSE header[k]],
              set |-> changed \cup ks, alone |-> AllOver,
              ptr |-> 0, sent |-> NotSent, pos |-> 0, got |-> <<>>]
      BY <1>4, CallNextEffect
    <3> QED BY <3>1
  <2> SUFFICES ASSUME NEW a \in DOMAIN attempts', NEW b \in DOMAIN attempts', attempts'[a].alone, a # b
               PROVE  (b < a => Over(b)') /\ (~Over(a)' => Over(b)')
    BY DEF Alone
  <2>3. CASE a \in DOMAIN attempts
    <3>1. attempts[a].alone /\ Over(a) /\ Over(a)'
      BY <2>1, <2>3 DEF Over
    <3>2. b < a => b \in DOMAIN attempts
      BY <2>1, <2>3
    <3>3. b < a => Over(b)
      BY <2>3, <3>1, <3>2 DEF Alone
    <3> QED BY <2>1, <3>1, <3>2, <3>3 DEF Over
  <2>4. CASE a = Len(attempts) + 1
    <3>1. b \in DOMAIN attempts
      BY <2>1, <2>4
    <3>2. AllOver
      BY <2>2, <2>4
    <3> QED BY <2>1, <3>1, <3>2 DEF AllOver, Over
  <2> QED BY <2>1, <2>3, <2>4
<1>5. ASSUME NEW x \in 1 .. MaxTries, Attempt(x) PROVE Alone'
  <2>1. /\ x \in DOMAIN attempts /\ ~Over(x) /\ DOMAIN attempts' = DOMAIN attempts
        /\ \A b \in DOMAIN attempts : attempts'[b].alone = attempts[b].alone
        /\ \A b \in DOMAIN attempts : b # x => (Over(b)' <=> Over(b))
    BY <1>5, AttemptEffect DEF Over
  <2> SUFFICES ASSUME NEW a \in DOMAIN attempts, NEW b \in DOMAIN attempts, attempts[a].alone, a # b
               PROVE  (b < a => Over(b)') /\ (~Over(a)' => Over(b)')
    BY <2>1 DEF Alone
  <2> QED BY <2>1 DEF Alone
<1> QED BY <1>1, <1>2, <1>3, <1>4, <1>5 DEF Next, CallerSets, CallRequest, Return, vars

LEMMA RequestsStep == TypeOK /\ Calls /\ Alone /\ Requests /\ [Next]_vars => Requests'
<1> SUFFICES ASSUME TypeOK, Calls, Alone, Requests, [Next]_vars PROVE Requests'
  OBVIOUS
<1> USE BoundsAssumption
<1>0. /\ Len(attempts) \in Nat /\ DOMAIN attempts = 1 .. Len(attempts)
      /\ Len(attempts) <= MaxTries /\ reqs \in [0 .. MaxTries -> Heads] /\ httpReq \in 0 .. MaxTries
  BY DEF TypeOK
<1>1. CASE UNCHANGED <<kind, attempts, reqs, httpReq>>
  BY <1>1 DEF Requests, Carries
<1>2. ASSUME NEW k \in Keys, CallerSets(k) PROVE Requests'
  <2>1. attempts' = <<>> /\ UNCHANGED <<kind, reqs, httpReq>> /\ phase = "idle"
    BY <1>2 DEF CallerSets
  <2>2. CASE kind = "unary"
    <3>1. UNCHANGED attempts
      BY <2>1, <2>2 DEF Calls
    <3> QED BY <1>1, <2>1, <3>1
  <2>3. CASE kind # "unary"
    BY <2>1, <2>3 DEF Requests
  <2> QED BY <2>2, <2>3
<1>3. ASSUME NEW c \in Clients, SendOnce(c) PROVE Requests'
  BY <1>3 DEF SendOnce, Requests
<1>4. ASSUME NEW ks, NEW inPlace, CallNext(ks, inPlace) PROVE Requests'
  <2>1. /\ DOMAIN attempts' = 1 .. Len(attempts) + 1 /\ Len(attempts') = Len(attempts) + 1
        /\ \A a \in DOMAIN attempts :
              /\ attempts'[a].step = attempts[a].step /\ attempts'[a].header = attempts[a].header
              /\ attempts'[a].alone = (attempts[a].alone /\ Over(a))
              /\ attempts'[a].ptr = attempts[a].ptr
    BY <1>4, CallNextEffect
  <2>2. attempts'[Len(attempts) + 1].step = "called"
    <3>1. attempts'[Len(attempts) + 1] =
             [step |-> "called",
              header |-> [k \in Keys |-> IF k \in ks THEN {"interceptor"} ELSE header[k]],
              set |-> changed \cup ks, alone |-> AllOver,
              ptr |-> 0, sent |-> NotSent, pos |-> 0, got |-> <<>>]
      BY <1>4, CallNextEffect
    <3> QED BY <3>1
  <2>3. UNCHANGED <<kind, reqs, httpReq>> /\ kind = "unary"
    BY <1>4 DEF CallNext, Calls
  <2>4. DOMAIN attempts \subseteq DOMAIN attempts'
    BY <1>0, <2>1
  <2>5. \A i \in 0 .. MaxTries :
           reqs[i].header = None \/ \E b \in DOMAIN attempts' : reqs[i].header = attempts'[b].header
    BY <2>1, <2>4 DEF Requests
  <2>6. httpReq \in 0 .. Len(attempts) + 1 /\ (httpReq # 0 => reqs[httpReq].ctx = httpReq)
    BY <1>0, <2>3 DEF Requests
  <2>7. ASSUME NEW a \in DOMAIN attempts' PROVE Carries(a)'
    <3>1. CASE a \in DOMAIN attempts
      <4>1. Carries(a)
        BY <2>3, <3>1 DEF Requests
      <4> QED BY <2>1, <2>3, <2>4, <3>1, <4>1 DEF Carries
    <3>2. CASE a = Len(attempts) + 1
      BY <2>2, <3>2 DEF Carries
    <3> QED BY <1>0, <2>1, <3>1, <3>2
  <2> QED BY <2>1, <2>3, <2>5, <2>6, <2>7 DEF Requests
<1>5. CASE Return
  <2>1. /\ attempts' = <<>> /\ DOMAIN attempts' = {} /\ httpReq' = 0
        /\ reqs' = [i \in 0 .. MaxTries |-> NotSent] /\ Len(attempts') = 0
    BY <1>5, EmptySeq DEF Return
  <2>2. \A i \in 0 .. MaxTries : reqs'[i].header = None
    BY <2>1 DEF NotSent
  <2> QED BY <2>1, <2>2 DEF Requests
<1>6. ASSUME NEW x \in 1 .. MaxTries, Attempt(x) PROVE Requests'
  <2>1. /\ x \in DOMAIN attempts /\ ~Over(x)
        /\ DOMAIN attempts' = DOMAIN attempts /\ Len(attempts') = Len(attempts)
        /\ \A b \in DOMAIN attempts : b # x => attempts'[b] = attempts[b]
        /\ attempts'[x].header = attempts[x].header
        /\ attempts'[x].alone = attempts[x].alone /\ kind' = kind
    BY <1>6, AttemptEffect
  <2>2. kind = "unary"
    BY <2>1 DEF Calls, AllOver
  <2>3. Carries(x) /\ httpReq \in 0 .. Len(attempts) /\ (httpReq # 0 => reqs[httpReq].ctx = httpReq)
    BY <2>1, <2>2 DEF Requests
  <2>4. \A i \in 0 .. MaxTries : reqs[i] \in Heads
    BY <1>0
  <2>5. \A i \in 0 .. MaxTries :
           /\ reqs'[i].ctx = reqs[i].ctx \/ (i = x /\ reqs'[i].ctx = x)
           /\ \/ \E j \in 0 .. MaxTries : reqs'[i].header = reqs[j].header
              \/ reqs'[i].header = attempts[x].header
    <3>1. CASE UNCHANGED reqs
      BY <3>1
    <3>2. CASE reqs' = [reqs EXCEPT ![x] = [ctx |-> x, header |-> reqs[httpReq].header]]
      BY <1>0, <3>2
    <3>3. CASE reqs' = [reqs EXCEPT ![httpReq].header = attempts[x].header]
      <4>1. \A i \in 0 .. MaxTries : i # httpReq => reqs'[i] = reqs[i]
        BY <1>0, <3>3
      <4>2. reqs'[httpReq] = [reqs[httpReq] EXCEPT !.header = attempts[x].header]
        BY <1>0, <3>3
      <4>3. reqs'[httpReq].ctx = reqs[httpReq].ctx /\ reqs'[httpReq].header = attempts[x].header
        BY <1>0, <2>4, <4>2 DEF Heads
      <4> QED BY <4>1, <4>3
    <3> QED BY <1>6, <3>1, <3>2, <3>3, AttemptFields
  <2>6. \A i \in 0 .. MaxTries :
           reqs'[i].header = None \/ \E b \in DOMAIN attempts' : reqs'[i].header = attempts'[b].header
    <3>1. \A b \in DOMAIN attempts : attempts'[b].header = attempts[b].header
      BY <2>1
    <3>2. \A j \in 0 .. MaxTries :
             reqs[j].header = None \/ \E b \in DOMAIN attempts' : reqs[j].header = attempts'[b].header
      BY <2>1, <3>1 DEF Requests
    <3> QED BY <2>1, <2>5, <3>1, <3>2
  <2>7. httpReq' \in 0 .. Len(attempts) /\ (httpReq' # 0 => reqs'[httpReq'].ctx = httpReq')
    <3>1. httpReq' = httpReq \/ (httpReq' = x /\ Moves(x, "copied", "assigned"))
      BY <1>6, AttemptFields
    <3>2. Moves(x, "copied", "assigned") => reqs[x].ctx = x
      BY <2>3 DEF Carries, Moves
    <3> QED BY <1>0, <2>1, <2>3, <2>5, <3>1, <3>2
  <2>8. ASSUME NEW b \in DOMAIN attempts, b # x PROVE Carries(b)'
    <3>1. Carries(b) /\ attempts'[b] = attempts[b]
      BY <2>1, <2>2, <2>8 DEF Requests
    <3>2. attempts[b].alone => attempts[b].step \in {"answered", "failed"}
      BY <1>6, <2>8, StepOfOne DEF Over
    <3>3. httpReq # 0 => httpReq' # 0
      BY <1>6, <2>1, AttemptFields
    <3> QED BY <1>0, <2>1, <2>5, <3>1, <3>2, <3>3 DEF Carries
  <2>9. Carries(x)'
    <3>1. CASE Moves(x, "called", "copied")
      <4>1. reqs' = [reqs EXCEPT ![x] = [ctx |-> x, header |-> reqs[httpReq].header]]
        BY <1>6, <3>1, AttemptFields DEF Moves
      <4> QED BY <1>0, <2>1, <3>1, <4>1 DEF Carries, Moves
    <3>2. CASE Moves(x, "copied", "assigned")
      BY <1>0, <1>6, <2>1, <2>3, <3>2, AttemptFields DEF Carries, Moves
    <3>3. CASE Moves(x, "assigned", "headed")
      <4>1. reqs' = [reqs EXCEPT ![httpReq].header = attempts[x].header] /\ httpReq' = httpReq
        BY <1>6, <3>3, AttemptFields DEF Moves
      <4>2. reqs'[httpReq].header = attempts[x].header /\ reqs'[x].ctx = x
        <5>1. reqs[httpReq] \in Heads /\ httpReq \in DOMAIN reqs
          BY <1>0, <2>4
        <5>2. reqs[x].ctx = x
          BY <2>3, <3>3 DEF Carries, Moves
        <5> QED BY <1>0, <2>1, <2>5, <4>1, <5>1, <5>2 DEF Heads
      <4> QED BY <2>1, <2>3, <3>3, <4>1, <4>2 DEF Carries, Moves
    <3>4. CASE Moves(x, "headed", "doing")
      BY <1>0, <1>6, <2>1, <2>3, <3>4, AttemptFields DEF Carries, Moves
    <3>5. CASE attempts'[x].step \notin {"copied", "assigned", "headed", "doing"}
      BY <1>6, <2>3, <3>5, AttemptFields DEF Carries, Moves
    <3> QED BY <1>6, <3>1, <3>2, <3>3, <3>4, <3>5, AttemptFields DEF Moves
  <2> QED BY <2>1, <2>2, <2>6, <2>7, <2>8, <2>9 DEF Requests
<1> QED BY <1>1, <1>2, <1>3, <1>4, <1>5, <1>6 DEF Next, CallRequest, vars

LEMMA ReadingStep == TypeOK /\ Calls /\ Alone /\ Reading /\ [Next]_vars => Reading'
<1> SUFFICES ASSUME TypeOK, Calls, Alone, Reading, [Next]_vars PROVE Reading'
  OBVIOUS
<1>0. /\ Len(attempts) \in Nat /\ DOMAIN attempts = 1 .. Len(attempts) /\ read \in Nat
      /\ client \in Clients /\ \A a \in DOMAIN attempts : attempts[a] \in AttemptType
  BY DEF TypeOK
<1>1. CASE UNCHANGED <<kind, attempts, client, read>>
  BY <1>1 DEF Reading, ReadsOn, First, Over
<1>2. ASSUME NEW k \in Keys, CallerSets(k) PROVE Reading'
  <2>1. attempts' = <<>> /\ UNCHANGED <<kind, client, read>> /\ phase = "idle"
    BY <1>2 DEF CallerSets
  <2>2. CASE kind = "unary"
    <3>1. UNCHANGED attempts
      BY <2>1, <2>2 DEF Calls
    <3> QED BY <1>1, <2>1, <3>1
  <2>3. CASE kind # "unary"
    BY <2>1, <2>3, EmptySeq DEF Reading
  <2> QED BY <2>2, <2>3
<1>3. ASSUME NEW c \in Clients, CallRequest(c) PROVE Reading'
  <2>1. attempts = <<>> /\ UNCHANGED <<kind, attempts, read>> /\ kind = "unary"
    BY <1>3 DEF CallRequest, Calls
  <2> QED BY <2>1, EmptySeq DEF Reading
<1>4. ASSUME NEW c \in Clients, SendOnce(c) PROVE Reading'
  <2>1. DOMAIN attempts' = {1} /\ attempts'[1].got = Whole(c) /\ client' = c /\ kind' # "unary"
    BY <1>4 DEF SendOnce
  <2>2. Len(attempts'[1].got) <= Len(Whole(client))'
    BY <2>1, WholeType DEF Whole
  <2> QED BY <2>1, <2>2 DEF Reading
<1>5. ASSUME NEW ks, NEW inPlace, CallNext(ks, inPlace) PROVE Reading'
  <2>0. PICK n \in Nat : n = Len(attempts)
    BY <1>0
  <2>1. /\ DOMAIN attempts' = 1 .. n + 1
        /\ \A a \in DOMAIN attempts :
              /\ attempts'[a].step = attempts[a].step /\ attempts'[a].got = attempts[a].got
              /\ attempts'[a].alone = (attempts[a].alone /\ Over(a))
              /\ attempts'[a].pos = attempts[a].pos
    BY <1>5, <2>0, CallNextEffect
  <2>2. attempts'[n + 1].step = "called" /\ attempts'[n + 1].got = <<>> /\ attempts'[n + 1].alone = AllOver
    <3>1. attempts'[n + 1] =
             [step |-> "called",
              header |-> [k \in Keys |-> IF k \in ks THEN {"interceptor"} ELSE header[k]],
              set |-> changed \cup ks, alone |-> AllOver,
              ptr |-> 0, sent |-> NotSent, pos |-> 0, got |-> <<>>]
      BY <1>5, <2>0, CallNextEffect
    <3> QED BY <3>1
  <2>3. UNCHANGED <<kind, read, client>> /\ kind = "unary"
    BY <1>5 DEF CallNext, Calls
  <2>4. /\ n \in Nat /\ DOMAIN attempts = 1 .. n
        /\ \A a \in DOMAIN attempts' : a \in DOMAIN attempts \/ a = n + 1
    BY <1>0, <2>0, <2>1
  <2>5. \A a \in DOMAIN attempts' : Len(attempts'[a].got) <= Len(Whole(client))
    BY <1>0, <2>1, <2>2, <2>4, EmptySeq, WholeType DEF Reading
  <2>6. (\A a \in DOMAIN attempts' : attempts'[a].got = <<>>) => read = 0
    BY <2>1, <2>3, <2>4 DEF Reading
  <2>7. ASSUME NEW a \in DOMAIN attempts PROVE ReadsOn(a)'
    <3>1. ReadsOn(a) /\ (First(a)' <=> First(a)) /\ (Over(a)' <=> Over(a))
      BY <2>1, <2>3, <2>4, SMTT(30) DEF Reading, First, Over
    <3> QED BY <2>1, <2>3, <3>1 DEF ReadsOn
  <2>8. ReadsOn(n + 1)'
    <3>1. First(n + 1)' <=> \A b \in DOMAIN attempts : attempts[b].got = <<>>
      BY <2>1, <2>4 DEF First
    <3>2. First(n + 1)' => read = 0
      BY <2>3, <3>1 DEF Reading
    <3>3. AllOver /\ ~First(n + 1)' => read > 0
      BY <2>3, <3>1 DEF Reading, ReadsOn, AllOver, Over
    <3> QED BY <2>2, <2>3, <3>2, <3>3, EmptySeq DEF ReadsOn
  <2> QED BY <2>3, <2>4, <2>5, <2>6, <2>7, <2>8 DEF Reading
<1>6. CASE Return
  BY <1>6, EmptySeq DEF Return, Reading
<1>7. ASSUME NEW x \in 1 .. MaxTries, Attempt(x) PROVE Reading'
  <2>1. /\ x \in DOMAIN attempts /\ ~Over(x) /\ DOMAIN attempts' = DOMAIN attempts
        /\ \A b \in DOMAIN attempts : b # x => attempts'[b] = attempts[b]
        /\ attempts'[x].alone = attempts[x].alone /\ UNCHANGED <<kind, client>>
    BY <1>7, AttemptEffect
  <2>2. kind = "unary"
    BY <2>1 DEF Calls, AllOver
  <2>3. /\ attempts[x].got \in Seq(1 .. BodyUnits) /\ Len(attempts[x].got) \in Nat
        /\ attempts[x].pos \in Nat
    BY <1>0, <2>1 DEF AttemptType
  <2>4. ReadsOn(x)
    BY <2>1, <2>2 DEF Reading
  <2>5. First(x)' <=> First(x)
    BY <1>0, <2>1 DEF First
  <2>6. ASSUME NEW b \in DOMAIN attempts, b # x, attempts[b].alone
        PROVE  Over(b) /\ (First(b)' <=> First(b))
    <3>1. Over(b) /\ ~(x < b)
      BY <1>7, <2>6, StepOfOne
    <3> QED BY <1>0, <2>1, <2>6, <3>1 DEF First
  <2>7. CASE Moves(x, "sending", "reading")
    <3>1. /\ Len(attempts[x].got) < Len(Whole(client)) /\ read' = read
          /\ attempts'[x].got = Append(attempts[x].got, read + 1) /\ attempts'[x].pos = read
      BY <1>7, <2>7, AttemptFields DEF Moves
    <3>2. /\ Len(attempts'[x].got) = Len(attempts[x].got) + 1
          /\ \A i \in 1 .. Len(attempts[x].got) : attempts'[x].got[i] = attempts[x].got[i]
          /\ attempts'[x].got[Len(attempts[x].got) + 1] = read + 1
      BY <2>3, <3>1
    <3>3. attempts'[x].got # <<>> /\ Len(attempts[x].got) \in Nat /\ Len(Whole(client)) \in Nat
      BY <1>0, <2>3, <3>2, EmptySeq, WholeType
    <3>4. attempts[x].got # <<>> => Len(attempts[x].got) > 0
      BY <2>3
    <3>5. ReadsOn(x)'
      <4>1. attempts[x].alone /\ ~First(x) => attempts'[x].got[1] # 1
        <5> SUFFICES ASSUME attempts[x].alone, ~First(x) PROVE attempts'[x].got[1] # 1
          OBVIOUS
        <5>1. (attempts[x].got = <<>> \/ attempts[x].got[1] # 1) /\ read > 0
          BY <2>1, <2>4 DEF ReadsOn
        <5>2. CASE attempts[x].got = <<>>
          BY <1>0, <3>2, <5>1, <5>2, EmptySeq
        <5>3. CASE attempts[x].got # <<>>
          BY <3>2, <3>3, <3>4, <5>1, <5>3
        <5> QED BY <5>2, <5>3
      <4>2. attempts[x].alone /\ First(x) =>
               /\ \A i \in 1 .. Len(attempts'[x].got) : attempts'[x].got[i] = i
               /\ Len(attempts'[x].got) = read + 1
        <5> SUFFICES ASSUME attempts[x].alone, First(x)
                     PROVE  /\ \A i \in 1 .. Len(attempts'[x].got) : attempts'[x].got[i] = i
                            /\ Len(attempts'[x].got) = read + 1
          OBVIOUS
        <5>1. /\ \A i \in 1 .. Len(attempts[x].got) : attempts[x].got[i] = i
              /\ Len(attempts[x].got) = read
          BY <2>1, <2>4, <2>7 DEF ReadsOn, Moves
        <5>2. \A i \in 1 .. read + 1 : i \in 1 .. Len(attempts[x].got) \/ i = Len(attempts[x].got) + 1
          BY <1>0, <5>1
        <5>3. Len(attempts'[x].got) = read + 1
          BY <3>2, <5>1
        <5>4. ASSUME NEW i \in 1 .. read + 1 PROVE attempts'[x].got[i] = i
          <6>1. CASE i \in 1 .. Len(attempts[x].got)
            BY <3>2, <5>1, <6>1
          <6>2. CASE i = Len(attempts[x].got) + 1
            BY <3>2, <5>1, <6>2
          <6> QED BY <5>2, <6>1, <6>2
        <5> QED BY <5>3, <5>4
      <4> QED BY <2>1, <2>4, <2>5, <2>7, <3>1, <3>3, <4>1, <4>2 DEF ReadsOn, Moves
    <3>6. ASSUME NEW b \in DOMAIN attempts, b # x PROVE ReadsOn(b)'
      BY <2>1, <2>2, <2>6, <3>1, <3>6 DEF Reading, ReadsOn, Over
    <3>7. \A a \in DOMAIN attempts' : Len(attempts'[a].got) <= Len(Whole(client))
      BY <2>1, <3>1, <3>2, <3>3 DEF Reading
    <3> QED BY <2>1, <3>3, <3>5, <3>6, <3>7 DEF Reading
  <2>8. CASE ~Moves(x, "sending", "reading")
    <3>1. attempts'[x].got = attempts[x].got
      BY <1>7, <2>8, AttemptFields DEF Same
    <3>2. \/ Moves(x, "reading", "sending") /\ read' \in {attempts[x].pos + 1, read + 1}
          \/ attempts[x].step # "reading" /\ attempts'[x].step # "reading" /\ read' = read
             /\ attempts'[x].pos = attempts[x].pos
      BY <1>7, <2>8, AttemptFields DEF Same, Moves
    <3>3. read > 0 => read' > 0
      BY <1>0, <2>3, <3>2
    <3>4. Moves(x, "reading", "sending") => read' > 0 /\ attempts[x].got # <<>>
      BY <1>0, <2>3, <2>4, <3>2 DEF Moves, ReadsOn
    <3>5. \A a \in DOMAIN attempts : attempts'[a].got = attempts[a].got
      BY <2>1, <3>1
    <3>6. (\A a \in DOMAIN attempts' : attempts'[a].got = <<>>) => read' = 0
      BY <2>1, <2>2, <3>2, <3>4, <3>5 DEF Reading
    <3>7. ReadsOn(x)'
      BY <1>0, <2>1, <2>3, <2>4, <2>5, <3>1, <3>2, <3>3, <3>4 DEF ReadsOn, Moves
    <3>8. ASSUME NEW b \in DOMAIN attempts, b # x PROVE ReadsOn(b)'
      BY <2>1, <2>2, <2>6, <3>3, <3>8 DEF Reading, ReadsOn, Over
    <3>9. \A a \in DOMAIN attempts' : Len(attempts'[a].got) <= Len(Whole(client))
      BY <2>1, <3>5 DEF Reading
    <3> QED BY <2>1, <3>6, <3>7, <3>8, <3>9 DEF Reading
  <2> QED BY <2>7, <2>8
<1> QED BY <1>1, <1>2, <1>3, <1>4, <1>5, <1>6, <1>7 DEF Next, vars

LEMMA OwnStep ==
    TypeOK /\ Calls /\ Alone /\ Requests /\ Reading /\ AttemptsSendTheirOwn /\ [Next]_vars
        => AttemptsSendTheirOwn'
<1> SUFFICES ASSUME TypeOK, Calls, Alone, Requests, Reading, AttemptsSendTheirOwn, [Next]_vars
             PROVE  AttemptsSendTheirOwn'
  OBVIOUS
<1>0. /\ Len(attempts) \in Nat /\ DOMAIN attempts = 1 .. Len(attempts) /\ read \in Nat
      /\ client \in Clients /\ reqs \in [0 .. MaxTries -> Heads]
      /\ \A a \in DOMAIN attempts : attempts[a] \in AttemptType
  BY DEF TypeOK
<1>1. CASE UNCHANGED <<attempts, client>>
  BY <1>1 DEF AttemptsSendTheirOwn, Own, Sent
<1>2. CASE attempts' = <<>>
  BY <1>2, EmptySeq DEF AttemptsSendTheirOwn
<1>3. ASSUME NEW c \in Clients, CallRequest(c) PROVE AttemptsSendTheirOwn'
  <2>1. attempts' = <<>>
    BY <1>3 DEF CallRequest, Calls
  <2> QED BY <1>2, <2>1
<1>4. ASSUME NEW c \in Clients, SendOnce(c) PROVE AttemptsSendTheirOwn'
  <2>1. PICK h : attempts' =
           <<[step |-> "answered", header |-> h, set |-> {}, alone |-> TRUE, ptr |-> 0,
              sent |-> [ctx |-> 1, header |-> h], pos |-> 0, got |-> Whole(c)]>>
    BY <1>4 DEF SendOnce
  <2>2. /\ DOMAIN attempts' = {1} /\ client' = c /\ attempts'[1].header = h
        /\ attempts'[1].sent = [ctx |-> 1, header |-> h] /\ attempts'[1].got = Whole(c)
    BY <1>4, <2>1 DEF SendOnce
  <2>3. \A b \in 1 .. 1 - 1 : FALSE
    OBVIOUS
  <2> QED BY <2>2, <2>3 DEF AttemptsSendTheirOwn, Own
<1>5. ASSUME NEW ks, NEW inPlace, CallNext(ks, inPlace) PROVE AttemptsSendTheirOwn'
  <2>0. PICK n \in Nat : n = Len(attempts)
    BY <1>0
  <2>1. /\ DOMAIN attempts' = 1 .. n + 1
        /\ \A a \in DOMAIN attempts :
              /\ attempts'[a].step = attempts[a].step /\ attempts'[a].got = attempts[a].got
              /\ attempts'[a].alone = (attempts[a].alone /\ Over(a))
              /\ attempts'[a].sent = attempts[a].sent /\ attempts'[a].header = attempts[a].header
    BY <1>5, <2>0, CallNextEffect
  <2>2. attempts'[n + 1].step = "called"
    <3>1. attempts'[n + 1] =
             [step |-> "called",
              header |-> [k \in Keys |-> IF k \in ks THEN {"interceptor"} ELSE header[k]],
              set |-> changed \cup ks, alone |-> AllOver,
              ptr |-> 0, sent |-> NotSent, pos |-> 0, got |-> <<>>]
      BY <1>5, <2>0, CallNextEffect
    <3> QED BY <3>1
  <2>3. client' = client
    BY <1>5 DEF CallNext
  <2>4. DOMAIN attempts \subseteq DOMAIN attempts' /\ DOMAIN attempts = 1 .. n
    BY <1>0, <2>0, <2>1
  <2>5. ASSUME NEW a \in DOMAIN attempts, Sent(a)' PROVE Own(a)'
    <3>1. Own(a)
      BY <2>1, <2>5 DEF AttemptsSendTheirOwn, Sent
    <3>2. \A b \in 1 .. a - 1 : b \in DOMAIN attempts
      BY <2>4
    <3> QED BY <2>1, <2>3, <2>4, <3>1, <3>2 DEF Own
  <2>6. ~Sent(n + 1)'
    BY <2>2 DEF Sent
  <2>7. \A a \in DOMAIN attempts' : a \in DOMAIN attempts \/ a = n + 1
    BY <2>1, <2>4
  <2> QED BY <2>5, <2>6, <2>7 DEF AttemptsSendTheirOwn
<1>6. ASSUME NEW x \in 1 .. MaxTries, Attempt(x) PROVE AttemptsSendTheirOwn'
  <2>1. /\ x \in DOMAIN attempts /\ ~Over(x) /\ DOMAIN attempts' = DOMAIN attempts
        /\ \A b \in DOMAIN attempts : b # x => attempts'[b] = attempts[b]
        /\ attempts'[x].header = attempts[x].header
        /\ attempts'[x].alone = attempts[x].alone /\ UNCHANGED <<kind, client>>
    BY <1>6, AttemptEffect
  <2>2. kind = "unary"
    BY <2>1 DEF Calls, AllOver
  <2>3. \A b \in DOMAIN attempts : attempts'[b].header = attempts[b].header
    BY <2>1
  <2>4. ASSUME NEW b \in DOMAIN attempts, b # x, Sent(b)' PROVE Own(b)'
    <3>1. Own(b) /\ attempts'[b] = attempts[b]
      BY <2>1, <2>4 DEF AttemptsSendTheirOwn, Sent
    <3>2. attempts[b].alone => \A a \in 1 .. b - 1 : a # x
      BY <1>0, <1>6, <2>1, <2>4, StepOfOne
    <3>3. attempts[b].alone => \A a \in 1 .. b - 1 : attempts'[a] = attempts[a]
      BY <1>0, <2>1, <3>2
    <3> QED BY <2>1, <2>3, <3>1, <3>3 DEF Own
  <2>5. ASSUME Sent(x)' PROVE Own(x)'
    <3>1. \A b \in 1 .. x - 1 : attempts'[b] = attempts[b]
      BY <1>0, <2>1
    <3>2. CASE Moves(x, "doing", "sending")
      <4>1. attempts'[x].sent = reqs[attempts[x].ptr]
        BY <1>6, <3>2, AttemptFields DEF Moves
      <4>2. Carries(x) /\ attempts[x].ptr \in 0 .. MaxTries
        BY <1>0, <2>1, <2>2 DEF Requests, AttemptType
      <4>3. reqs[attempts[x].ptr] \in Heads
        BY <1>0, <4>2
      <4>4. attempts'[x].sent.ctx \in DOMAIN attempts
        BY <3>2, <4>1, <4>2 DEF Carries, Moves
      <4>5. \/ attempts'[x].sent.header = None
            \/ \E b \in DOMAIN attempts : attempts'[x].sent.header = attempts[b].header
        BY <4>1, <4>2 DEF Requests
      <4>6. attempts[x].alone => attempts'[x].sent = [ctx |-> x, header |-> attempts[x].header]
        BY <3>2, <4>1, <4>2, <4>3 DEF Carries, Moves, Heads
      <4> QED BY <2>1, <2>3, <3>2, <4>4, <4>5, <4>6 DEF Own, Moves
    <3>3. CASE ~Moves(x, "doing", "sending")
      <4>1. /\ attempts'[x].sent = attempts[x].sent /\ Sent(x) /\ Own(x)
        <5>1. attempts'[x].sent = attempts[x].sent
          BY <1>6, <3>3, AttemptFields DEF Same
        <5>2. Sent(x)
          BY <1>6, <2>5, <3>3, AttemptFields DEF Sent, Moves
        <5> QED BY <2>1, <5>1, <5>2 DEF AttemptsSendTheirOwn
      <4>2. CASE attempts'[x].step # "answered"
        BY <2>1, <2>3, <4>1, <4>2 DEF Own
      <4>3. CASE attempts'[x].step = "answered"
        <5> DEFINE got == attempts[x].got
                   W == Whole(client)
        <5>1. /\ Moves(x, "sending", "answered") /\ attempts'[x].got = got
              /\ read >= Len(W) \/ Len(got) = Len(W)
          BY <1>6, <4>3, AttemptFields DEF Moves, Same
        <5>2. got \in Seq(1 .. BodyUnits) /\ Len(got) \in Nat /\ DOMAIN got = 1 .. Len(got)
          BY <1>0, <2>1 DEF AttemptType
        <5>3. ReadsOn(x) /\ Len(got) <= Len(W)
          BY <2>1, <2>2 DEF Reading
        <5>4. /\ W \in Seq(1 .. BodyUnits) /\ Len(W) \in Nat /\ DOMAIN W = 1 .. Len(W)
              /\ \A i \in 1 .. Len(W) : W[i] = i
          BY <1>0, WholeType
        <5> HIDE DEF got, W
        <5>5. CASE attempts[x].alone /\ First(x)
          <6>1. (\A i \in 1 .. Len(got) : got[i] = i) /\ Len(got) = read
            BY <2>1, <5>1, <5>3, <5>5 DEF ReadsOn, Moves, got
          <6>2. Len(got) = Len(W)
            BY <1>0, <5>1, <5>2, <5>3, <5>4, <6>1
          <6>3. got = W
            BY <5>2, <5>4, <6>1, <6>2
          <6> QED BY <2>1, <2>3, <3>1, <4>1, <5>1, <5>5, <6>3 DEF Own, First, W
        <5>6. CASE attempts[x].alone /\ ~First(x)
          <6>1. got = <<>> \/ got[1] # 1
            BY <5>3, <5>6 DEF ReadsOn, got
          <6>2. W = <<>> => got = <<>>
            BY <5>2, <5>3, <5>4
          <6>3. W # <<>> => Len(W) > 0
            BY <5>4
          <6>4. W # <<>> => got # W
            BY <5>4, <6>1, <6>3
          <6> QED BY <2>1, <2>3, <3>1, <4>1, <5>1, <5>6, <6>2, <6>4 DEF Own, First, W
        <5>7. CASE ~attempts[x].alone
          BY <2>1, <2>3, <4>1, <5>7 DEF Own
        <5> QED BY <5>5, <5>6, <5>7
      <4> QED BY <4>2, <4>3
    <3> QED BY <3>2, <3>3
  <2> QED BY <2>1, <2>4, <2>5 DEF AttemptsSendTheirOwn
<1> QED BY <1>1, <1>2, <1>3, <1>4, <1>5, <1>6 DEF Next, CallerSets, Return, vars

\* What an attempt sends (AttemptsSendTheirOwn), for every number of attempts
\* and every interleaving of their steps.
THEOREM OnlyOverlappingAttemptsMix == Spec => []AttemptsSendTheirOwn
<1>1. Init => Alone /\ Requests /\ Reading /\ AttemptsSendTheirOwn
  <2> SUFFICES ASSUME Init PROVE Alone /\ Requests /\ Reading /\ AttemptsSendTheirOwn
    OBVIOUS
  <2>1. /\ attempts = <<>> /\ reqs = [i \in 0 .. MaxTries |-> NotSent] /\ httpReq = 0 /\ read = 0
    BY DEF Init
  <2>2. DOMAIN attempts = {} /\ Len(attempts) = 0
    BY <2>1, EmptySeq
  <2>3. \A i \in 0 .. MaxTries : reqs[i].header = None
    BY <2>1 DEF NotSent
  <2> QED BY <2>1, <2>2, <2>3 DEF Alone, Requests, Reading, AttemptsSendTheirOwn
<1>2. Headers => Calls
  BY DEF Headers
<1> QED BY <1>1, <1>2, InitTypes, InitHeaders, StepTypes, HeadersStep, AloneStep, RequestsStep,
          ReadingStep, OwnStep, PTL DEF Spec

-----------------------------------------------------------------------------
\* What a request remembers.

\* Sets of numbers have a least element, bounded ones a greatest.
LEMMA LeastOf ==
    ASSUME NEW S \in SUBSET Nat, S # {}
    PROVE  Min(S) \in S /\ \A j \in S : Min(S) <= j
<1>1. PICK i \in S : \A j \in S : ~(<<j, i>> \in OpToRel(<, Nat))
  BY NatLessThanWellFounded, WFMin
<1>2. \A j \in S : ~(j < i)
  BY <1>1 DEF OpToRel
<1>3. i \in S /\ \A j \in S : i <= j
  BY <1>2
<1> QED
  BY <1>3 DEF Min

LEMMA GreatestOf ==
    ASSUME NEW n \in Nat, NEW S \in SUBSET (1 .. n), S # {}
    PROVE  Max(S) \in S /\ \A j \in S : j <= Max(S)
<1> DEFINE D == {n - i : i \in S}
<1>1. D \in SUBSET Nat /\ D # {}
  <2>1. \A i \in S : n - i \in Nat
    OBVIOUS
  <2>2. PICK i \in S : TRUE
    OBVIOUS
  <2>3. n - i \in D
    OBVIOUS
  <2>4. \A d \in D : d \in Nat
    BY <2>1
  <2> QED
    BY <2>3, <2>4
<1>2. Min(D) \in D /\ \A e \in D : Min(D) <= e
  BY <1>1, LeastOf
<1>3. PICK i \in S : Min(D) = n - i
  BY <1>2
<1>4. \A j \in S : i >= j
  <2> SUFFICES ASSUME NEW j \in S PROVE i >= j
    OBVIOUS
  <2>1. n - j \in D
    OBVIOUS
  <2>2. n - i <= n - j
    BY <1>2, <1>3, <2>1
  <2>3. i \in Int /\ j \in Int
    OBVIOUS
  <2> QED
    BY <2>2, <2>3
<1>5. \E x \in S : \A y \in S : x >= y
  BY <1>4
<1>6. Max(S) \in S /\ \A y \in S : Max(S) >= y
  BY <1>5 DEF Max
<1>7. \A y \in S : y \in Int
  OBVIOUS
<1> QED
  BY <1>6, <1>7

\* A number beyond a set leaves its least element, and is the greatest.
LEMMA BeyondASet ==
    ASSUME NEW n \in Nat, NEW S \in SUBSET (1 .. n), NEW T, T = S \cup {n + 1}
    PROVE  /\ Max(T) = n + 1
           /\ Min(T) = IF S = {} THEN n + 1 ELSE Min(S)
<1>1. T \in SUBSET (1 .. n + 1) /\ T \in SUBSET Nat /\ T # {} /\ n + 1 \in Nat /\ S \in SUBSET Nat
  OBVIOUS
<1>2. Max(T) \in T /\ \A j \in T : j <= Max(T)
  BY <1>1, GreatestOf
<1>3. Min(T) \in T /\ \A j \in T : Min(T) <= j
  BY <1>1, LeastOf
<1>4. S # {} => Min(S) \in S /\ \A j \in S : Min(S) <= j
  BY <1>1, LeastOf
<1>5. n + 1 \in T /\ (\A i \in S : i \in T /\ i \in Int /\ i <= n) /\ (\A i \in T : i \in S \/ i = n + 1)
  OBVIOUS
<1>6. Max(T) = n + 1
  <2>1. n + 1 <= Max(T) /\ (Max(T) \in S \/ Max(T) = n + 1)
    BY <1>2, <1>5
  <2>2. Max(T) \notin S
    <3> SUFFICES ASSUME Max(T) \in S PROVE FALSE
      OBVIOUS
    <3>1. Max(T) \in Int /\ Max(T) <= n
      BY <1>5
    <3> QED
      BY <2>1, <3>1
  <2> QED
    BY <2>1, <2>2
<1>7. CASE S = {}
  BY <1>3, <1>5, <1>6, <1>7
<1>8. CASE S # {}
  <2>1. Min(S) \in S /\ Min(S) \in Int /\ Min(S) <= n /\ Min(T) <= Min(S)
    BY <1>3, <1>4, <1>5, <1>8
  <2>2. Min(T) \in S
    <3> SUFFICES ASSUME Min(T) = n + 1 PROVE FALSE
      BY <1>3, <1>5
    <3> QED
      BY <2>1
  <2>3. Min(S) <= Min(T) /\ Min(T) \in Int
    BY <1>4, <1>5, <1>8, <2>2
  <2> QED
    BY <1>6, <1>8, <2>1, <2>3
<1> QED
  BY <1>6, <1>7, <1>8

\* A further client offers something new only if no client did before.
LEMMA OfferAppended ==
    ASSUME NEW s \in Seq(Clients), NEW c \in Clients, NEW k
    PROVE  FirstOffer(Append(s, c), k) = IF FirstOffer(s, k) # {} THEN FirstOffer(s, k) ELSE Offers(c, k)
<1> DEFINE t == Append(s, c)
           some == {i \in DOMAIN s : Offers(s[i], k) # {}}
           more == {i \in DOMAIN t : Offers(t[i], k) # {}}
           n == Len(s)
<1>1. /\ n \in Nat /\ DOMAIN s = 1 .. n /\ DOMAIN t = 1 .. n + 1 /\ t[n + 1] = c
      /\ \A i \in 1 .. n : t[i] = s[i]
  OBVIOUS
<1>2. 1 .. n + 1 = (1 .. n) \cup {n + 1}
  BY <1>1
<1> HIDE DEF t, n
<1>3. /\ some \in SUBSET (1 .. n)
      /\ Offers(c, k) # {} => more = some \cup {n + 1}
      /\ Offers(c, k) = {} => more = some
      /\ \A i \in some : Offers(s[i], k) # {}
  BY <1>1, <1>2
<1>4. /\ FirstOffer(s, k) = IF some = {} THEN {} ELSE Offers(s[Min(some)], k)
      /\ FirstOffer(t, k) = IF more = {} THEN {} ELSE Offers(t[Min(more)], k)
  BY DEF FirstOffer
<1> HIDE DEF some, more
<1>5. some # {} => Min(some) \in some
  <2>1. some \in SUBSET Nat
    BY <1>1, <1>3
  <2> QED
    BY <2>1, LeastOf
<1>6. Offers(c, k) # {} => Min(more) = IF some = {} THEN n + 1 ELSE Min(some)
  BY <1>1, <1>3, BeyondASet
<1>7. CASE some = {} /\ Offers(c, k) = {}
  BY <1>3, <1>4, <1>7 DEF t
<1>8. CASE some = {} /\ Offers(c, k) # {}
  <2>1. more # {}
    BY <1>3, <1>8
  <2>2. FirstOffer(t, k) = Offers(c, k)
    BY <1>1, <1>4, <1>6, <1>8, <2>1
  <2> QED
    BY <1>4, <1>8, <2>2 DEF t
<1>9. CASE some # {}
  <2>1. Min(more) = Min(some) /\ more # {}
    BY <1>3, <1>6, <1>9
  <2>2. t[Min(some)] = s[Min(some)] /\ Offers(s[Min(some)], k) # {}
    BY <1>1, <1>3, <1>5, <1>9
  <2> QED
    BY <1>4, <1>9, <2>1, <2>2 DEF t
<1> QED
  BY <1>7, <1>8, <1>9

\* The last value is the new one, if it is one.
LEMMA ValueAppended ==
    ASSUME NEW n \in Nat, NEW s, NEW t, DOMAIN s = 1 .. n, DOMAIN t = 1 .. n + 1,
           \A i \in 1 .. n : t[i] = s[i]
    PROVE  LastValue(t) = IF t[n + 1] # "" THEN t[n + 1] ELSE LastValue(s)
<1> DEFINE some == {i \in DOMAIN s : s[i] # ""}
           more == {i \in DOMAIN t : t[i] # ""}
<1>1. 1 .. n + 1 = (1 .. n) \cup {n + 1}
  OBVIOUS
<1>2. /\ some \in SUBSET (1 .. n)
      /\ t[n + 1] # "" => more = some \cup {n + 1}
      /\ t[n + 1] = "" => more = some
  BY <1>1
<1>3. /\ LastValue(s) = IF some = {} THEN "" ELSE s[Max(some)]
      /\ LastValue(t) = IF more = {} THEN "" ELSE t[Max(more)]
  BY DEF LastValue
<1> HIDE DEF some, more
<1>4. CASE t[n + 1] # ""
  <2>1. Max(more) = n + 1 /\ more # {}
    BY <1>2, <1>4, BeyondASet
  <2> QED
    BY <1>3, <1>4, <2>1
<1>5. CASE t[n + 1] = "" /\ some # {}
  <2>1. Max(some) \in 1 .. n
    BY <1>2, <1>5, GreatestOf
  <2> QED
    BY <1>2, <1>3, <1>5, <2>1
<1>6. CASE t[n + 1] = "" /\ some = {}
  BY <1>2, <1>3, <1>6
<1> QED
  BY <1>4, <1>5, <1>6

\* The request and its attempts, key by key; the other runtimes put nothing
\* into it.
Memory ==
    /\ kind = "unary" => \A k \in Keys \ own :
          /\ k \notin changed => header[k] = FirstOffer(filled, k)
          /\ \A a \in DOMAIN attempts :
                k \notin attempts[a].set => attempts[a].header[k] = FirstOffer(filled, k)
    /\ kind # "unary" => \A k \in Keys \ own : header[k] = {}

Remembers == Memory /\ RequestRemembersClients

LEMMA ComposedOffers ==
    ASSUME NEW c, NEW k \in Keys
    PROVE  Composed(header, c)[k] = IF header[k] # {} THEN header[k] ELSE Offers(c, k)
BY DEF Composed, Fill, Offers, Static, Defaults

\* What the other runtimes send where the caller has set nothing.
LEMMA OnceOffers ==
    ASSUME NEW c, NEW k \in Keys \ own, other \subseteq own, header[k] = {}
    PROVE  /\ StreamHeaders(c)[k] \subseteq {"client", c.name}
           /\ PyHeaders(c)[k] \subseteq {"client", c.name}
           /\ TsHeaders(c)[k] \subseteq {"client", c.name}
<1>1. StreamHeaders(c)[k] \subseteq {"client", c.name}
  BY DEF StreamHeaders, Fill, Static, Defaults
<1>2. PyHeaders(c)[k] \subseteq {"client", c.name}
  BY DEF PyHeaders, Static
<1>3. TsHeaders(c)[k] \subseteq {"client", c.name}
  BY DEF TsHeaders, Fill, Static, Defaults
<1> QED
  BY <1>1, <1>2, <1>3

\* What entering CallRequest does to what interceptors see.
LEMMA NamedRemembers ==
    ASSUME NEW c \in Clients, named \in Seq(Clients)
    PROVE  LET t == Append(named, c)
           IN /\ LastValue([i \in DOMAIN t |-> t[i].procedure]) =
                    IF c.procedure # "" THEN c.procedure
                    ELSE LastValue([i \in DOMAIN named |-> named[i].procedure])
              /\ LastValue([i \in DOMAIN t |-> t[i].host]) =
                    IF c.host # "" THEN c.host ELSE LastValue([i \in DOMAIN named |-> named[i].host])
<1> DEFINE t == Append(named, c)
           n == Len(named)
<1>1. /\ n \in Nat /\ DOMAIN named = 1 .. n /\ DOMAIN t = 1 .. n + 1
      /\ \A i \in 1 .. n : t[i] = named[i]
      /\ t[n + 1] = c
  OBVIOUS
<1> HIDE DEF t, n
<1>2. n + 1 \in 1 .. n + 1 /\ \A i \in 1 .. n : i \in 1 .. n + 1
  BY <1>1
<1>4. PICK p, q : p = [i \in DOMAIN named |-> named[i].procedure] /\ q = [i \in DOMAIN t |-> t[i].procedure]
  OBVIOUS
<1>5. PICK g, h : g = [i \in DOMAIN named |-> named[i].host] /\ h = [i \in DOMAIN t |-> t[i].host]
  OBVIOUS
<1>6. /\ DOMAIN p = 1 .. n /\ DOMAIN q = 1 .. n + 1 /\ q[n + 1] = c.procedure
      /\ \A i \in 1 .. n : q[i] = p[i]
  BY <1>1, <1>2, <1>4
<1>7. /\ DOMAIN g = 1 .. n /\ DOMAIN h = 1 .. n + 1 /\ h[n + 1] = c.host
      /\ \A i \in 1 .. n : h[i] = g[i]
  BY <1>1, <1>2, <1>5
<1>8. LastValue(q) = IF q[n + 1] # "" THEN q[n + 1] ELSE LastValue(p)
  BY <1>1, <1>6, ValueAppended, Zenon
<1>9. LastValue(h) = IF h[n + 1] # "" THEN h[n + 1] ELSE LastValue(g)
  BY <1>1, <1>7, ValueAppended, Zenon
<1> QED
  BY <1>4, <1>5, <1>6, <1>7, <1>8, <1>9 DEF t

LEMMA RemembersInit == Init => Remembers
<1> SUFFICES ASSUME Init PROVE Remembers
  OBVIOUS
<1>1. /\ attempts = <<>> /\ named = <<>> /\ filled = <<>> /\ header = None
      /\ spec.procedure = "" /\ spec.peer = ""
  BY DEF Init
<1>2. DOMAIN attempts = {} /\ DOMAIN named = {} /\ DOMAIN filled = {}
  <2>1. DOMAIN <<>> = {}
    OBVIOUS
  <2> QED
    BY <1>1, <2>1, Zenon
<1>3. \A k : FirstOffer(filled, k) = {}
  BY <1>2 DEF FirstOffer
<1>4. \A s : DOMAIN s = {} => LastValue(s) = ""
  BY DEF LastValue
<1>5. /\ LastValue([i \in DOMAIN named |-> named[i].procedure]) = ""
      /\ LastValue([i \in DOMAIN named |-> named[i].host]) = ""
  BY <1>2, <1>4
<1>6. \A k \in Keys : header[k] = {}
  BY <1>1 DEF None
<1> QED
  BY <1>1, <1>2, <1>3, <1>5, <1>6 DEF Remembers, Memory, RequestRemembersClients

LEMMA RemembersStep ==
    ASSUME TypeOK, Calls, Remembers, [Next]_vars
    PROVE  Remembers'
<1>1. CASE UNCHANGED vars
  BY <1>1 DEF vars, Remembers, Memory, RequestRemembersClients
<1>2. ASSUME NEW k \in Keys, CallerSets(k) PROVE Remembers'
  <2>1. /\ attempts' = <<>> /\ UNCHANGED <<kind, spec, named, filled>>
        /\ own' = own \cup {k} /\ changed' = changed \ {k}
        /\ \A j \in Keys \ {k} : header'[j] = header[j]
    BY <1>2 DEF CallerSets, TypeOK
  <2>2. DOMAIN attempts' = {}
    BY <2>1, EmptySeq
  <2> QED
    BY <2>1, <2>2 DEF Remembers, Memory, RequestRemembersClients
<1>3. ASSUME NEW c \in Clients, CallRequest(c) PROVE Remembers'
  <2>1. /\ kind = "unary" /\ attempts = <<>> /\ named' = Append(named, c)
        /\ spec' = Named(c) /\ UNCHANGED <<kind, own, changed, attempts>>
    BY <1>3 DEF CallRequest, Calls
  <2>2. DOMAIN attempts = {} /\ named \in Seq(Clients) /\ filled \in Seq(Clients)
    BY <2>1, EmptySeq DEF TypeOK
  <2>3. ASSUME NEW k \in Keys \ own, k \notin changed PROVE header'[k] = FirstOffer(filled, k)'
    <3>1. header[k] = FirstOffer(filled, k)
      BY <2>1, <2>3 DEF Remembers, Memory
    <3>2. CASE UNCHANGED <<header, filled>>
      BY <3>1, <3>2
    <3>3. CASE header' = Composed(header, c) /\ filled' = Append(filled, c)
      <4>1. FirstOffer(filled', k) = IF header[k] # {} THEN header[k] ELSE Offers(c, k)
        BY <2>2, <3>1, <3>3, OfferAppended
      <4>2. header'[k] = IF header[k] # {} THEN header[k] ELSE Offers(c, k)
        BY <3>3, ComposedOffers
      <4> QED
        BY <4>1, <4>2
    <3> QED
      BY <1>3, <3>2, <3>3 DEF CallRequest
  <2>4. /\ spec'.procedure = LastValue([i \in DOMAIN named' |-> named'[i].procedure])
        /\ spec'.peer = LastValue([i \in DOMAIN named' |-> named'[i].host])
    <3>1. /\ spec.procedure = LastValue([i \in DOMAIN named |-> named[i].procedure])
          /\ spec.peer = LastValue([i \in DOMAIN named |-> named[i].host])
      BY <2>1 DEF Remembers, RequestRemembersClients
    <3>2. /\ spec'.procedure = IF c.procedure # "" THEN c.procedure ELSE spec.procedure
          /\ spec'.peer = IF c.host # "" THEN c.host ELSE spec.peer
      BY <2>1 DEF Named
    <3>3. /\ LastValue([i \in DOMAIN named' |-> named'[i].procedure]) =
                IF c.procedure # "" THEN c.procedure ELSE LastValue([i \in DOMAIN named |-> named[i].procedure])
          /\ LastValue([i \in DOMAIN named' |-> named'[i].host]) =
                IF c.host # "" THEN c.host ELSE LastValue([i \in DOMAIN named |-> named[i].host])
      BY <2>1, <2>2, NamedRemembers
    <3> DEFINE P == LastValue([i \in DOMAIN named |-> named[i].procedure])
               Q == LastValue([i \in DOMAIN named' |-> named'[i].procedure])
               G == LastValue([i \in DOMAIN named |-> named[i].host])
               H == LastValue([i \in DOMAIN named' |-> named'[i].host])
    <3>4. Q = IF c.procedure # "" THEN c.procedure ELSE P
      BY <3>3, Zenon
    <3>5. H = IF c.host # "" THEN c.host ELSE G
      BY <3>3, Zenon
    <3>6. spec.procedure = P /\ spec.peer = G
      BY <3>1, Zenon
    <3> HIDE DEF P, Q, G, H
    <3>7. spec'.procedure = Q /\ spec'.peer = H
      BY <3>2, <3>4, <3>5, <3>6
    <3> QED
      BY <3>7, Zenon DEF Q, H
  <2> QED
    BY <2>1, <2>2, <2>3, <2>4 DEF Remembers, Memory, RequestRemembersClients
<1>4. ASSUME NEW c \in Clients, SendOnce(c) PROVE Remembers'
  <2>1. kind # "unary" /\ client' = c /\ UNCHANGED <<kind, header, own, other, filled>>
    BY <1>4 DEF SendOnce
  <2>2. PICK h \in {StreamHeaders(c), PyHeaders(c), TsHeaders(c)} :
           /\ attempts' = <<[step |-> "answered", header |-> h, set |-> {}, alone |-> TRUE, ptr |-> 0,
                            sent |-> [ctx |-> 1, header |-> h], pos |-> 0, got |-> Whole(c)]>>
    BY <1>4 DEF SendOnce
  <2>3. DOMAIN attempts' = {1} /\ attempts'[1].header = h
    BY <2>2
  <2>4. ASSUME NEW k \in Keys \ own PROVE h[k] \subseteq {"client", c.name}
    <3>1. header[k] = {}
      BY <2>1 DEF Remembers, Memory
    <3> QED
      BY <3>1, OnceOffers DEF TypeOK
  <2> QED
    BY <2>1, <2>3, <2>4 DEF Remembers, Memory, RequestRemembersClients
<1>5. ASSUME NEW ks \in SUBSET Keys, NEW inPlace \in BOOLEAN, CallNext(ks, inPlace) PROVE Remembers'
  <2>1. /\ kind = "unary" /\ UNCHANGED <<kind, own, spec, named, filled, client>>
        /\ changed' = IF inPlace THEN changed \cup ks ELSE changed
        /\ header' = IF inPlace THEN [k \in Keys |-> IF k \in ks THEN {"interceptor"} ELSE header[k]] ELSE header
    BY <1>5 DEF CallNext, Calls
  <2>2. /\ DOMAIN attempts' = DOMAIN attempts \cup {Len(attempts) + 1}
        /\ \A a \in DOMAIN attempts : /\ attempts'[a].header = attempts[a].header
                                      /\ attempts'[a].set = attempts[a].set
        /\ attempts'[Len(attempts) + 1].header = [k \in Keys |-> IF k \in ks THEN {"interceptor"} ELSE header[k]]
        /\ attempts'[Len(attempts) + 1].set = changed \cup ks
    <3> DEFINE new == [step |-> "called",
                       header |-> [k \in Keys |-> IF k \in ks THEN {"interceptor"} ELSE header[k]],
                       set |-> changed \cup ks, alone |-> AllOver,
                       ptr |-> 0, sent |-> NotSent, pos |-> 0, got |-> <<>>]
    <3>1. /\ Len(attempts) \in Nat
          /\ DOMAIN attempts = 1 .. Len(attempts) /\ DOMAIN attempts' = 1 .. Len(attempts) + 1
          /\ \A a \in DOMAIN attempts : /\ attempts'[a].header = attempts[a].header
                                        /\ attempts'[a].set = attempts[a].set
          /\ attempts'[Len(attempts) + 1] = new
      BY <1>5, CallNextEffect
    <3>2. /\ new.header = [k \in Keys |-> IF k \in ks THEN {"interceptor"} ELSE header[k]]
          /\ new.set = changed \cup ks
      OBVIOUS
    <3>3. DOMAIN attempts' = DOMAIN attempts \cup {Len(attempts) + 1}
      BY <3>1
    <3> QED
      BY <3>1, <3>2, <3>3
  <2>3. ASSUME NEW k \in Keys \ own
        PROVE  /\ k \notin changed' => header'[k] = FirstOffer(filled, k)
               /\ \A a \in DOMAIN attempts' :
                     k \notin attempts'[a].set => attempts'[a].header[k] = FirstOffer(filled, k)
    <3>1. k \notin changed => header[k] = FirstOffer(filled, k)
      BY <2>1 DEF Remembers, Memory
    <3>2. ASSUME NEW a \in DOMAIN attempts, k \notin attempts[a].set
          PROVE  attempts[a].header[k] = FirstOffer(filled, k)
      BY <2>1, <3>2 DEF Remembers, Memory
    <3> QED
      BY <2>1, <2>2, <3>1, <3>2
  <2> QED
    BY <2>1, <2>3 DEF Remembers, Memory, RequestRemembersClients
<1>6. CASE Return
  <2>1. attempts' = <<>> /\ UNCHANGED request
    BY <1>6 DEF Return
  <2>2. DOMAIN attempts' = {}
    BY <2>1, EmptySeq
  <2> QED
    BY <2>1, <2>2 DEF request, Remembers, Memory, RequestRemembersClients
<1>7. ASSUME NEW a \in 1 .. MaxTries, Attempt(a) PROVE Remembers'
  <2>1. /\ DOMAIN attempts' = DOMAIN attempts
        /\ \A b \in DOMAIN attempts : /\ attempts'[b].header = attempts[b].header
                                      /\ attempts'[b].set = attempts[b].set
        /\ UNCHANGED <<kind, header, own, changed, client>>
    BY <1>7, AttemptEffect
  <2>2. UNCHANGED <<spec, named, filled>>
    BY <1>7 DEF Attempt, CopyRequest, AssignRequest, AssignHeader, Do, SendHead, ReadPart, MoveIndex, Answered,
                Failed, Step, request
  <2> QED
    BY <2>1, <2>2 DEF Remembers, Memory, RequestRemembersClients
<1>8. InterceptorKeys \subseteq Keys
  BY ClientsAssumption
<1> QED
  BY <1>1, <1>2, <1>3, <1>4, <1>5, <1>6, <1>7, <1>8 DEF Next

\* Whatever clients a request goes through and however often interceptors retry,
\* it keeps what the first of them put in and is named after the last
\* (RequestRemembersClients).
THEOREM RequestsRememberTheirClients == Spec => []RequestRemembersClients
<1>1. Init => TypeOK /\ Headers /\ Remembers
  BY InitTypes, InitHeaders, RemembersInit
<1>2. TypeOK /\ Headers /\ Remembers /\ [Next]_vars => (TypeOK /\ Headers /\ Remembers)'
  BY StepTypes, HeadersStep, RemembersStep DEF Headers
<1>3. Remembers => RequestRemembersClients
  BY DEF Remembers
<1> QED
  BY <1>1, <1>2, <1>3, PTL DEF Spec
=============================================================================
