---------------------------- MODULE ForwardProofs ----------------------------
(***************************************************************************)
(* What the run checks of Forward on a small instance, proved for every    *)
(* set of operations, fields and values: the request message is typed, the *)
(* path's resource wins, and the order of the query does not matter.       *)
(***************************************************************************)
EXTENDS Forward, TLAPS

\* The parts of a request, as the handler gets them.
RequestInv ==
    /\ phase # "call" => path \in [caller.path -> 0 .. NotUtf8]
    /\ DOMAIN query \subseteq Keys
    /\ \A k \in DOMAIN query : query[k] \in Seq(0 .. NotUtf8)
    /\ todo \subseteq DOMAIN query
    /\ phase \in {"call", "bind"} => todo = {}
    /\ IsMessage(body) => body.message \in Messages
    /\ phase \in {"call", "bind", "query", "forward"} => seen = <<>>

\* What a field is bound to while the loop over the query runs: the path's
\* value; else what the query asks for, once its key has been looked at.
FieldInv(f) ==
    IF Literal[f] # 0 THEN bound[f] = Literal[f]
    ELSE ~Ambiguous(f) /\ Kind[f] # "enum" =>
            bound[f] = IF \E k \in todo : k[1] = f THEN 0 ELSE Asked(f)

\* The same, where nothing is left to look at.
QueryBound(m) ==
    BindsQuery(caller) =>
        \A f \in Fields :
            ~Ambiguous(f) /\ Kind[f] # "enum" =>
                m[f] = IF Literal[f] # 0 THEN Literal[f] ELSE Asked(f)

PathBound(m) == \A f \in caller.path : path[f] # 0 => m[f] = path[f]

BindingInv ==
    /\ phase = "query" => BindsQuery(caller) /\ \A f \in Fields : FieldInv(f)
    /\ phase = "forward" => PathBound(bound) /\ QueryBound(bound)
    /\ seen # <<>> => seen = <<seen[1]>> /\ PathBound(seen[1]) /\ QueryBound(seen[1])

IInv == TypeOK /\ RequestInv /\ BindingInv

-----------------------------------------------------------------------------
\* Facts of the operators.

\* A value is one of the two numbers everything can be, or a text.
LEMMA ZeroParses == \A kind : Parses(kind, 0) /\ Parses(kind, 1)
BY BoundsAssumption DEF Parses

LEMMA NothingIsAMessage == NoMessage \in Messages
BY ZeroParses, BoundsAssumption DEF NoMessage, Messages, NotANumber

\* Sequences of one and of two, and what is in them.
LEMMA ShortSequences ==
    ASSUME NEW S
    PROVE  /\ \A v \in S : <<v>> \in Seq(S) /\ <<v, v>> \in Seq(S)
           /\ \A s \in Seq(S) : Len(s) = 1 => s[1] \in S
<1>1. \A v \in S : <<v>> \in Seq(S) /\ <<v, v>> \in Seq(S)
  OBVIOUS
<1>2. \A s \in Seq(S) : Len(s) = 1 => s[1] \in S
  OBVIOUS
<1> QED
  BY <1>1, <1>2

\* Path-bound fields are strings, so what the path says is a value of theirs.
LEMMA LiteralTyped ==
    ASSUME caller \in Callers, path \in [caller.path -> 0 .. NotUtf8]
    PROVE  /\ Literal \in [Fields -> 0 .. NotUtf8]
           /\ \A f \in Fields : Parses(Kind[f], Literal[f])
           /\ caller.path \subseteq Fields
           /\ \A f \in caller.path : Literal[f] = path[f]
<1>1. caller.path \subseteq {f \in Fields : Kind[f] = "string"}
  BY CallersAssumption DEF Fields, Kind
<1>2. 0 \in 0 .. NotUtf8
  BY BoundsAssumption DEF NotUtf8
<1>3. \A f \in caller.path : Literal[f] = path[f] /\ Parses(Kind[f], path[f])
  BY <1>1 DEF Literal, Parses
<1>4. \A f \in Fields \ caller.path : Literal[f] = 0
  BY DEF Literal
<1>5. \A f \in Fields : Parses(Kind[f], Literal[f])
  BY <1>3, <1>4, ZeroParses
<1>6. Literal \in [Fields -> 0 .. NotUtf8]
  BY <1>1, <1>2 DEF Literal
<1> QED
  BY <1>1, <1>3, <1>5, <1>6

\* A field that is not ambiguous has one key at most.
LEMMA OneKey ==
    ASSUME DOMAIN query \subseteq Keys,
           NEW f \in Fields, ~Ambiguous(f),
           NEW k \in DOMAIN query, NEW l \in DOMAIN query, k[1] = f, l[1] = f
    PROVE  k = l
<1>1. \A x \in DOMAIN query : x[1] = f => x = <<f, "json">> \/ x = <<f, "proto">>
  BY DEF Keys
<1> QED
  BY <1>1 DEF Ambiguous

\* What is asked for is the value of that key, if it can be used, else nothing.
LEMMA AskedByItsKey ==
    ASSUME DOMAIN query \subseteq Keys,
           NEW f \in Fields, ~Ambiguous(f), NEW k \in DOMAIN query, k[1] = f
    PROVE  Asked(f) = IF Len(query[k]) = 1 /\ Parses(Kind[f], query[k][1]) THEN query[k][1] ELSE 0
<1> DEFINE keys == {l \in DOMAIN query : l[1] = f /\ Len(query[l]) = 1 /\ Parses(Kind[f], query[l][1])}
<1>1. Asked(f) = IF keys = {} THEN 0 ELSE query[CHOOSE l \in keys : TRUE][1]
  BY DEF Asked
<1>2. \A l \in keys : l = k
  BY OneKey
<1>3. CASE Len(query[k]) = 1 /\ Parses(Kind[f], query[k][1])
  <2>1. k \in keys
    BY <1>3
  <2>2. (CHOOSE l \in keys : TRUE) = k
    BY <1>2, <2>1
  <2> QED
    BY <1>1, <1>3, <2>1, <2>2
<1>4. CASE ~(Len(query[k]) = 1 /\ Parses(Kind[f], query[k][1]))
  <2>1. keys = {}
    BY <1>2, <1>4
  <2> QED
    BY <1>1, <1>4, <2>1
<1> QED
  BY <1>3, <1>4

\* A field that no key names is not asked for.
LEMMA NotAsked ==
    ASSUME NEW f, \A k \in DOMAIN query : k[1] # f
    PROVE  Asked(f) = 0
BY DEF Asked

-----------------------------------------------------------------------------
\* The request message is well typed, whatever the query holds: a value that
\* does not parse never gets into a field (applyQueryParams, forward.go:161).

LEMMA TypesInit == Init => TypeOK /\ RequestInv
<1> SUFFICES ASSUME Init PROVE TypeOK /\ RequestInv
  OBVIOUS
<1>1. NoMessage \in [Fields -> 0 .. NotUtf8] /\ \A f \in Fields : Parses(Kind[f], NoMessage[f])
  BY ZeroParses, BoundsAssumption DEF NoMessage, NotUtf8
<1>2. TypeOK
  BY <1>1, NothingIsAMessage DEF Init, TypeOK
<1>3. DOMAIN query = {}
  BY DEF Init
<1>4. ~IsMessage(body)
  BY DEF Init, IsMessage, Empty
<1>5. RequestInv
  BY <1>3, <1>4 DEF Init, RequestInv
<1> QED
  BY <1>2, <1>5

\* The steps in which a caller makes up a request.
LEMMA CallTypes ==
    ASSUME TypeOK, RequestInv, ClientCall \/ HttpCall
    PROVE  TypeOK' /\ RequestInv'
<1>1. /\ caller' = caller /\ bound' = bound /\ seen' = seen /\ todo' = todo
      /\ phase' = "bind" /\ phase = "call"
  BY DEF ClientCall, HttpCall
<1>2. msg' \in Messages
  BY DEF ClientCall, HttpCall, TypeOK
<1>3. TypeOK'
  BY <1>1, <1>2 DEF TypeOK, Messages, Fields, Kind, Keys, NotANumber, NotUtf8, Parses
<1>4. todo' = {} /\ seen' = <<>>
  BY <1>1 DEF RequestInv
<1>5. CASE ClientCall
  <2>1. \A f \in Fields : msg'[f] \in 0 .. NotUtf8
    BY <1>2, BoundsAssumption DEF Messages, NotANumber, NotUtf8
  <2>2. caller.path \subseteq Fields
    BY CallersAssumption DEF TypeOK, Fields, Kind
  <2>3. path' \in [caller.path -> 0 .. NotUtf8]
    BY <1>5, <2>1, <2>2 DEF ClientCall
  <2>4. CASE SendsQuery(caller)
    <3> DEFINE K == {<<f, "json">> : f \in {g \in QueryFields(caller) : msg'[g] # 0}}
    <3>1. query' = [k \in K |-> <<msg'[k[1]]>>] /\ body' = Empty
      BY <1>5, <2>4 DEF ClientCall
    <3>2. \A k \in K : k \in Keys /\ k[1] \in Fields
      BY DEF QueryFields, Keys
    <3>3. \A k \in K : query'[k] \in Seq(0 .. NotUtf8)
      <4> SUFFICES ASSUME NEW k \in K PROVE query'[k] \in Seq(0 .. NotUtf8)
        OBVIOUS
      <4>1. query'[k] = <<msg'[k[1]]>> /\ msg'[k[1]] \in 0 .. NotUtf8
        BY <2>1, <3>1, <3>2
      <4> QED
        BY <4>1, ShortSequences
    <3>4. DOMAIN query' \subseteq Keys
      BY <3>1, <3>2
    <3>5. ~IsMessage(body')
      BY <3>1 DEF IsMessage, Empty
    <3> QED
      BY <1>1, <1>3, <1>4, <2>3, <3>1, <3>3, <3>4, <3>5 DEF RequestInv, Keys, Fields, Kind, IsMessage
  <2>5. CASE ~SendsQuery(caller)
    <3>1. query' = <<>> /\ body' = Message(msg')
      BY <1>5, <2>5 DEF ClientCall
    <3>2. DOMAIN query' = {}
      BY <3>1
    <3>3. body'.message = msg'
      BY <3>1 DEF Message
    <3> QED
      BY <1>1, <1>2, <1>3, <1>4, <2>3, <3>2, <3>3 DEF RequestInv, Messages, Fields, Kind, Parses
  <2> QED
    BY <2>4, <2>5
<1>6. CASE HttpCall
  <2>1. path' \in [caller.path -> 0 .. NotUtf8]
    BY <1>6 DEF HttpCall
  <2>2. DOMAIN query' \subseteq Keys /\ \A k \in DOMAIN query' : query'[k] \in Seq(0 .. NotUtf8)
    <3>1. PICK ks \in SUBSET Keys : query' \in [ks -> {<<v>> : v \in 0 .. NotUtf8} \cup {<<1, 1>>}]
      BY <1>6 DEF HttpCall
    <3>2. \A s \in {<<v>> : v \in 0 .. NotUtf8} \cup {<<1, 1>>} : s \in Seq(0 .. NotUtf8)
      <4>1. 1 \in 0 .. NotUtf8
        BY BoundsAssumption DEF NotUtf8
      <4>2. <<1, 1>> \in Seq(0 .. NotUtf8)
        BY <4>1, ShortSequences
      <4>3. \A v \in 0 .. NotUtf8 : <<v>> \in Seq(0 .. NotUtf8)
        BY ShortSequences
      <4> QED
        BY <4>2, <4>3
    <3> QED
      BY <3>1, <3>2
  <2>3. IsMessage(body') => body'.message \in Messages
    <3>1. body' \in {Empty, Text} \cup {Message(m) : m \in Messages}
      BY <1>6 DEF HttpCall
    <3>2. QED
      <4>1. ~IsMessage(Empty) /\ ~IsMessage(Text)
        BY DEF Empty, Text, IsMessage
      <4>2. \A m \in Messages : Message(m).message = m
        BY DEF Message
      <4> QED
        BY <3>1, <4>1, <4>2
  <2> QED
    BY <1>1, <1>3, <1>4, <2>1, <2>2, <2>3 DEF RequestInv, Messages, Keys, Fields, Kind, Parses
<1> QED
  BY <1>5, <1>6

\* The steps that bind it.
LEMMA BindTypes ==
    ASSUME TypeOK, RequestInv, BindQuery \/ ApplyKey \/ QueryApplied \/ BindBody
    PROVE  TypeOK' /\ RequestInv'
<1>1. /\ caller' = caller /\ msg' = msg /\ path' = path /\ query' = query /\ body' = body
      /\ seen' = seen /\ seen = <<>> /\ phase # "call"
  BY DEF BindQuery, ApplyKey, QueryApplied, BindBody, request, RequestInv
<1>2. path \in [caller.path -> 0 .. NotUtf8]
  BY <1>1 DEF RequestInv
<1>3. CASE BindQuery
  BY <1>1, <1>2, <1>3, LiteralTyped
  DEF BindQuery, TypeOK, RequestInv, Messages, Fields, Kind, Keys, IsMessage
<1>4. CASE ApplyKey
  <2>1. PICK k \in todo :
          /\ todo' = todo \ {k}
          /\ \/ UNCHANGED <<phase, bound>>
             \/ Usable(k) /\ bound' = [bound EXCEPT ![k[1]] = query[k][1]] /\ UNCHANGED phase
             \/ phase' = "panicked" /\ UNCHANGED bound
    BY <1>4 DEF ApplyKey
  <2>2. todo' \subseteq DOMAIN query /\ todo' \subseteq Keys
    BY <2>1 DEF RequestInv
  <2>3. phase = "query" /\ phase' \in {"query", "panicked"}
    BY <1>4, <2>1 DEF ApplyKey
  <2>4. bound' \in [Fields -> 0 .. NotUtf8] /\ \A f \in Fields : Parses(Kind[f], bound'[f])
    <3>1. CASE UNCHANGED bound
      BY <3>1 DEF TypeOK
    <3>2. CASE Usable(k) /\ bound' = [bound EXCEPT ![k[1]] = query[k][1]]
      <4>1. query[k] \in Seq(0 .. NotUtf8) /\ Len(query[k]) = 1
        BY <3>2 DEF RequestInv, Usable
      <4>2. query[k][1] \in 0 .. NotUtf8
        BY <4>1, ShortSequences
      <4>3. k[1] \in Fields /\ Parses(Kind[k[1]], query[k][1])
        BY <3>2 DEF Usable
      <4> QED
        BY <3>2, <4>2, <4>3 DEF TypeOK
    <3> QED
      BY <2>1, <3>1, <3>2
  <2> QED
    BY <1>1, <1>2, <2>2, <2>3, <2>4 DEF TypeOK, RequestInv, Messages, Fields, Kind, Keys, IsMessage
<1>5. CASE QueryApplied
  BY <1>1, <1>2, <1>5 DEF QueryApplied, TypeOK, RequestInv, Messages, Fields, Kind, Keys, IsMessage
<1>6. CASE BindBody
  <2>1. todo' = todo /\ phase' \in {"forward", "sent"}
    BY <1>6 DEF BindBody, Refused
  <2>2. bound' \in [Fields -> 0 .. NotUtf8] /\ \A f \in Fields : Parses(Kind[f], bound'[f])
    <3>1. CASE ~IsMessage(body)
      BY <1>6, <3>1 DEF BindBody, TypeOK
    <3>2. CASE IsMessage(body)
      <4>1. bound' = Merge(body.message, Literal)
        BY <1>6, <3>2 DEF BindBody
      <4>2. body.message \in Messages
        BY <3>2 DEF RequestInv
      <4>3. \A f \in Fields : body.message[f] \in 0 .. NotUtf8 /\ Parses(Kind[f], body.message[f])
        BY <4>2, BoundsAssumption DEF Messages, NotANumber, NotUtf8
      <4> QED
        BY <1>2, <4>1, <4>3, LiteralTyped DEF Merge, TypeOK
    <3> QED
      BY <3>1, <3>2
  <2> QED
    BY <1>1, <1>2, <2>1, <2>2 DEF TypeOK, RequestInv, Messages, Fields, Kind, Keys, IsMessage
<1> QED
  BY <1>3, <1>4, <1>5, <1>6

\* The steps after that.
LEMMA AnswerTypes ==
    ASSUME TypeOK, RequestInv, Serve \/ Relay \/ Dropped \/ Lost \/ Arrives \/ Parse \/ UNCHANGED vars
    PROVE  TypeOK' /\ RequestInv'
<1>1. UNCHANGED <<request, todo, bound>>
  BY DEF Serve, Relay, Dropped, Lost, Arrives, Parse, vars, request
<1>2. /\ phase' \in {"relay", "panicked", "sent", "parse", "done"}
      /\ phase # "call"
      \/ UNCHANGED <<phase, seen>>
  BY DEF Serve, Refused, Relay, Dropped, Lost, Arrives, Parse, vars
<1>3. Len(seen') <= 1
  <2>1. seen' = <<bound>> \/ seen' = seen
    BY DEF Serve, Relay, Dropped, Lost, Arrives, Parse, vars
  <2>2. Len(<<bound>>) <= 1
    OBVIOUS
  <2>3. Len(seen) <= 1
    BY DEF TypeOK
  <2> QED
    BY <2>1, <2>2, <2>3, Zenon
<1> QED
  BY <1>1, <1>2, <1>3 DEF request, TypeOK, RequestInv, Messages, Fields, Kind, Keys, IsMessage

LEMMA TypesStep == TypeOK /\ RequestInv /\ [Next]_vars => TypeOK' /\ RequestInv'
BY CallTypes, BindTypes, AnswerTypes DEF Next, Done

\* The message a handler builds has a value of its kind in every field.
THEOREM TypeCorrect == Spec => []TypeOK
<1>1. Spec => [](TypeOK /\ RequestInv)
  BY TypesInit, TypesStep, PTL DEF Spec
<1> QED
  BY <1>1, PTL

-----------------------------------------------------------------------------
\* What the message is bound to.

\* Everything that is said of the request keeps its meaning while it is served.
LEMMA RequestStays ==
    ASSUME UNCHANGED request
    PROVE  /\ Literal' = Literal /\ Kind' = Kind /\ Fields' = Fields
           /\ BindsQuery(caller)' <=> BindsQuery(caller)
           /\ \A f : Asked(f)' = Asked(f) /\ (Ambiguous(f)' <=> Ambiguous(f))
<1>1. caller' = caller /\ path' = path /\ query' = query
  BY DEF request
<1>2. Literal' = Literal /\ Kind' = Kind /\ Fields' = Fields
  BY <1>1 DEF Literal, Kind, Fields
<1>3. BindsQuery(caller)' <=> BindsQuery(caller)
  BY <1>1 DEF BindsQuery
<1>4. ASSUME NEW f PROVE Asked(f)' = Asked(f)
  BY <1>1 DEF Asked, Kind
<1>5. ASSUME NEW f PROVE Ambiguous(f)' <=> Ambiguous(f)
  BY <1>1 DEF Ambiguous
<1> QED
  BY <1>2, <1>3, <1>4, <1>5

\* One key of the query is looked at: the fields it does not name stay, and its
\* own field is what the query asks for.
LEMMA ApplyKeyBinds ==
    ASSUME IInv, ApplyKey, phase' = "query", NEW f \in Fields
    PROVE  FieldInv(f)'
<1>1. phase = "query" /\ UNCHANGED request
  BY DEF ApplyKey
<1>2. FieldInv(f)
  BY <1>1 DEF IInv, BindingInv
<1>3. PICK k \in todo :
        /\ todo' = todo \ {k}
        /\ \/ (Usable(k) => Kind[k[1]] = "enum") /\ bound' = bound
           \/ Usable(k) /\ bound' = [bound EXCEPT ![k[1]] = query[k][1]]
  BY <1>1 DEF ApplyKey
<1>4. k \in DOMAIN query /\ DOMAIN query \subseteq Keys /\ todo \subseteq DOMAIN query
  BY DEF IInv, RequestInv
<1>5. bound = [g \in Fields |-> bound[g]]
  BY DEF IInv, TypeOK
<1>6. CASE Literal[f] # 0
  <2>1. bound[f] = Literal[f]
    BY <1>2, <1>6 DEF FieldInv
  <2>2. bound'[f] = bound[f]
    BY <1>3, <1>5, <1>6, <2>1 DEF Usable
  <2> QED
    BY <1>1, <1>6, <2>1, <2>2, RequestStays DEF FieldInv
<1>7. CASE Literal[f] = 0 /\ ~Ambiguous(f) /\ Kind[f] # "enum"
  <2>1. bound[f] = IF \E l \in todo : l[1] = f THEN 0 ELSE Asked(f)
    BY <1>2, <1>7 DEF FieldInv
  <2>2. bound'[f] = IF \E l \in todo' : l[1] = f THEN 0 ELSE Asked(f)
    <3>1. CASE k[1] # f
      <4>1. bound'[f] = bound[f]
        BY <1>3, <1>5, <3>1
      <4>2. (\E l \in todo' : l[1] = f) <=> (\E l \in todo : l[1] = f)
        BY <1>3, <3>1
      <4> QED
        BY <2>1, <4>1, <4>2
    <3>2. CASE k[1] = f
      <4>1. bound[f] = 0
        BY <2>1, <3>2
      <4>2. ~\E l \in todo' : l[1] = f
        BY <1>3, <1>4, <1>7, <3>2, OneKey
      <4>3. Asked(f) = IF Len(query[k]) = 1 /\ Parses(Kind[f], query[k][1]) THEN query[k][1] ELSE 0
        BY <1>4, <1>7, <3>2, AskedByItsKey
      <4>4. CASE Usable(k)
        <5>1. bound'[f] = query[k][1]
          BY <1>3, <1>5, <1>7, <3>2, <4>4
        <5> QED
          BY <3>2, <4>2, <4>3, <4>4, <5>1 DEF Usable
      <4>5. CASE ~Usable(k)
        <5>1. bound'[f] = 0
          BY <1>3, <4>1, <4>5
        <5>2. ~(Len(query[k]) = 1 /\ Parses(Kind[f], query[k][1]))
          BY <3>2, <4>1, <4>5 DEF Usable
        <5> QED
          BY <4>2, <4>3, <5>1, <5>2
      <4> QED
        BY <4>4, <4>5
    <3> QED
      BY <3>1, <3>2
  <2> QED
    BY <1>1, <1>7, <2>2, RequestStays DEF FieldInv
<1>8. CASE Literal[f] = 0 /\ ~(~Ambiguous(f) /\ Kind[f] # "enum")
  BY <1>1, <1>8, RequestStays DEF FieldInv
<1> QED
  BY <1>6, <1>7, <1>8

LEMMA BindingStep ==
    ASSUME IInv, [Next]_vars
    PROVE  BindingInv'
<1>1. CASE ClientCall \/ HttpCall
  <2>1. phase' = "bind" /\ seen' = <<>>
    BY <1>1 DEF ClientCall, HttpCall, IInv, RequestInv
  <2> QED
    BY <2>1 DEF BindingInv
<1>2. CASE BindQuery
  <2>1. /\ phase' = "query" /\ seen' = <<>> /\ bound' = Literal /\ todo' = DOMAIN query
        /\ BindsQuery(caller) /\ UNCHANGED request
    BY <1>2 DEF BindQuery, IInv, RequestInv
  <2>2. \A f \in Fields : FieldInv(f)'
    <3> SUFFICES ASSUME NEW f \in Fields PROVE FieldInv(f)'
      OBVIOUS
    <3>1. (\A k \in DOMAIN query : k[1] # f) => Asked(f) = 0
      BY NotAsked
    <3> QED
      BY <2>1, <3>1, RequestStays DEF FieldInv
  <2> QED
    BY <2>1, <2>2, RequestStays DEF BindingInv
<1>3. CASE ApplyKey
  <2>1. phase = "query" /\ phase' \in {"query", "panicked"} /\ seen' = <<>> /\ UNCHANGED request
    BY <1>3 DEF ApplyKey, IInv, RequestInv
  <2>2. BindsQuery(caller)
    BY <2>1 DEF IInv, BindingInv
  <2>3. phase' = "query" => \A f \in Fields : FieldInv(f)'
    BY <1>3, ApplyKeyBinds
  <2> QED
    BY <2>1, <2>2, <2>3, RequestStays DEF BindingInv
<1>4. CASE QueryApplied
  <2>1. /\ phase = "query" /\ phase' = "forward" /\ todo = {} /\ bound' = bound /\ seen' = <<>>
        /\ UNCHANGED request
    BY <1>4 DEF QueryApplied, IInv, RequestInv
  <2>2. \A f \in Fields : FieldInv(f)
    BY <2>1 DEF IInv, BindingInv
  <2>3. QueryBound(bound)
    BY <2>1, <2>2 DEF QueryBound, FieldInv
  <2>4. PathBound(bound)
    <3>1. caller \in Callers /\ path \in [caller.path -> 0 .. NotUtf8]
      BY <2>1 DEF IInv, TypeOK, RequestInv
    <3> QED
      BY <2>2, <3>1, LiteralTyped DEF PathBound, FieldInv
  <2>5. QueryBound(bound)' /\ PathBound(bound)'
    BY <2>1, <2>3, <2>4, RequestStays DEF QueryBound, PathBound, request
  <2> QED
    BY <2>1, <2>5 DEF BindingInv
<1>5. CASE BindBody
  <2>1. phase = "bind" /\ ~BindsQuery(caller) /\ seen' = <<>> /\ UNCHANGED request
    BY <1>5 DEF BindBody, IInv, RequestInv
  <2>2. CASE phase' = "forward"
    <3>1. bound' = Merge(body.message, Literal)
      BY <1>5, <2>2 DEF BindBody, Refused
    <3>2. caller \in Callers /\ path \in [caller.path -> 0 .. NotUtf8]
      BY <2>1 DEF IInv, TypeOK, RequestInv
    <3>3. \A f \in caller.path : path[f] # 0 => bound'[f] = path[f]
      BY <3>1, <3>2, LiteralTyped DEF Merge
    <3>4. PathBound(bound)' /\ QueryBound(bound)'
      BY <2>1, <3>3, RequestStays DEF PathBound, QueryBound, request
    <3> QED
      BY <2>1, <2>2, <3>4 DEF BindingInv
  <2>3. CASE phase' # "forward"
    <3>1. phase' = "sent"
      BY <1>5, <2>3 DEF BindBody, Refused
    <3> QED
      BY <2>1, <3>1 DEF BindingInv
  <2> QED
    BY <2>2, <2>3
<1>6. CASE Serve
  <2>1. /\ phase = "forward" /\ phase' \in {"relay", "panicked", "sent"} /\ UNCHANGED request
        /\ seen' = <<bound>> \/ seen' = seen
    BY <1>6 DEF Serve, Refused
  <2>2. PathBound(bound) /\ QueryBound(bound) /\ seen = <<>>
    BY <2>1 DEF IInv, BindingInv, RequestInv
  <2>3. CASE seen' = <<bound>>
    <3>1. seen'[1] = bound
      BY <2>3
    <3>2. PathBound(seen[1])' /\ QueryBound(seen[1])'
      BY <2>1, <2>2, <3>1, RequestStays DEF PathBound, QueryBound, request
    <3> QED
      BY <2>1, <2>3, <3>1, <3>2 DEF BindingInv
  <2>4. CASE seen' = seen
    BY <2>1, <2>2, <2>4 DEF BindingInv
  <2> QED
    BY <2>1, <2>3, <2>4
<1>7. CASE Relay \/ Dropped \/ Lost \/ Arrives \/ Parse \/ UNCHANGED vars
  <2>1. /\ UNCHANGED request /\ seen' = seen
        /\ phase' \in {"sent", "parse", "done"} \/ UNCHANGED <<phase, bound, todo>>
    BY <1>7 DEF Relay, Dropped, Lost, Arrives, Parse, vars, request
  <2>2. seen # <<>> => seen = <<seen[1]>> /\ PathBound(seen[1])' /\ QueryBound(seen[1])'
    BY <2>1, RequestStays DEF IInv, BindingInv, PathBound, QueryBound, request
  <2>3. UNCHANGED <<phase, bound, todo>> =>
          /\ phase' = "query" => BindsQuery(caller)' /\ \A f \in Fields' : FieldInv(f)'
          /\ phase' = "forward" => PathBound(bound)' /\ QueryBound(bound)'
    BY <2>1, RequestStays DEF IInv, BindingInv, FieldInv, PathBound, QueryBound, request
  <2> QED
    BY <2>1, <2>2, <2>3 DEF BindingInv
<1> QED
  BY <1>1, <1>2, <1>3, <1>4, <1>5, <1>6, <1>7 DEF Next, Done

LEMMA Inductive == Spec => []IInv
<1>1. Init => IInv
  BY TypesInit DEF Init, IInv, BindingInv
<1>2. IInv /\ [Next]_vars => IInv'
  BY TypesStep, BindingStep DEF IInv
<1> QED
  BY <1>1, <1>2, PTL DEF Spec

\* Whatever query and body say, the RPC runs with the resource the path names.
THEOREM PathNamesTheResource == Spec => []PathVarsWin
<1>1. IInv => PathVarsWin
  BY DEF IInv, BindingInv, PathBound, PathVarsWin, Ran
<1> QED
  BY <1>1, Inductive, PTL

\* In whatever order the query is looked at, the RPC runs with the same message,
\* but for enums and fields that the query names in both ways.
THEOREM AnyOrderBindsTheSame == Spec => []OrderDoesNotMatter
<1>1. IInv => OrderDoesNotMatter
  BY DEF IInv, BindingInv, QueryBound, OrderDoesNotMatter, Ran
<1> QED
  BY <1>1, Inductive, PTL

-----------------------------------------------------------------------------
\* Fields of a generated client.

\* Callers whose client and handler agree on where fields travel, and each
\* field of a query has a case in the client and in applyQueryParams.  The
\* others lose fields, see forward_enum_query.
Agreed(c) ==
    /\ SendsQuery(c) <=> BindsQuery(c)
    /\ SendsQuery(c) => \A f \in Fields \ c.path : f \in QueryFields(c) /\ Kind[f] \notin {"enum", "repeated"}

\* What a generated client has sent.
SentInv ==
    phase # "call" /\ caller.client # "http" =>
        /\ path = [f \in caller.path |-> msg[f]]
        /\ IF SendsQuery(caller)
           THEN /\ DOMAIN query = {<<f, "json">> : f \in {g \in QueryFields(caller) : msg[g] # 0}}
                /\ \A k \in DOMAIN query : query[k] = <<msg[k[1]]>>
           ELSE body = Message(msg)

\* An agreed call is on its way to its RPC, whole, and is not turned away.
ArrivalInv ==
    caller.client # "http" /\ Agreed(caller) =>
        /\ phase = "forward" => bound = msg
        /\ seen # <<>> => seen[1] = msg
        /\ phase \in {"relay", "panicked", "sent", "parse", "done"} => seen # <<>>

LEMMA SentStep ==
    ASSUME IInv, SentInv, [Next]_vars
    PROVE  SentInv'
<1>1. CASE ClientCall
  BY <1>1 DEF ClientCall, SentInv, SendsQuery, QueryFields, Kind, Fields
<1>2. CASE HttpCall
  BY <1>2 DEF HttpCall, SentInv
<1>3. CASE BindQuery \/ ApplyKey \/ QueryApplied \/ BindBody \/ Serve \/ Relay \/ Dropped \/ Lost
           \/ Arrives \/ Parse \/ UNCHANGED vars
  <2>1. UNCHANGED request /\ (phase # "call" \/ UNCHANGED phase)
    BY <1>3 DEF BindQuery, ApplyKey, QueryApplied, BindBody, Serve, Relay, Dropped, Lost, Arrives, Parse, vars,
                request
  <2> QED
    BY <2>1 DEF SentInv, SendsQuery, QueryFields, Kind, Fields, request
<1> QED
  BY <1>1, <1>2, <1>3 DEF Next, Done

\* In an agreed call the loop over the query ends with the message.
LEMMA QueryArrives ==
    ASSUME IInv, SentInv, phase = "query", todo = {}, caller.client # "http", Agreed(caller)
    PROVE  bound = msg
<1>1. caller \in Callers /\ path \in [caller.path -> 0 .. NotUtf8] /\ BindsQuery(caller)
  BY DEF IInv, TypeOK, RequestInv, BindingInv
<1>2. /\ path = [f \in caller.path |-> msg[f]]
      /\ DOMAIN query = {<<f, "json">> : f \in {g \in QueryFields(caller) : msg[g] # 0}}
      /\ \A k \in DOMAIN query : query[k] = <<msg[k[1]]>>
  BY <1>1 DEF SentInv, Agreed
<1>3. msg \in [Fields -> Int] /\ \A f \in Fields : Parses(Kind[f], msg[f])
  BY BoundsAssumption DEF IInv, TypeOK, Messages, NotANumber
<1>4. bound = [f \in Fields |-> bound[f]] /\ msg = [f \in Fields |-> msg[f]]
  BY <1>3 DEF IInv, TypeOK
<1>5. ASSUME NEW f \in Fields PROVE bound[f] = msg[f]
  <2>1. FieldInv(f)
    BY DEF IInv, BindingInv
  <2>2. CASE f \in caller.path
    <3>1. Literal[f] = msg[f]
      BY <1>1, <1>2, <2>2, LiteralTyped
    <3>2. CASE msg[f] # 0
      BY <2>1, <3>1, <3>2 DEF FieldInv
    <3>3. CASE msg[f] = 0
      <4>1. \A k \in DOMAIN query : k[1] # f
        BY <1>2, <3>3
      <4>2. Kind[f] # "enum" /\ ~Ambiguous(f)
        BY <1>1, <1>2, <2>2, CallersAssumption DEF Ambiguous, Kind, Fields
      <4> QED
        BY <2>1, <3>1, <3>3, <4>1, <4>2, NotAsked DEF FieldInv
    <3> QED
      BY <3>2, <3>3
  <2>3. CASE f \notin caller.path
    <3>1. Literal[f] = 0
      BY <2>3 DEF Literal
    <3>2. f \in QueryFields(caller) /\ Kind[f] # "enum"
      BY <1>1, <2>3 DEF Agreed
    <3>3. ~Ambiguous(f)
      BY <1>2 DEF Ambiguous
    <3>4. bound[f] = Asked(f)
      BY <2>1, <3>1, <3>2, <3>3 DEF FieldInv
    <3>5. CASE msg[f] = 0
      <4>1. \A k \in DOMAIN query : k[1] # f
        BY <1>2, <3>5
      <4> QED
        BY <3>4, <3>5, <4>1, NotAsked
    <3>6. CASE msg[f] # 0
      <4> DEFINE k == <<f, "json">>
      <4>1. k \in DOMAIN query /\ k[1] = f
        BY <1>2, <3>2, <3>6
      <4>2. query[k] = <<msg[f]>>
        BY <1>2, <4>1
      <4>3. Len(query[k]) = 1 /\ query[k][1] = msg[f]
        BY <4>2
      <4>4. DOMAIN query \subseteq Keys
        BY DEF IInv, RequestInv
      <4>5. Asked(f) = IF Len(query[k]) = 1 /\ Parses(Kind[f], query[k][1]) THEN query[k][1] ELSE 0
        BY <3>3, <4>1, <4>4, AskedByItsKey
      <4> QED
        BY <1>3, <3>4, <4>3, <4>5
    <3> QED
      BY <3>5, <3>6
  <2> QED
    BY <2>2, <2>3
<1> QED
  BY <1>4, <1>5

LEMMA ArrivalStep ==
    ASSUME IInv, SentInv, ArrivalInv, [Next]_vars
    PROVE  ArrivalInv'
<1> SUFFICES ASSUME caller'.client # "http", Agreed(caller)'
             PROVE  /\ phase' = "forward" => bound' = msg'
                    /\ seen' # <<>> => seen'[1] = msg'
                    /\ phase' \in {"relay", "panicked", "sent", "parse", "done"} => seen' # <<>>
  BY DEF ArrivalInv
<1>1. CASE ClientCall \/ HttpCall
  BY <1>1 DEF ClientCall, HttpCall, IInv, RequestInv
<1>2. CASE ~(ClientCall \/ HttpCall)
  <2>1. UNCHANGED request
    BY <1>2 DEF Next, Done, BindQuery, ApplyKey, QueryApplied, BindBody, Serve, Relay, Dropped, Lost, Arrives, Parse,
                vars, request
  <2>2. caller' = caller /\ msg' = msg /\ caller.client # "http"
    BY <2>1 DEF request
  <2>3. Agreed(caller)
    BY <2>2 DEF Agreed, SendsQuery, BindsQuery, QueryFields, Fields, Kind
  <2>4. /\ phase = "forward" => bound = msg
        /\ seen # <<>> => seen[1] = msg
        /\ phase \in {"relay", "panicked", "sent", "parse", "done"} => seen # <<>>
    BY <2>2, <2>3 DEF ArrivalInv
  <2>5. CASE BindQuery
    BY <2>5 DEF BindQuery, IInv, RequestInv
  <2>6. CASE ApplyKey
    <3>1. phase = "query" /\ seen' = <<>> /\ BindsQuery(caller)
      BY <2>6 DEF ApplyKey, IInv, RequestInv, BindingInv
    <3>2. PICK k \in todo : \/ phase' = phase
                            \/ Usable(k) /\ Kind[k[1]] = "repeated"
      BY <2>6 DEF ApplyKey
    <3>3. ~(Usable(k) /\ Kind[k[1]] = "repeated")
      <4>1. k \in DOMAIN query
        BY DEF IInv, RequestInv
      <4>2. /\ SendsQuery(caller)
            /\ DOMAIN query = {<<f, "json">> : f \in {g \in QueryFields(caller) : msg[g] # 0}}
        BY <2>2, <2>3, <3>1 DEF SentInv, Agreed
      <4>3. k[1] \in Fields \ caller.path
        BY <4>1, <4>2 DEF QueryFields
      <4> QED
        BY <2>3, <4>2, <4>3 DEF Agreed
    <3> QED
      BY <3>1, <3>2, <3>3
  <2>7. CASE QueryApplied
    <3>1. bound = msg
      BY <2>2, <2>3, <2>7, QueryArrives DEF QueryApplied
    <3> QED
      BY <2>2, <2>7, <3>1 DEF QueryApplied, IInv, RequestInv
  <2>8. CASE BindBody
    <3>1. phase = "bind" /\ ~BindsQuery(caller) /\ seen' = <<>>
      BY <2>8 DEF BindBody, IInv, RequestInv
    <3>2. body = Message(msg) /\ path = [f \in caller.path |-> msg[f]]
      BY <2>2, <2>3, <3>1 DEF SentInv, Agreed
    <3>3. IsMessage(body) /\ body.message = msg
      BY <3>2 DEF Message, IsMessage
    <3>4. phase' = "forward" /\ bound' = Merge(msg, Literal)
      BY <2>8, <3>3 DEF BindBody
    <3>5. Merge(msg, Literal) = msg
      <4>1. caller \in Callers /\ path \in [caller.path -> 0 .. NotUtf8] /\ msg = [f \in Fields |-> msg[f]]
        BY <3>1 DEF IInv, TypeOK, RequestInv, Messages
      <4>2. \A f \in Fields : Literal[f] # 0 => Literal[f] = msg[f]
        BY <3>2, <4>1 DEF Literal
      <4>3. Merge(msg, Literal) = [f \in Fields |-> msg[f]]
        BY <4>2 DEF Merge
      <4> QED
        BY <4>1, <4>3
    <3> QED
      BY <2>2, <3>1, <3>4, <3>5
  <2>9. CASE Serve
    <3>1. phase = "forward" /\ bound = msg
      BY <2>4, <2>9 DEF Serve
    <3>2. \A f \in Fields : bound[f] # NotUtf8
      <4>1. \A f \in Fields : msg[f] \in 0 .. NotANumber
        BY DEF IInv, TypeOK, Messages
      <4>2. \A v \in 0 .. NotANumber : v # NotUtf8
        BY BoundsAssumption DEF NotANumber, NotUtf8
      <4> QED
        BY <3>1, <4>1, <4>2
    <3>3. seen' = <<bound>> /\ phase' \in {"relay", "panicked"}
      BY <2>9, <3>2 DEF Serve
    <3> QED
      BY <2>2, <3>1, <3>3
  <2>10. CASE Relay \/ Dropped \/ Lost \/ Arrives \/ Parse \/ UNCHANGED vars
    <3>1. /\ seen' = seen
          /\ \/ phase' \in {"sent", "parse", "done"} /\ phase \in {"relay", "panicked", "sent", "parse"}
             \/ phase' = phase /\ bound' = bound
      BY <2>10 DEF Relay, Dropped, Lost, Arrives, Parse, vars
    <3> QED
      BY <2>2, <2>4, <3>1
  <2> QED
    BY <1>2, <2>5, <2>6, <2>7, <2>8, <2>9, <2>10 DEF Next, Done
<1> QED
  BY <1>1, <1>2

\* Of a generated client that agrees with its handler no field is lost, the
\* request is not refused and its handler does not panic on the way to the RPC.
THEOREM AgreedFieldsArrive == Spec => [](Agreed(caller) => FieldsArrive)
<1>1. Init => IInv /\ SentInv /\ ArrivalInv
  BY TypesInit DEF Init, IInv, BindingInv, SentInv, ArrivalInv
<1>2. IInv /\ SentInv /\ ArrivalInv /\ [Next]_vars => (IInv /\ SentInv /\ ArrivalInv)'
  BY TypesStep, BindingStep, SentStep, ArrivalStep DEF IInv
<1>3. ArrivalInv => (Agreed(caller) => FieldsArrive)
  BY DEF ArrivalInv, FieldsArrive, Ran
<1> QED
  BY <1>1, <1>2, <1>3, PTL DEF Spec

-----------------------------------------------------------------------------
\* What the client is told.

\* An answer on its way is the relayed outcome of an RPC that ran, or nothing
\* that a client takes for a success.
Truthful(w) == Ran /\ outcome \in Replies \cup Failures \cup Strangers /\ w = Relayed(outcome)
Unanswered(w) == w.body \in {Text, Empty} /\ (w.status = 0 \/ w.status >= 300)

AnswerInv ==
    /\ phase = "relay" => Ran /\ outcome \in Replies \cup Failures \cup Strangers
    /\ phase \in {"sent", "parse"} => Truthful(wire) \/ Unanswered(wire)
    /\ AnswersAreHonest

\* Every error code travels under a status of its own kind.
LEMMA ErrorStatus == \A code : StatusOf(code) \in 400 .. 504
BY DEF StatusOf

LEMMA Bodies ==
    /\ ~IsMessage(Text) /\ ~IsError(Text) /\ ~IsMessage(Empty) /\ ~IsError(Empty)
    /\ \A m : IsMessage(Message(m)) /\ ~IsError(Message(m))
    /\ \A c : IsError(Error(c)) /\ ~IsMessage(Error(c)) /\ Error(c).error = c
BY DEF IsMessage, IsError, Text, Empty, Message, Error

\* What a relayed answer can be.
LEMMA RelayedAnswers ==
    ASSUME NEW out \in Replies \cup Failures \cup Strangers
    PROVE  \/ out \in Replies /\ Relayed(out) = out /\ out.status = 200 /\ IsMessage(out.body)
           \/ out \in Failures /\ Relayed(out) = out /\ out.status \in 400 .. 504 /\ IsError(out.body)
           \/ out \in Strangers /\ Relayed(out).status \in 400 .. 504 /\ Relayed(out).body = Text
<1>1. CASE out \in Replies
  BY <1>1, Bodies DEF Replies, Relayed
<1>2. CASE out \in Failures
  BY <1>2, Bodies, ErrorStatus DEF Failures, Relayed
<1>3. CASE out \in Strangers
  BY <1>3, Bodies DEF Strangers, Relayed
<1> QED
  BY <1>1, <1>2, <1>3

\* The answer a client reads off what arrived is honest.
LEMMA ParseHonest ==
    ASSUME AnswerInv, Parse
    PROVE  AnswersAreHonest'
<1>1. /\ phase = "parse" /\ seen' = seen /\ outcome' = outcome /\ wire' = wire
      /\ Truthful(wire) \/ Unanswered(wire)
  BY DEF Parse, AnswerInv
<1>2. /\ wire.status = 0 => answer' = Error("transport")
      /\ wire.status # 0 /\ wire.status >= 300 => answer' = Error(parseErrorResponse(wire.status, wire.body))
      /\ wire.status # 0 /\ ~(wire.status >= 300) /\ IsMessage(wire.body) => answer' = wire.body
  BY DEF Parse
<1>3. CASE Unanswered(wire)
  <2>1. IsError(answer') /\ ~IsMessage(answer')
    BY <1>2, <1>3, Bodies DEF Unanswered
  <2>2. ~(outcome \in Failures /\ wire = outcome)
    <3>1. \A o \in Failures : IsError(o.body)
      BY Bodies DEF Failures
    <3> QED
      BY <1>3, <3>1, Bodies DEF Unanswered
  <2> QED
    BY <1>1, <2>1, <2>2 DEF AnswersAreHonest, Failures
<1>4. CASE Truthful(wire)
  <2>1. Ran /\ Ran'
    BY <1>1, <1>4 DEF Truthful, Ran
  <2>2. CASE outcome \in Replies /\ wire = outcome /\ wire.status = 200 /\ IsMessage(wire.body)
    <3>1. answer' = wire.body
      BY <1>2, <2>2
    <3>2. outcome = [status |-> 200, body |-> wire.body]
      BY <2>2 DEF Replies
    <3>3. outcome \notin Failures
      BY <2>2, Bodies DEF Failures
    <3> QED
      BY <1>1, <2>1, <3>1, <3>2, <3>3 DEF AnswersAreHonest, Failures
  <2>3. CASE outcome \in Failures /\ wire = outcome /\ wire.status \in 400 .. 504 /\ IsError(wire.body)
    <3>1. answer' = Error(parseErrorResponse(wire.status, wire.body))
      BY <1>2, <2>3
    <3>2. outcome.body.error \in connectCodes => answer' = outcome.body
      <4>1. outcome.body = Error(outcome.body.error)
        BY <2>3, Bodies DEF Failures
      <4> QED
        BY <2>3, <3>1, <4>1 DEF parseErrorResponse
    <3> QED
      BY <1>1, <2>1, <3>1, <3>2, Bodies DEF AnswersAreHonest
  <2>4. CASE outcome \in Strangers /\ wire.status \in 400 .. 504 /\ wire.body = Text
    <3>1. answer' = Error(parseErrorResponse(wire.status, wire.body))
      BY <1>2, <2>4
    <3>2. outcome \notin Failures
      BY <2>4, Bodies DEF Strangers, Failures
    <3> QED
      BY <1>1, <2>1, <3>1, <3>2, Bodies DEF AnswersAreHonest, Failures
  <2> QED
    BY <1>4, <2>2, <2>3, <2>4, RelayedAnswers DEF Truthful
<1> QED
  BY <1>1, <1>3, <1>4

LEMMA AnswerStep ==
    ASSUME AnswerInv, [Next]_vars
    PROVE  AnswerInv'
<1>1. CASE Parse
  <2>1. phase' = "done"
    BY <1>1 DEF Parse
  <2> QED
    BY <1>1, <2>1, ParseHonest DEF AnswerInv
<1>2. CASE ClientCall \/ HttpCall \/ BindQuery \/ QueryApplied \/ ApplyKey
  <2>1. phase' \notin {"relay", "sent", "parse", "done"}
    BY <1>2 DEF ClientCall, HttpCall, BindQuery, QueryApplied, ApplyKey
  <2> QED
    BY <2>1 DEF AnswerInv, AnswersAreHonest
<1>3. CASE BindBody
  <2>1. \/ phase' = "forward"
        \/ phase' = "sent" /\ wire' = [status |-> 400, body |-> Text]
    BY <1>3 DEF BindBody, Refused
  <2> QED
    BY <2>1 DEF AnswerInv, AnswersAreHonest, Unanswered
<1>4. CASE Serve
  <2>1. \/ phase' = "sent" /\ wire' = [status |-> 400, body |-> Text]
        \/ phase' = "relay" /\ seen' = <<bound>> /\ outcome' \in Replies \cup Failures \cup Strangers
        \/ phase' = "panicked"
    BY <1>4 DEF Serve, Refused
  <2>2. phase' = "relay" => Ran' /\ outcome' \in Replies' \cup Failures' \cup Strangers'
    BY <2>1 DEF Ran, Replies, Failures, Strangers
  <2> QED
    BY <2>1, <2>2 DEF AnswerInv, AnswersAreHonest, Unanswered
<1>5. CASE Relay
  <2>1. phase' = "sent" /\ Truthful(wire)'
    BY <1>5 DEF Relay, AnswerInv, Truthful, Ran, Relayed, Replies, Failures, Strangers
  <2> QED
    BY <2>1 DEF AnswerInv, AnswersAreHonest
<1>6. CASE Dropped
  <2>1. phase' = "sent" /\ wire' = [status |-> 0, body |-> Empty]
    BY <1>6 DEF Dropped, None
  <2> QED
    BY <2>1 DEF AnswerInv, AnswersAreHonest, Unanswered
<1>7. CASE Lost
  <2>1. phase' = "parse" /\ wire'.body = Text /\ wire'.status \in {0, 502, 503}
    BY <1>7 DEF Lost
  <2> QED
    BY <2>1 DEF AnswerInv, AnswersAreHonest, Unanswered
<1>8. CASE Arrives
  <2>1. phase = "sent" /\ phase' = "parse" /\ UNCHANGED <<seen, outcome, wire>>
    BY <1>8 DEF Arrives
  <2>2. Truthful(wire)' \/ Unanswered(wire)'
    BY <2>1 DEF AnswerInv, Truthful, Unanswered, Ran
  <2> QED
    BY <2>1, <2>2 DEF AnswerInv, AnswersAreHonest
<1>9. CASE UNCHANGED vars
  BY <1>9 DEF vars, AnswerInv, AnswersAreHonest, Truthful, Unanswered, Ran
<1> QED
  BY <1>1, <1>2, <1>3, <1>4, <1>5, <1>6, <1>7, <1>8, <1>9 DEF Next, Done

\* A client is told of success only with the message of an RPC that replied, of
\* a request that never ran as an error, and of an RPC's code as it is.
THEOREM ClientsAreToldTheTruth == Spec => []AnswersAreHonest
<1>1. Init => AnswerInv
  BY DEF Init, AnswerInv, AnswersAreHonest
<1>2. AnswerInv /\ [Next]_vars => AnswerInv'
  BY AnswerStep
<1> QED
  BY <1>1, <1>2, PTL DEF Spec, AnswerInv
=============================================================================
