-------------------------- MODULE EventStreamProofs --------------------------
(***************************************************************************)
(* What the two stream parsers give their caller, for every stream, every  *)
(* way to cut it into chunks and every place where it stops.               *)
(*                                                                         *)
(* The argument: the parser is always at a place of the wire, so many      *)
(* events behind it and so many lines of the next, and what it holds is    *)
(* what those events and lines say.                                        *)
(***************************************************************************)
EXTENDS EventStream, SharedFacts

\* No line end of the parser's is a character of the data: TypeScript splits at
\* newlines, which JSON escapes, Python at U+2028 as well, which it does not.
Uncut ==
    client = "py" =>
        \A i \in DOMAIN events : \A k \in DOMAIN events[i].lines :
            \A j \in DOMAIN events[i].lines[k] : events[i].lines[k][j] # "ls"

\* Tokens; the named ones are strings, which the provers have to be told.
Lexeme == {": ", ":flags ", "data: ", "0", "2", "nl", "cr", "bad"} \cup STRING

\* The tokens a leaf may name are tokens.
LEMMA Lexemes ==
    /\ ": " \in Lexeme /\ ":flags " \in Lexeme /\ "data: " \in Lexeme /\ "nl" \in Lexeme
    /\ "cr" \in Lexeme /\ "bad" \in Lexeme /\ "0" \in Lexeme /\ "2" \in Lexeme
    /\ STRING \subseteq Lexeme
BY Zenon DEF Lexeme

-----------------------------------------------------------------------------
\* Places.

LinesOf(i) == events[i].lines
LastLine(i) == Len(LinesOf(i)) + 2

\* Line l of event i, without its end: the flags, the data, the blank.
SentLine(i, l) ==
    IF l = 1 THEN <<":flags ", events[i].flags>>
    ELSE IF l = LastLine(i) THEN <<>>
    ELSE <<"data: ">> \o LinesOf(i)[l - 1]

DataTokens(i) == [k \in DOMAIN LinesOf(i) |-> <<"data: ">> \o LinesOf(i)[k] \o eol]

\* The tokens ahead of line l + 1 of event n + 1.
Offset(n, l) ==
    Len(WireOf(n)) + IF l = 0 THEN 0
                     ELSE 2 + Len(eol) + Len(FlattenSeq(Beginning(DataTokens(n + 1), l - 1)))

\* n events are behind the parser; of the rest at least one is not whole.
Behind(n) ==
    /\ n \in 0 .. Len(events)
    /\ n = 0 \/ Len(WireOf(n)) <= pos
    /\ n = Len(events) \/ Len(WireOf(n + 1)) > pos

\* What the caller got, or will at the end of the chunk, is what n events say.
Taken(n) ==
    /\ \A j \in 1 .. n : ~IsBad(j)
    /\ yielded \o pending = Messages(n)
    /\ client = "py" => pending = <<>> /\ trailer = "none" /\ Verdict(n) = "ok"
    /\ client = "ts" => trailer = IF Verdict(n) = "ok" THEN "none" ELSE Verdict(n)

\* The buffer holds the beginning of the line, which is not whole.
Buffered(line) ==
    /\ Len(buffer) < Len(line \o eol)
    /\ \A j \in 1 .. Len(buffer) : buffer[j] = (line \o eol)[j]

\* l lines of event n + 1 are in hand.
Hand(n, l) ==
    IF l = 0 THEN flags = "0" /\ data = <<>>
             ELSE flags = events[n + 1].flags /\ data = Beginning(LinesOf(n + 1), l - 1)

\* The parser is in the comment ahead of the events, or in line l + 1 of event
\* n + 1, with the lines ahead of it in hand.
InComment ==
    /\ pos = Len(buffer) /\ Buffered(<<": ">>)
    /\ Taken(0) /\ Hand(0, 0)

AtLine(n, l) ==
    /\ n \in 0 .. Len(events) /\ l \in Nat
    /\ IF n = Len(events) THEN l = 0 /\ buffer = <<>>
                          ELSE l < LastLine(n + 1) /\ Buffered(SentLine(n + 1, l + 1))
    /\ pos = Offset(n, l) + Len(buffer)
    /\ Taken(n) /\ Hand(n, l)

\* After the end, m events are taken, one of them perhaps without its last
\* line end; what is left of another does not parse, or parses to its word.
Ended(n, m) ==
    /\ Behind(n) /\ m \in {n, n + 1} /\ m <= Len(events) /\ Taken(m)
    /\ \/ data = <<>>
       \/ /\ phase = "blank" \/ client = "py"
          /\ m = n /\ m < Len(events) /\ flags = events[m + 1].flags
          /\ Word(FlattenSeq(data)) \in {"bad", WordOf(m + 1)}

\* How a stream ends: message m + 1 does not parse.
Undecoded(m) ==
    /\ result = "decoding" /\ m \in 0 .. Len(events) /\ m # Len(events) /\ IsBad(m + 1)
    /\ yielded \o pending = Messages(m)
    /\ client = "py" => pending = <<>>

\* What arrived last does not parse; TypeScript takes it for a message.
Truncated(m) ==
    /\ result = "decoding" /\ client = "ts"
    /\ m \in 0 .. Len(events) /\ m # Len(events) /\ Behind(m) /\ pos = received
    /\ yielded \o pending = Messages(m)

\* The trailer's error is raised, or the connection breaks, or neither.
Raised(m) ==
    /\ result = Verdict(m) /\ result \in Codes /\ m = Len(events)
    /\ \A j \in 1 .. m : ~IsBad(j)
    /\ yielded = Messages(m) /\ pending = <<>>

Broken(m) ==
    /\ result = "transport" /\ m \in 0 .. Len(events)
    /\ yielded = Messages(m) /\ pending = <<>>

Finished(m) ==
    /\ result = "ok" /\ Verdict(m) = "ok" /\ m \in 0 .. Len(events) /\ pos = received
    /\ \A j \in 1 .. m : ~IsBad(j)
    /\ yielded = Messages(m) /\ pending = <<>>

\* The caller has been told, when n events were behind the parser.
EndedFor(n, m) ==
    /\ Behind(n) /\ m \in 0 .. Len(events)
    /\ \/ Undecoded(m) /\ n \in {m, m + 1}
       \/ Truncated(m) /\ n = m
       \/ n <= m /\ (Raised(m) \/ Broken(m) \/ Finished(m))

SourceOK == client \in Clients /\ events \in Streams /\ eol \in LineEnds

ParserOK ==
    /\ flags \in {"0", "2"} /\ data \in Seq(Seq(Lexeme))
    /\ pending \in Seq(Lexeme) /\ yielded \in Seq(Lexeme)
    /\ trailer \in Codes \cup {"none"}
    /\ result \in Codes \cup {"reading", "ok", "decoding", "transport"}

StateOK ==
    /\ buffer \in Seq(Lexeme) /\ ParserOK
    /\ phase # "parse" => pos = received
    /\ Reading /\ phase = "read" => pending = <<>> /\ trailer = "none"

Placed ==
    /\ Reading /\ phase \in {"read", "parse"} =>
          InComment \/ \E n \in 0 .. Len(events) : \E l \in Nat : AtLine(n, l)
    /\ Reading /\ phase \in {"blank", "last"} =>
          \E n \in 0 .. Len(events) : \E m \in 0 .. Len(events) : Ended(n, m)
    /\ ~Reading => \E n : \E m : EndedFor(n, m)

StreamInv == SourceOK /\ (Uncut => TypeOK /\ StateOK /\ Placed)

-----------------------------------------------------------------------------
\* The wire.

\* What the assumption says of the stream being sent.
LEMMA StreamFacts ==
    ASSUME SourceOK
    PROVE  /\ Len(events) \in Nat /\ DOMAIN events = 1 .. Len(events)
           /\ \A i \in 1 .. Len(events) :
                /\ events[i].flags \in {"0", "2"}
                /\ events[i].flags = "2" => i = Len(events)
                /\ LinesOf(i) \in Seq(Seq(Lexeme)) /\ LinesOf(i) # <<>>
           /\ eol \in Seq(Lexeme) /\ Len(eol) \in {1, 2}
           /\ eol = <<"nl">> \/ eol = <<"cr", "nl">>
<1>1. events \in Seq([flags : {"0", "2"}, lines : Seq(Seq(STRING)) \ {<<>>}])
  BY StreamsAssumption DEF SourceOK
<1>2. \A i \in DOMAIN events : events[i].flags = "2" => i = Len(events)
  BY StreamsAssumption DEF SourceOK
<1>3. eol = <<"nl">> \/ eol = <<"cr", "nl">>
  BY LineEndsAssumption DEF SourceOK
<1>4. eol \in Seq(Lexeme) /\ Len(eol) \in {1, 2}
  <2>1. <<"nl">> \in Seq(Lexeme) /\ Len(<<"nl">>) = 1
    BY Lexemes, OneOf, Zenon
  <2>2. <<"cr", "nl">> \in Seq(Lexeme) /\ Len(<<"cr", "nl">>) = 2
    BY Lexemes, TwoOf, Zenon
  <2>3. CASE eol = <<"nl">>
    BY <2>1, <2>3
  <2>4. CASE eol = <<"cr", "nl">>
    BY <2>2, <2>4
  <2> QED
    BY <1>3, <2>3, <2>4
<1>5. /\ Len(events) \in Nat /\ DOMAIN events = 1 .. Len(events)
      /\ \A i \in 1 .. Len(events) : events[i] \in [flags : {"0", "2"}, lines : Seq(Seq(STRING)) \ {<<>>}]
  BY <1>1, ElementOf, Zenon
<1>6. ASSUME NEW i \in 1 .. Len(events)
      PROVE  events[i].flags \in {"0", "2"} /\ LinesOf(i) \in Seq(Seq(Lexeme)) /\ LinesOf(i) # <<>>
  <2>1. Seq(STRING) \subseteq Seq(Lexeme)
    BY Lexemes, LargerSet, Zenon
  <2>2. Seq(Seq(STRING)) \subseteq Seq(Seq(Lexeme))
    BY <2>1, LargerSet, Zenon
  <2>3. /\ events[i].flags \in {"0", "2"} /\ events[i].lines \in Seq(Seq(STRING)) \ {<<>>}
    BY <1>5
  <2> QED
    BY <2>2, <2>3, Zenon DEF LinesOf
<1> QED
  BY <1>2, <1>3, <1>4, <1>5, <1>6

\* A line of data: no line end of the wire in it, a closing brace only at the end.
LEMMA LineFacts ==
    ASSUME SourceOK, NEW i \in 1 .. Len(events), NEW k \in 1 .. Len(LinesOf(i))
    PROVE  /\ LinesOf(i)[k] \in Seq(Lexeme \ {"nl", "cr"})
           /\ LinesOf(i)[k] \in Seq(Lexeme)
           /\ \A j \in 1 .. Len(LinesOf(i)[k]) :
                LinesOf(i)[k][j] = "}" => k = Len(LinesOf(i)) /\ j = Len(LinesOf(i)[k])
<1>1. i \in DOMAIN events /\ LinesOf(i) \in Seq(Seq(Lexeme))
  BY StreamFacts
<1>2. k \in DOMAIN LinesOf(i) /\ LinesOf(i)[k] \in Seq(Lexeme)
  BY <1>1, ElementOf
<1>3. \A j \in DOMAIN LinesOf(i)[k] :
          /\ LinesOf(i)[k][j] \notin {"nl", "cr"}
          /\ LinesOf(i)[k][j] = "}" => k = Len(LinesOf(i)) /\ j = Len(LinesOf(i)[k])
  <2>1. k \in DOMAIN events[i].lines
    BY <1>2 DEF LinesOf
  <2> QED
    BY <1>1, <2>1, StreamsAssumption, ZenonT(60) DEF SourceOK, LinesOf
<1>4. /\ DOMAIN LinesOf(i)[k] = 1 .. Len(LinesOf(i)[k])
      /\ \A j \in 1 .. Len(LinesOf(i)[k]) : LinesOf(i)[k][j] \in Lexeme
  BY <1>2, ElementOf
<1>5. \A j \in 1 .. Len(LinesOf(i)[k]) : LinesOf(i)[k][j] \in Lexeme \ {"nl", "cr"}
  BY <1>3, <1>4
<1>6. LinesOf(i)[k] \in Seq(Lexeme \ {"nl", "cr"})
  BY <1>2, <1>5, Retyped
<1> QED
  BY <1>2, <1>3, <1>4, <1>6, Zenon

\* The tokens of an event, line by line.
LEMMA DataType ==
    ASSUME SourceOK, NEW i \in 1 .. Len(events)
    PROVE  /\ Len(LinesOf(i)) \in Nat \ {0}
           /\ DataTokens(i) \in [1 .. Len(LinesOf(i)) -> Seq(Lexeme)]
           /\ FlattenSeq(DataTokens(i)) \in Seq(Lexeme)
<1>1. LinesOf(i) \in Seq(Seq(Lexeme)) /\ LinesOf(i) # <<>> /\ eol \in Seq(Lexeme)
  BY StreamFacts
<1>2. Len(LinesOf(i)) \in Nat \ {0} /\ DOMAIN LinesOf(i) = 1 .. Len(LinesOf(i))
  BY <1>1
<1>3. DataTokens(i) \in [1 .. Len(LinesOf(i)) -> Seq(Lexeme)]
  <2>1. ASSUME NEW k \in 1 .. Len(LinesOf(i)) PROVE <<"data: ">> \o LinesOf(i)[k] \o eol \in Seq(Lexeme)
    <3>1. LinesOf(i)[k] \in Seq(Lexeme) /\ <<"data: ">> \in Seq(Lexeme)
      BY LineFacts, Lexemes, OneOf
    <3> QED
      BY <1>1, <3>1, Concatenated, Zenon
  <2> QED
    BY <1>2, <2>1 DEF DataTokens
<1>4. DataTokens(i) \in Seq(Seq(Lexeme))
  BY <1>2, <1>3
<1> QED
  BY <1>2, <1>3, <1>4, FlattenType

\* An event on the wire: the flags line, the lines of its data, a blank line.
LEMMA EncodeIs ==
    ASSUME SourceOK, NEW i \in 1 .. Len(events)
    PROVE  /\ Encode(events[i]) =
                <<":flags ", events[i].flags>> \o eol \o FlattenSeq(DataTokens(i)) \o eol
           /\ Encode(events[i]) \in Seq(Lexeme)
<1>1. Encode(events[i]) = <<":flags ", events[i].flags>> \o eol \o FlattenSeq(DataTokens(i)) \o eol
  BY DEF Encode, DataTokens, LinesOf
<1>2. /\ <<":flags ", events[i].flags>> \in Seq(Lexeme)
      /\ eol \in Seq(Lexeme) /\ FlattenSeq(DataTokens(i)) \in Seq(Lexeme)
  <2>1. ":flags " \in Lexeme /\ events[i].flags \in Lexeme
    BY StreamFacts, Lexemes
  <2>2. <<":flags ", events[i].flags>> \in Seq(Lexeme)
    BY <2>1, TwoOf, Zenon
  <2> QED
    BY <2>2, StreamFacts, DataType
<1> QED
  <2> DEFINE f == FlattenSeq(DataTokens(i))
             h == <<":flags ", events[i].flags>>
  <2>1. f \in Seq(Lexeme) /\ h \in Seq(Lexeme) /\ eol \in Seq(Lexeme)
    BY <1>2
  <2> HIDE DEF f, h
  <2>2. h \o eol \o f \o eol \in Seq(Lexeme)
    BY <2>1
  <2> QED
    BY <1>1, <2>2 DEF f, h

\* The wire is the keep-alive comment and one event after the other.
LEMMA WireNext ==
    ASSUME SourceOK
    PROVE  /\ \A n \in 0 .. Len(events) : WireOf(n) \in Seq(Lexeme)
           /\ WireOf(0) = <<": ">> \o eol
           /\ \A n \in 0 .. Len(events) : Within(WireOf(n), 0, Wire)
           /\ \A n \in 0 .. Len(events) : n # Len(events) =>
                /\ WireOf(n + 1) = WireOf(n) \o Encode(events[n + 1])
                /\ Within(Encode(events[n + 1]), Len(WireOf(n)), Wire)
<1> DEFINE N == Len(events)
           enc == [i \in 1 .. N |-> Encode(events[i])]
           head == <<": ">> \o eol
<1>1. N \in Nat /\ enc \in [1 .. N -> Seq(Lexeme)] /\ head \in Seq(Lexeme)
  <2>1. <<": ">> \in Seq(Lexeme)
    BY Lexemes, OneOf, Zenon
  <2>2. head \in Seq(Lexeme) /\ N \in Nat
    BY <2>1, StreamFacts, Concatenated
  <2> QED
    BY <2>2, EncodeIs
<1>2. ASSUME NEW n \in 0 .. N
      PROVE  /\ WireOf(n) = head \o FlattenSeq(Beginning(enc, n))
             /\ FlattenSeq(Beginning(enc, n)) \in Seq(Lexeme)
             /\ WireOf(n) \in Seq(Lexeme)
  <2>1. Beginning(enc, n) = [i \in 1 .. n |-> Encode(events[i])]
    BY DEF Beginning
  <2>2. FlattenSeq(Beginning(enc, n)) \in Seq(Lexeme)
    BY <1>1, BeginningType
  <2>3. WireOf(n) = head \o FlattenSeq(Beginning(enc, n))
    BY <2>1, Zenon DEF WireOf
  <2> HIDE DEF enc, N, head
  <2> QED
    BY <1>1, <2>2, <2>3, Concatenated
<1>3. Wire = WireOf(N)
  BY DEF Wire
<1>4. N \in 0 .. N /\ 0 \in 0 .. N
  <2>1. N \in Nat
    BY StreamFacts
  <2> HIDE DEF N, enc, head
  <2> QED
    BY <2>1
<1>5. Beginning(enc, N) = enc
  <2> HIDE DEF N, enc
  <2> QED
    BY <1>1, <1>4, BeginningType, ZenonT(60)
<1>6. WireOf(0) = head
  <2>1. FlattenSeq(Beginning(enc, 0)) = <<>>
    BY FlattenEmpty DEF Beginning
  <2>2. head \o <<>> = head
    <3> HIDE DEF head
    <3> QED
      BY <1>1
  <2> HIDE DEF enc, N, head
  <2> QED
    BY <1>2, <1>4, <2>1, <2>2
<1>7. ASSUME NEW n \in 0 .. N PROVE Within(WireOf(n), 0, Wire)
  <2> DEFINE a == FlattenSeq(Beginning(enc, n))
             b == FlattenSeq(enc)
  <2>1. Within(a, 0, b)
    BY <1>1, FlattenPrefix
  <2>2. WireOf(n) = head \o a /\ Wire = head \o b /\ a \in Seq(Lexeme) /\ b \in Seq(Lexeme)
    BY <1>2, <1>3, <1>4, <1>5
  <2> HIDE DEF a, b, head, N
  <2>3. Within(head, 0, Wire) /\ Within(b, Len(head), Wire)
    BY <1>1, <2>2, WithinConcat
  <2>4. Len(WireOf(n)) <= Len(Wire)
    BY <1>1, <2>1, <2>2 DEF Within
  <2>5. ASSUME NEW j \in 1 .. Len(WireOf(n)) PROVE Wire[0 + j] = WireOf(n)[j]
    <3>1. CASE j <= Len(head)
      BY <1>1, <2>2, <3>1
    <3>2. CASE j > Len(head)
      <4>1. PICK k \in 1 .. Len(a) : j = Len(head) + k
        <5>1. Len(WireOf(n)) = Len(head) + Len(a) /\ Len(head) \in Nat /\ Len(a) \in Nat
          BY <1>1, <2>2, Concatenated, ElementOf
        <5>2. j - Len(head) \in 1 .. Len(a) /\ j = Len(head) + (j - Len(head))
          BY <3>2, <5>1
        <5> QED
          BY <5>2
      <4>2. b[k] = a[k] /\ k \in 1 .. Len(b)
        <5>1. b[0 + k] = a[k] /\ 0 + Len(a) <= Len(b)
          BY <2>1 DEF Within
        <5> QED
          BY <2>2, <5>1
      <4>3. WireOf(n)[Len(head) + k] = a[k] /\ Wire[Len(head) + k] = b[k]
        BY <1>1, <2>2, <4>1, <4>2
      <4> QED
        BY <1>1, <4>1, <4>2, <4>3
    <3> QED
      BY <1>1, <3>1, <3>2, ElementOf
  <2> QED
    BY <2>2, <2>4, <2>5 DEF Within
<1>8. ASSUME NEW n \in 0 .. N, n # N
      PROVE  /\ WireOf(n + 1) = WireOf(n) \o Encode(events[n + 1])
             /\ Within(Encode(events[n + 1]), Len(WireOf(n)), Wire)
  <2>1. n \in Nat /\ n < N /\ n + 1 \in 0 .. N /\ n + 1 \in 1 .. N /\ enc[n + 1] = Encode(events[n + 1])
    <3>1. n \in Nat /\ n < N /\ n + 1 \in 0 .. N /\ n + 1 \in 1 .. N
      <4>1. N \in Nat
        BY StreamFacts
      <4> HIDE DEF N, enc, head
      <4> QED
        BY <4>1, <1>8
    <3> QED
      BY <3>1, Zenon
  <2>2. FlattenSeq(Beginning(enc, n + 1)) = FlattenSeq(Beginning(enc, n)) \o enc[n + 1]
    <3> HIDE DEF enc, N
    <3> QED
      BY <1>1, <2>1, BeginningNext
  <2>3. /\ WireOf(n + 1) = head \o FlattenSeq(Beginning(enc, n + 1))
        /\ WireOf(n) = head \o FlattenSeq(Beginning(enc, n))
        /\ FlattenSeq(Beginning(enc, n)) \in Seq(Lexeme)
        /\ Encode(events[n + 1]) \in Seq(Lexeme)
    BY <1>2, <2>1, EncodeIs
  <2>4. WireOf(n + 1) = WireOf(n) \o Encode(events[n + 1])
    <3> DEFINE a == FlattenSeq(Beginning(enc, n))
               e == Encode(events[n + 1])
    <3>1. head \in Seq(Lexeme) /\ a \in Seq(Lexeme) /\ e \in Seq(Lexeme)
      BY <1>1, <2>3
    <3>2. WireOf(n + 1) = head \o (a \o e) /\ WireOf(n) = head \o a
      BY <2>1, <2>2, <2>3, Zenon
    <3> HIDE DEF enc, N, head, a, e
    <3>3. head \o (a \o e) = (head \o a) \o e
      BY <3>1, Associative
    <3> QED
      BY <3>2, <3>3 DEF e
  <2>5. WireOf(n) \in Seq(Lexeme) /\ WireOf(n + 1) \in Seq(Lexeme) /\ Wire \in Seq(Lexeme)
    BY <1>2, <1>3, <1>4, <2>1
  <2>6. Within(Encode(events[n + 1]), Len(WireOf(n)), WireOf(n + 1))
    BY <2>3, <2>4, <2>5, WithinConcat
  <2>7. Within(WireOf(n + 1), 0, Wire)
    BY <1>7, <2>1
  <2>8. Within(Encode(events[n + 1]), 0 + Len(WireOf(n)), Wire)
    BY <2>3, <2>5, <2>6, <2>7, WithinPart
  <2>9. 0 + Len(WireOf(n)) = Len(WireOf(n))
    BY <2>5
  <2> QED
    BY <2>4, <2>8, <2>9
<1> QED
  BY <1>2, <1>6, <1>7, <1>8

\* The places: behind n events and l lines comes line l + 1 of event n + 1.
LEMMA EncodeParts ==
    ASSUME SourceOK, NEW i \in 1 .. Len(events), NEW h, h = <<":flags ", events[i].flags>>,
           NEW f, f = FlattenSeq(DataTokens(i)), NEW e, e = Encode(events[i])
    PROVE  /\ h \in Seq(Lexeme) /\ f \in Seq(Lexeme) /\ e \in Seq(Lexeme) /\ Len(h) = 2
           /\ Within(h \o eol, 0, e)
           /\ Within(f, 2 + Len(eol), e)
           /\ Within(eol, 2 + Len(eol) + Len(f), e)
           /\ Len(e) = 2 + Len(eol) + Len(f) + Len(eol)
<1>1. eol \in Seq(Lexeme) /\ Len(eol) \in Nat
  BY StreamFacts
<1>2. h \in Seq(Lexeme) /\ Len(h) = 2
  <2>1. ":flags " \in Lexeme /\ events[i].flags \in Lexeme
    BY StreamFacts, Lexemes
  <2>2. <<":flags ", events[i].flags>> \in Seq(Lexeme) /\ Len(<<":flags ", events[i].flags>>) = 2
    BY <2>1, TwoOf, Zenon
  <2> QED
    BY <2>2
<1>3. f \in Seq(Lexeme)
  BY DataType
<1>4. e = h \o eol \o f \o eol
  BY EncodeIs, Zenon
<1>5. /\ e \in Seq(Lexeme) /\ Within(h \o eol, 0, e) /\ Within(f, Len(h) + Len(eol), e)
      /\ Within(eol, Len(h) + Len(eol) + Len(f), e)
      /\ Len(e) = Len(h) + Len(eol) + Len(f) + Len(eol)
  <2>1. eol \in Seq(Lexeme) /\ h \in Seq(Lexeme)
    BY <1>1, <1>2, Zenon
  <2>2. e \in Seq(Lexeme)
    BY <1>3, <1>4, <2>1, FourParts
  <2>3. Within(h \o eol, 0, e)
    BY <1>3, <1>4, <2>1, FourParts
  <2>4. Within(f, Len(h) + Len(eol), e)
    BY <1>3, <1>4, <2>1, FourParts
  <2>5. Within(eol, Len(h) + Len(eol) + Len(f), e)
    BY <1>3, <1>4, <2>1, FourParts
  <2>6. Len(e) = Len(h) + Len(eol) + Len(f) + Len(eol)
    <3>1. h \o eol \in Seq(Lexeme) /\ Len(h \o eol) = Len(h) + Len(eol)
      BY <2>1, Concatenated
    <3>2. h \o eol \o f \in Seq(Lexeme) /\ Len(h \o eol \o f) = Len(h \o eol) + Len(f)
      BY <1>3, <3>1, Concatenated
    <3>3. Len(h \o eol \o f \o eol) = Len(h \o eol \o f) + Len(eol)
      BY <2>1, <3>2, Concatenated
    <3> QED
      BY <1>4, <3>1, <3>2, <3>3
  <2> QED
    BY <2>2, <2>3, <2>4, <2>5, <2>6, Zenon
<1> QED
  BY <1>2, <1>3, <1>5, Zenon

\* The lines of an event: first the flags, then the data, last the blank one.
LEMMA SentLineIs ==
    ASSUME SourceOK, NEW i \in 1 .. Len(events), NEW l \in Nat, l < LastLine(i)
    PROVE  /\ SentLine(i, l + 1) \in Seq(Lexeme \ {"nl", "cr"})
           /\ SentLine(i, l + 1) \in Seq(Lexeme)
           /\ l = 0 => SentLine(i, l + 1) = <<":flags ", events[i].flags>>
           /\ l # 0 /\ l + 1 # LastLine(i) =>
                /\ l \in 1 .. Len(LinesOf(i))
                /\ SentLine(i, l + 1) = <<"data: ">> \o LinesOf(i)[l]
                /\ SentLine(i, l + 1) \o eol = DataTokens(i)[l]
           /\ l + 1 = LastLine(i) => SentLine(i, l + 1) = <<>> /\ l - 1 = Len(LinesOf(i)) /\ l # 0
<1>1. Len(LinesOf(i)) \in Nat \ {0} /\ DOMAIN LinesOf(i) = 1 .. Len(LinesOf(i))
  <2>1. LinesOf(i) \in Seq(Seq(Lexeme))
    BY StreamFacts
  <2> QED
    BY <2>1, DataType, ElementOf
<1>2. l + 1 = 1 <=> l = 0
  OBVIOUS
<1>3. LastLine(i) \in Nat /\ LastLine(i) # 1 /\ LastLine(i) = Len(LinesOf(i)) + 2
  BY <1>1 DEF LastLine
<1>4. l + 1 - 1 = l
  OBVIOUS
<1>5. CASE l = 0
  <2>1. SentLine(i, l + 1) = <<":flags ", events[i].flags>>
    BY <1>2, <1>5 DEF SentLine
  <2>2. ":flags " \in Lexeme \ {"nl", "cr"} /\ events[i].flags \in Lexeme \ {"nl", "cr"}
    BY StreamFacts, Lexemes
  <2>3. ":flags " \in Lexeme /\ events[i].flags \in Lexeme
    BY <2>2
  <2>4. <<":flags ", events[i].flags>> \in Seq(Lexeme \ {"nl", "cr"})
    BY <2>2, TwoOf, Zenon
  <2>5. <<":flags ", events[i].flags>> \in Seq(Lexeme)
    BY <2>3, TwoOf, Zenon
  <2>6. l + 1 # LastLine(i)
    BY <1>2, <1>3, <1>5
  <2> QED
    BY <1>5, <2>1, <2>4, <2>5, <2>6, Zenon
<1>6. CASE l # 0 /\ l + 1 # LastLine(i)
  <2>1. l \in 1 .. Len(LinesOf(i))
    BY <1>1, <1>3, <1>6
  <2>2. SentLine(i, l + 1) = <<"data: ">> \o LinesOf(i)[l]
    <3>1. l + 1 # 1
      BY <1>2, <1>6, Zenon
    <3>2. PICK j : j = l + 1 /\ j # LastLine(i) /\ j # 1
      BY <1>6, <3>1, Zenon
    <3>3. SentLine(i, j) = <<"data: ">> \o LinesOf(i)[j - 1]
      BY <3>2, Zenon DEF SentLine
    <3>4. j - 1 = l
      BY <3>2
    <3>5. SentLine(i, j) = <<"data: ">> \o LinesOf(i)[l]
      BY <3>3, <3>4, Zenon
    <3> QED
      BY <3>2, <3>5
  <2>3. DataTokens(i)[l] = <<"data: ">> \o LinesOf(i)[l] \o eol
    BY <1>1, <2>1 DEF DataTokens
  <2>4. "data: " \in Lexeme \ {"nl", "cr"} /\ "data: " \in Lexeme
    BY Lexemes
  <2>5. /\ <<"data: ">> \in Seq(Lexeme \ {"nl", "cr"}) /\ LinesOf(i)[l] \in Seq(Lexeme \ {"nl", "cr"})
        /\ <<"data: ">> \in Seq(Lexeme) /\ LinesOf(i)[l] \in Seq(Lexeme)
    BY <2>1, <2>4, OneOf, LineFacts, Zenon
  <2>6. <<"data: ">> \o LinesOf(i)[l] \in Seq(Lexeme \ {"nl", "cr"}) /\ <<"data: ">> \o LinesOf(i)[l] \in Seq(Lexeme)
    BY <2>5, Concatenated, Zenon
  <2> QED
    BY <1>6, <2>1, <2>2, <2>3, <2>6, Zenon
<1>7. CASE l + 1 = LastLine(i)
  <2>1. SentLine(i, l + 1) = <<>>
    BY <1>2, <1>3, <1>7 DEF SentLine
  <2>2. l # 0 /\ l - 1 = Len(LinesOf(i))
    BY <1>1, <1>3, <1>7
  <2>3. <<>> \in Seq(Lexeme \ {"nl", "cr"}) /\ <<>> \in Seq(Lexeme)
    OBVIOUS
  <2> QED
    BY <1>7, <2>1, <2>2, <2>3, Zenon
<1> QED
  BY <1>5, <1>6, <1>7

\* Line l + 1 of event n + 1 is on the wire where Offset says, and the next one follows.
LEMMA LinePart ==
    ASSUME SourceOK, NEW n \in 0 .. Len(events), n # Len(events),
           NEW l \in Nat, l < LastLine(n + 1)
    PROVE  /\ n + 1 \in 1 .. Len(events)
           /\ Offset(n, l) \in Nat /\ Len(WireOf(n)) <= Offset(n, l)
           /\ Within(SentLine(n + 1, l + 1) \o eol, Offset(n, l), Wire)
           /\ l + 1 = LastLine(n + 1) =>
                Offset(n, l) + Len(SentLine(n + 1, l + 1) \o eol) = Len(WireOf(n + 1))
           /\ l + 1 # LastLine(n + 1) =>
                Offset(n, l) + Len(SentLine(n + 1, l + 1) \o eol) = Offset(n, l + 1)
           /\ Offset(n, l) + Len(SentLine(n + 1, l + 1) \o eol) <= Len(WireOf(n + 1))
<1>0. Len(events) \in Nat
  BY StreamFacts
<1>1. n + 1 \in 1 .. Len(events) /\ n + 1 \in 0 .. Len(events)
  BY <1>0
<1>2. PICK i \in 1 .. Len(events) : i = n + 1
  BY <1>1
<1>3. PICK h : h = <<":flags ", events[i].flags>>
  OBVIOUS
<1>4. PICK f : f = FlattenSeq(DataTokens(i))
  OBVIOUS
<1>5. PICK e : e = Encode(events[i])
  OBVIOUS
<1>6. PICK base : base = Len(WireOf(n))
  OBVIOUS
<1>7. PICK k \in Nat : k = Len(LinesOf(i)) /\ k # 0
  BY DataType
<1>8. PICK D \in [1 .. k -> Seq(Lexeme)] : D = DataTokens(i)
  BY <1>7, DataType
<1>9. PICK el \in Nat : el = Len(eol)
  BY StreamFacts
<1>10. /\ h \in Seq(Lexeme) /\ f \in Seq(Lexeme) /\ e \in Seq(Lexeme) /\ eol \in Seq(Lexeme) /\ Len(h) = 2
       /\ Within(h \o eol, 0, e) /\ Within(f, 2 + el, e) /\ Within(eol, 2 + el + Len(f), e)
       /\ Len(e) = 2 + el + Len(f) + el
  <2>1. /\ h \in Seq(Lexeme) /\ f \in Seq(Lexeme) /\ e \in Seq(Lexeme) /\ Len(h) = 2
        /\ Within(h \o eol, 0, e) /\ Within(f, 2 + Len(eol), e) /\ Within(eol, 2 + Len(eol) + Len(f), e)
        /\ Len(e) = 2 + Len(eol) + Len(f) + Len(eol)
    BY <1>3, <1>4, <1>5, EncodeParts, Zenon
  <2> QED
    BY <1>9, <2>1, StreamFacts, Zenon
<1>11. /\ Within(e, base, Wire) /\ Wire \in Seq(Lexeme) /\ base \in Nat /\ Len(WireOf(n + 1)) = base + Len(e)
  <2>1. /\ WireOf(n + 1) = WireOf(n) \o e /\ Within(e, base, Wire) /\ WireOf(n) \in Seq(Lexeme)
    BY <1>2, <1>5, <1>6, WireNext
  <2>2. Wire \in Seq(Lexeme)
    <3>1. Len(events) \in 0 .. Len(events)
      BY <1>0
    <3> QED
      BY <3>1, WireNext DEF Wire
  <2> QED
    BY <1>6, <1>10, <2>1, <2>2, Concatenated, ElementOf
<1>12. LastLine(n + 1) = k + 2
  BY <1>2, <1>7 DEF LastLine
<1> DEFINE G(m) == Len(FlattenSeq(Beginning(D, m)))
<1>13. G(0) = 0 /\ G(k) = Len(f) /\ \A m \in 0 .. k : G(m) \in Nat
  <2>1. ASSUME NEW m \in 0 .. k PROVE G(m) \in Nat
    <3>1. FlattenSeq(Beginning(D, m)) \in Seq(Lexeme)
      BY BeginningType
    <3> QED
      BY <3>1, ElementOf
  <2>2. FlattenSeq(Beginning(D, 0)) = <<>>
    BY FlattenEmpty DEF Beginning
  <2>3. Beginning(D, k) = D
    BY DEF Beginning
  <2> QED
    BY <1>4, <1>8, <2>1, <2>2, <2>3
<1>14. Offset(n, l) = base + IF l = 0 THEN 0 ELSE 2 + el + G(l - 1)
  BY <1>2, <1>6, <1>8, <1>9, Zenon DEF Offset
<1>15. Offset(n, l + 1) = base + (2 + el + G(l))
  <2>1. l + 1 # 0 /\ l + 1 - 1 = l
    OBVIOUS
  <2> QED
    BY <1>2, <1>6, <1>8, <1>9, <2>1 DEF Offset
<1> HIDE DEF G
<1>16. CASE l = 0
  <2>1. SentLine(n + 1, l + 1) = h
    BY <1>2, <1>3, <1>12, <1>16, SentLineIs
  <2>2. h \o eol \in Seq(Lexeme) /\ Len(h \o eol) = 2 + el
    BY <1>9, <1>10, Concatenated
  <2>3. Within(h \o eol, base + 0, Wire)
    BY <1>10, <1>11, <2>2, WithinPart
  <2>4. Offset(n, l) = base + 0 /\ Offset(n, l) = base
    BY <1>11, <1>14, <1>16
  <2>5. l + 1 # LastLine(n + 1) /\ Offset(n, l + 1) = base + (2 + el)
    BY <1>12, <1>13, <1>15, <1>16
  <2>6. Within(SentLine(n + 1, l + 1) \o eol, Offset(n, l), Wire)
    BY <2>1, <2>3, <2>4
  <2>7. Offset(n, l) + Len(SentLine(n + 1, l + 1) \o eol) = Offset(n, l + 1)
    <3>1. Offset(n, l) + Len(SentLine(n + 1, l + 1) \o eol) = base + (2 + el)
      BY <2>1, <2>2, <2>4, Zenon
    <3> QED
      BY <2>5, <3>1
  <2>8. Offset(n, l) \in Nat /\ base <= Offset(n, l)
    BY <1>11, <2>4
  <2>9. Offset(n, l) + Len(SentLine(n + 1, l + 1) \o eol) <= Len(WireOf(n + 1))
    <3>1. base + (2 + el) <= base + Len(e)
      BY <1>10, <1>11, ElementOf
    <3> QED
      BY <1>11, <2>5, <2>7, <3>1
  <2> QED
    BY <1>1, <1>6, <2>5, <2>6, <2>7, <2>8, <2>9
<1>17. CASE l # 0 /\ l + 1 # LastLine(n + 1)
  <2>1. l \in 1 .. k /\ SentLine(n + 1, l + 1) \o eol = D[l] /\ D[l] \in Seq(Lexeme)
    BY <1>2, <1>7, <1>8, <1>17, SentLineIs
  <2>2. PICK m \in Nat : l = m + 1 /\ m < k /\ m \in 0 .. k /\ l - 1 = m /\ l \in 0 .. k
    <3>1. l - 1 \in Nat /\ l = (l - 1) + 1 /\ l - 1 < k /\ l - 1 \in 0 .. k /\ l \in 0 .. k
      BY <2>1
    <3> QED
      BY <3>1
  <2>3. Within(D[l], G(m), f)
    <3>1. Within(D[m + 1], Len(FlattenSeq(Beginning(D, m))), FlattenSeq(D))
      BY <2>2, FlattenPart
    <3> QED
      BY <1>4, <1>8, <2>2, <3>1 DEF G
  <2>4. G(l) = G(m) + Len(D[l])
    <3>1. FlattenSeq(Beginning(D, m + 1)) = FlattenSeq(Beginning(D, m)) \o D[m + 1]
      BY <2>2, BeginningNext
    <3>2. FlattenSeq(Beginning(D, m)) \in Seq(Lexeme)
      BY <2>2, BeginningType
    <3> QED
      BY <2>1, <2>2, <3>1, <3>2, Concatenated DEF G
  <2>5. Within(D[l], 2 + el + G(m), e)
    BY <1>10, <2>1, <2>3, WithinPart
  <2>6. Within(D[l], base + (2 + el + G(m)), Wire)
    BY <1>10, <1>11, <2>1, <2>5, WithinPart
  <2>7. Offset(n, l) = base + (2 + el + G(m)) /\ Offset(n, l + 1) = base + (2 + el + G(l))
    BY <1>14, <1>15, <1>17, <2>2
  <2>8. G(m) \in Nat /\ Len(D[l]) \in Nat
    BY <1>13, <2>1, <2>2
  <2>9. Within(SentLine(n + 1, l + 1) \o eol, Offset(n, l), Wire)
    BY <2>1, <2>6, <2>7
  <2>10. Offset(n, l) + Len(SentLine(n + 1, l + 1) \o eol) = Offset(n, l + 1)
    <3>1. Offset(n, l) + Len(SentLine(n + 1, l + 1) \o eol) = (base + (2 + el + G(m))) + Len(D[l])
      BY <2>1, <2>7, Zenon
    <3>2. Offset(n, l + 1) = base + (2 + el + (G(m) + Len(D[l])))
      BY <2>4, <2>7, Zenon
    <3>3. PICK p \in Nat, q \in Nat : p = G(m) /\ q = Len(D[l])
      BY <2>8, Zenon
    <3>4. (base + (2 + el + p)) + q = base + (2 + el + (p + q))
      BY <1>11
    <3> QED
      BY <3>1, <3>2, <3>3, <3>4, Zenon
  <2>11. Offset(n, l) \in Nat /\ base <= Offset(n, l)
    BY <1>11, <2>7, <2>8, SMTT(30)
  <2>12. Offset(n, l) + Len(SentLine(n + 1, l + 1) \o eol) <= Len(WireOf(n + 1))
    <3>1. Within(FlattenSeq(Beginning(D, l)), 0, FlattenSeq(D))
      BY <2>2, FlattenPrefix
    <3>2. G(l) <= Len(f) /\ G(l) \in Nat
      <4>1. FlattenSeq(Beginning(D, l)) \in Seq(Lexeme)
        BY <2>2, BeginningType
      <4> QED
        <5>1. Within(FlattenSeq(Beginning(D, l)), 0, f)
          BY <1>4, <1>8, <3>1, Zenon
        <5>2. Len(FlattenSeq(Beginning(D, l))) \in Nat /\ Len(FlattenSeq(Beginning(D, l))) <= Len(f)
          BY <1>10, <4>1, <5>1, WholePart, Zenon
        <5> QED
          BY <5>2, Zenon DEF G
    <3>3. base + (2 + el + G(l)) <= base + Len(e)
      <4>1. PICK g \in Nat, fl \in Nat : g = G(l) /\ fl = Len(f) /\ g <= fl /\ Len(e) = 2 + el + fl + el
        BY <1>10, <3>2, ElementOf, Zenon
      <4>2. base + (2 + el + g) <= base + (2 + el + fl + el)
        BY <1>11, <4>1, SMTT(30)
      <4> QED
        BY <4>1, <4>2, Zenon
    <3>4. Offset(n, l) + Len(SentLine(n + 1, l + 1) \o eol) = base + (2 + el + G(l))
      BY <2>7, <2>10, Zenon
    <3>5. Len(WireOf(n + 1)) = base + Len(e)
      BY <1>11, Zenon
    <3> QED
      BY <3>3, <3>4, <3>5, Zenon
  <2> QED
    BY <1>1, <1>6, <1>17, <2>9, <2>10, <2>11, <2>12
<1>18. CASE l + 1 = LastLine(n + 1)
  <2>1. SentLine(n + 1, l + 1) = <<>> /\ l - 1 = k /\ l # 0
    BY <1>2, <1>7, <1>18, SentLineIs
  <2>2. SentLine(n + 1, l + 1) \o eol = eol
    BY <1>10, <2>1, NothingAhead, Zenon
  <2>3. Within(eol, base + (2 + el + Len(f)), Wire)
    BY <1>10, <1>11, WithinPart
  <2>4. Offset(n, l) = base + (2 + el + Len(f)) /\ Len(f) \in Nat
    BY <1>10, <1>13, <1>14, <2>1, ElementOf
  <2>5. Offset(n, l) + el = base + Len(e)
    BY <1>10, <1>11, <2>4
  <2>6. Within(SentLine(n + 1, l + 1) \o eol, Offset(n, l), Wire)
    BY <2>2, <2>3, <2>4
  <2>7. Offset(n, l) + Len(SentLine(n + 1, l + 1) \o eol) = Len(WireOf(n + 1))
    BY <1>9, <1>11, <2>2, <2>5
  <2>8. Offset(n, l) \in Nat /\ base <= Offset(n, l) /\ Len(WireOf(n + 1)) \in Nat
    BY <1>10, <1>11, <2>4, ElementOf, SMTT(30)
  <2> QED
    BY <1>1, <1>6, <1>18, <2>6, <2>7, <2>8
<1> QED
  BY <1>16, <1>17, <1>18

-----------------------------------------------------------------------------
\* What the events say.

LEMMA WordType ==
    ASSUME NEW json \in Seq(Lexeme)
    PROVE  Word(json) \in Lexeme
<1>1. ASSUME Len(json) \in {3, 4} PROVE json[2] \in Lexeme
  <2>1. 2 \in 1 .. Len(json)
    BY <1>1
  <2> QED
    BY <2>1, ElementOf
<1> QED
  BY <1>1, Lexemes, Zenon DEF Word

\* The word of an event, and which events are messages.
LEMMA WordOfType ==
    ASSUME SourceOK, NEW i \in 1 .. Len(events)
    PROVE  /\ FlattenSeq(LinesOf(i)) \in Seq(Lexeme)
           /\ WordOf(i) = Word(FlattenSeq(LinesOf(i))) /\ WordOf(i) \in Lexeme
           /\ IsMessage(i) <=> events[i].flags = "0"
           /\ ~IsMessage(i) => events[i].flags = "2" /\ i = Len(events)
<1>1. FlattenSeq(LinesOf(i)) \in Seq(Lexeme)
  BY StreamFacts, FlattenType
<1>2. WordOf(i) = Word(FlattenSeq(LinesOf(i)))
  BY Zenon DEF WordOf, LinesOf
<1> QED
  BY <1>1, <1>2, WordType, StreamFacts DEF IsMessage

\* The messages of one event more.
Said(i) == IF IsMessage(i) /\ \A j \in 1 .. i : ~IsBad(j) THEN <<WordOf(i)>> ELSE <<>>

\* One more event says one message more, or none.
LEMMA MessagesNext ==
    ASSUME SourceOK, NEW n \in 0 .. Len(events)
    PROVE  /\ Messages(n) \in Seq(Lexeme)
           /\ Messages(0) = <<>>
           /\ n # Len(events) => Messages(n + 1) = Messages(n) \o Said(n + 1)
           /\ \A m \in 0 .. n : Within(Messages(m), 0, Messages(n))
<1>0. Len(events) \in Nat
  BY StreamFacts
<1> DEFINE said(m) == [i \in 1 .. m |-> Said(i)]
<1>1. \A m : Messages(m) = FlattenSeq(said(m))
  BY Zenon DEF Messages, Said
<1>2. ASSUME NEW m \in 0 .. Len(events) PROVE said(m) \in [1 .. m -> Seq(Lexeme)] /\ said(m) \in Seq(Seq(Lexeme))
  <2>1. ASSUME NEW i \in 1 .. m PROVE Said(i) \in Seq(Lexeme)
    <3>1. i \in 1 .. Len(events)
      BY <1>0
    <3>2. <<WordOf(i)>> \in Seq(Lexeme)
      BY <3>1, WordOfType, OneOf, Zenon
    <3>3. <<>> \in Seq(Lexeme)
      OBVIOUS
    <3> QED
      BY <3>2, <3>3, Zenon DEF Said
  <2> QED
    BY <2>1
<1>3. Messages(n) \in Seq(Lexeme)
  BY <1>1, <1>2, FlattenType
<1>4. Messages(0) = <<>>
  BY <1>1, FlattenEmpty
<1>5. ASSUME n # Len(events) PROVE Messages(n + 1) = Messages(n) \o Said(n + 1)
  <2>1. n \in Nat /\ n + 1 \in 0 .. Len(events)
    BY <1>0, <1>5
  <2>2. said(n) = [i \in 1 .. n |-> said(n + 1)[i]] /\ said(n + 1)[n + 1] = Said(n + 1)
    BY <2>1
  <2>3. said(n + 1) \in [1 .. n + 1 -> Seq(Lexeme)]
    BY <1>2, <2>1
  <2> HIDE DEF said
  <2>4. FlattenSeq(said(n + 1)) = FlattenSeq(said(n)) \o said(n + 1)[n + 1]
    BY <2>1, <2>2, <2>3, FlattenNext
  <2> QED
    BY <1>1, <2>2, <2>4, Zenon
<1>6. ASSUME NEW m \in 0 .. n PROVE Within(Messages(m), 0, Messages(n))
  <2>1. said(n) \in [1 .. n -> Seq(Lexeme)] /\ n \in Nat
    BY <1>0, <1>2
  <2>2. Beginning(said(n), m) = said(m)
    BY DEF Beginning
  <2> HIDE DEF said
  <2>3. Within(FlattenSeq(Beginning(said(n), m)), 0, FlattenSeq(said(n)))
    BY <2>1, FlattenPrefix
  <2> QED
    BY <1>1, <2>2, <2>3, Zenon
<1> QED
  BY <1>3, <1>4, <1>5, <1>6

\* The trailer speaks when it is the last event, and only then.
LEMMA VerdictIs ==
    ASSUME SourceOK, NEW n \in 0 .. Len(events)
    PROVE  /\ n # Len(events) => Verdict(n) = "ok"
           /\ n # 0 /\ IsMessage(n) => Verdict(n) = "ok"
           /\ n = 0 => Verdict(n) = "ok"
           /\ n # 0 /\ ~IsMessage(n) =>
                Verdict(n) = IF WordOf(n) \in {"bad", "none"} THEN "ok"
                             ELSE IF WordOf(n) \in Codes THEN WordOf(n) ELSE "internal"
           /\ Verdict(n) \in Codes \cup {"ok"}
<1>1. n # 0 /\ n # Len(events) => IsMessage(n)
  <2>1. Len(events) \in Nat
    BY StreamFacts
  <2>2. n # 0 => n \in 1 .. Len(events)
    BY <2>1
  <2> QED
    BY <2>2, WordOfType
<1>2. "internal" \in Codes
  BY Zenon DEF Codes
<1> QED
  BY <1>1, <1>2, Zenon DEF Verdict

\* A JSON object cut short does not parse.
LEMMA CutShort ==
    ASSUME SourceOK, NEW i \in 1 .. Len(events), NEW p \in Seq(Lexeme),
           Within(p, 0, FlattenSeq(LinesOf(i)))
    PROVE  Word(p) \in {"bad", WordOf(i)}
<1>1. PICK k \in Nat \ {0} : k = Len(LinesOf(i))
  BY DataType
<1>2. PICK s \in [1 .. k -> Seq(Lexeme)] : s = LinesOf(i)
  <2>1. LinesOf(i) \in Seq(Seq(Lexeme))
    BY StreamFacts
  <2> QED
    BY <1>1, <2>1
<1>3. PICK w \in Seq(Lexeme) : w = FlattenSeq(s)
  BY <1>2, WordOfType
<1>4. PICK brace : brace = "}"
  BY Zenon
<1>5. OnlyAtTheEnd(s, k, brace)
  BY <1>1, <1>2, <1>4, LineFacts, Zenon DEF OnlyAtTheEnd
<1>6. \A y \in 1 .. Len(w) : w[y] = brace => y = Len(w)
  <2>1. \A y \in 1 .. Len(FlattenSeq(s)) : FlattenSeq(s)[y] = brace => y = Len(FlattenSeq(s))
    BY <1>5, FlattenEnd
  <2> QED
    BY <1>3, <2>1, Zenon
<1>7. /\ Len(p) \in Nat /\ Len(w) \in Nat /\ Len(p) <= Len(w)
      /\ \A j \in 1 .. Len(p) : w[j] = p[j]
      /\ Len(p) = Len(w) => p = w
  BY <1>2, <1>3, WholePart
<1>8. CASE Len(p) = Len(w)
  BY <1>2, <1>3, <1>7, <1>8, WordOfType
<1>9. CASE Len(p) # Len(w)
  <2>1. ASSUME Len(p) \in {3, 4} PROVE Last(p) # brace
    <3>1. PICK lp \in Nat, lw \in Nat : lp = Len(p) /\ lw = Len(w) /\ lp <= lw
      BY <1>7, Zenon
    <3>2. lp \in 1 .. lp /\ lp \in 1 .. lw /\ lp # lw
      BY <1>9, <2>1, <3>1
    <3>3. Last(p) = w[lp]
      BY <1>7, <3>1, <3>2, Zenon DEF Last
    <3> QED
      BY <1>6, <3>1, <3>2, <3>3, Zenon
  <2>2. Word(p) = "bad"
    BY <1>4, <2>1, Zenon DEF Word
  <2> QED
    BY <2>2
<1> QED
  BY <1>8, <1>9

-----------------------------------------------------------------------------
\* A step leaves the source alone, and all that is said of it.

LEMMA Fixed ==
    ASSUME UNCHANGED source
    PROVE  /\ client' = client /\ events' = events /\ eol' = eol
           /\ SourceOK' <=> SourceOK
           /\ Uncut' <=> Uncut
           /\ \A n : WireOf(n)' = WireOf(n)
           /\ Wire' = Wire
           /\ \A n : \A l : Offset(n, l)' = Offset(n, l)
           /\ \A i : \A l : SentLine(i, l)' = SentLine(i, l)
           /\ \A i : LinesOf(i)' = LinesOf(i) /\ LastLine(i)' = LastLine(i)
           /\ \A i : (IsBad(i)' <=> IsBad(i)) /\ WordOf(i)' = WordOf(i)
           /\ AllGood' <=> AllGood
           /\ \A n : Messages(n)' = Messages(n) /\ Verdict(n)' = Verdict(n)
<1>1. client' = client /\ events' = events /\ eol' = eol
  BY DEF source
<1>2. (SourceOK' <=> SourceOK) /\ (Uncut' <=> Uncut)
  BY <1>1, Zenon DEF SourceOK, Uncut
<1>3. \A n : WireOf(n)' = WireOf(n)
  BY <1>1, Zenon DEF WireOf, Encode
<1>4. Wire' = Wire
  BY <1>1, <1>3, Zenon DEF Wire
<1>5. \A n : \A l : Offset(n, l)' = Offset(n, l)
  BY <1>1, <1>3, Zenon DEF Offset, DataTokens, LinesOf
<1>6. \A i : LinesOf(i)' = LinesOf(i) /\ LastLine(i)' = LastLine(i)
  BY <1>1, Zenon DEF LinesOf, LastLine
<1>7. \A i : \A l : SentLine(i, l)' = SentLine(i, l)
  BY <1>1, <1>6, Zenon DEF SentLine
<1>8. \A i : (IsBad(i)' <=> IsBad(i)) /\ WordOf(i)' = WordOf(i) /\ (IsMessage(i)' <=> IsMessage(i))
  BY <1>1, Zenon DEF IsBad, WordOf, IsMessage
<1>9. AllGood' <=> AllGood
  BY <1>1, <1>8, Zenon DEF AllGood
<1>10. \A n : Messages(n)' = Messages(n)
  BY <1>1, Zenon DEF Messages, IsBad, IsMessage, WordOf
<1>11. \A n : Verdict(n)' = Verdict(n)
  BY <1>8, Zenon DEF Verdict, Codes
<1> QED
  BY <1>1, <1>2, <1>3, <1>4, <1>5, <1>6, <1>7, <1>8, <1>9, <1>10, <1>11, Zenon

\* More events are more tokens, so the number of those behind is the only one.
LEMMA WireGrows ==
    ASSUME SourceOK, NEW m \in 0 .. Len(events), NEW n \in 0 .. Len(events), m <= n
    PROVE  Len(WireOf(m)) \in Nat /\ Len(WireOf(n)) \in Nat /\ Len(WireOf(m)) <= Len(WireOf(n))
<1>0. Len(events) \in Nat
  BY StreamFacts
<1>1. \A k \in 0 .. Len(events) : WireOf(k) \in Seq(Lexeme) /\ Len(WireOf(k)) \in Nat
  BY WireNext, ElementOf
<1> DEFINE T == {d \in Nat : m + d <= Len(events) => Len(WireOf(m)) <= Len(WireOf(m + d))}
<1>2. 0 \in T
  <2>1. m + 0 = m
    OBVIOUS
  <2> QED
    BY <1>1, <2>1
<1>3. ASSUME NEW d \in T PROVE d + 1 \in T
  <2> SUFFICES ASSUME m + (d + 1) <= Len(events)
               PROVE  Len(WireOf(m)) <= Len(WireOf(m + (d + 1)))
    OBVIOUS
  <2>1. PICK k \in 0 .. Len(events) : k = m + d /\ k # Len(events) /\ k + 1 \in 0 .. Len(events) /\ m + (d + 1) = k + 1
    BY <1>0
  <2>2. WireOf(k + 1) = WireOf(k) \o Encode(events[k + 1]) /\ Encode(events[k + 1]) \in Seq(Lexeme)
    <3>1. k + 1 \in 1 .. Len(events)
      BY <1>0, <2>1
    <3> QED
      BY <2>1, <3>1, WireNext, EncodeIs
  <2>3. Len(WireOf(k + 1)) = Len(WireOf(k)) + Len(Encode(events[k + 1]))
    BY <1>1, <2>1, <2>2, Concatenated
  <2>4. Len(WireOf(m)) <= Len(WireOf(k))
    BY <1>0, <2>1
  <2>5. Len(Encode(events[k + 1])) \in Nat
    BY <2>2, ElementOf
  <2>6. Len(WireOf(k)) <= Len(WireOf(k + 1))
    BY <1>1, <2>1, <2>3, <2>5
  <2> QED
    BY <1>1, <2>1, <2>4, <2>6
<1> HIDE DEF T
<1>4. T = Nat
  <2>1. T \in SUBSET Nat
    BY DEF T
  <2> QED
    BY <1>2, <1>3, <2>1, SetInduction
<1>5. n - m \in T /\ m + (n - m) = n
  BY <1>4
<1> QED
  BY <1>0, <1>1, <1>5 DEF T

\* The parser has so many whole events behind it, and no other number.
LEMMA BehindOnce ==
    ASSUME SourceOK, NEW m, NEW n, Behind(m), Behind(n), pos \in Nat
    PROVE  m = n
<1>1. /\ m \in 0 .. Len(events) /\ n \in 0 .. Len(events) /\ Len(events) \in Nat
      /\ m = 0 \/ Len(WireOf(m)) <= pos
      /\ n = 0 \/ Len(WireOf(n)) <= pos
      /\ m = Len(events) \/ Len(WireOf(m + 1)) > pos
      /\ n = Len(events) \/ Len(WireOf(n + 1)) > pos
  BY StreamFacts DEF Behind
<1>2. ASSUME m < n PROVE FALSE
  <2>1. PICK k \in 0 .. Len(events) : k = m + 1 /\ k <= n /\ n # 0 /\ m # Len(events)
    BY <1>1, <1>2
  <2>2. Len(WireOf(k)) \in Nat /\ Len(WireOf(n)) \in Nat /\ Len(WireOf(k)) <= Len(WireOf(n))
    BY <1>1, <2>1, WireGrows
  <2> QED
    BY <1>1, <2>1, <2>2
<1>3. ASSUME n < m PROVE FALSE
  <2>1. PICK k \in 0 .. Len(events) : k = n + 1 /\ k <= m /\ m # 0 /\ n # Len(events)
    BY <1>1, <1>3
  <2>2. Len(WireOf(k)) \in Nat /\ Len(WireOf(m)) \in Nat /\ Len(WireOf(k)) <= Len(WireOf(m))
    BY <1>1, <2>1, WireGrows
  <2> QED
    BY <1>1, <2>1, <2>2
<1> QED
  BY <1>1, <1>2, <1>3

\* A stream that is all behind the parser is behind it in events.
LEMMA AllBehind ==
    ASSUME SourceOK, NEW n, Behind(n), pos = Len(Wire)
    PROVE  n = Len(events)
<1>1. n \in 0 .. Len(events) /\ Len(events) \in Nat /\ (n = Len(events) \/ Len(WireOf(n + 1)) > pos)
  BY StreamFacts DEF Behind
<1>2. ASSUME n # Len(events) PROVE FALSE
  <2>1. PICK k \in 0 .. Len(events) : k = n + 1 /\ k <= Len(events) /\ Len(events) \in 0 .. Len(events)
    BY <1>1, <1>2
  <2>2. Len(WireOf(k)) \in Nat /\ Len(Wire) \in Nat /\ Len(WireOf(k)) <= Len(Wire)
    BY <2>1, WireGrows DEF Wire
  <2> QED
    BY <1>1, <1>2, <2>1, <2>2
<1> QED
  BY <1>2

\* A parser within event n + 1 has n events behind it.
LEMMA BehindHere ==
    ASSUME SourceOK, NEW n, NEW l, AtLine(n, l), buffer \in Seq(Lexeme)
    PROVE  Behind(n) /\ pos \in Nat
<1>1. n \in 0 .. Len(events) /\ l \in Nat /\ pos = Offset(n, l) + Len(buffer) /\ Len(buffer) \in Nat
  BY ElementOf DEF AtLine
<1>2. CASE n = Len(events)
  <2>1. l = 0
    BY <1>2 DEF AtLine
  <2>2. Offset(n, l) = Len(WireOf(n)) + 0 /\ Len(WireOf(n)) \in Nat
    <3>1. Offset(n, l) = Len(WireOf(n)) + 0
      BY <2>1, Zenon DEF Offset
    <3> QED
      BY <1>1, <3>1, WireGrows
  <2>3. Len(WireOf(n)) <= pos /\ pos \in Nat
    BY <1>1, <2>2
  <2> QED
    BY <1>1, <1>2, <2>3 DEF Behind
<1>3. CASE n # Len(events)
  <2>1. l < LastLine(n + 1) /\ Len(buffer) < Len(SentLine(n + 1, l + 1) \o eol)
    BY <1>3, Zenon DEF AtLine, Buffered
  <2>2. /\ Offset(n, l) \in Nat /\ Len(WireOf(n)) <= Offset(n, l)
        /\ Offset(n, l) + Len(SentLine(n + 1, l + 1) \o eol) <= Len(WireOf(n + 1))
        /\ n + 1 \in 1 .. Len(events)
    BY <1>1, <1>3, <2>1, LinePart
  <2>3. PICK k \in 0 .. Len(events) : k = n + 1
    BY <1>1, <2>2
  <2>4. Len(WireOf(n)) \in Nat /\ Len(WireOf(k)) \in Nat
    BY <1>1, <2>3, WireGrows
  <2>5. Len(SentLine(n + 1, l + 1) \o eol) \in Nat
    <3>1. SentLine(n + 1, l + 1) \in Seq(Lexeme) /\ eol \in Seq(Lexeme)
      BY <1>1, <2>1, <2>2, SentLineIs, StreamFacts
    <3> QED
      BY <3>1, Concatenated, ElementOf
  <2>6. pos \in Nat /\ Len(WireOf(n)) <= pos /\ Len(WireOf(n + 1)) > pos
    BY <1>1, <2>1, <2>2, <2>3, <2>4, <2>5
  <2> QED
    BY <1>1, <2>6 DEF Behind
<1> QED
  BY <1>2, <1>3

\* A parser within the comment has none behind it.
LEMMA BehindComment ==
    ASSUME SourceOK, InComment, buffer \in Seq(Lexeme)
    PROVE  Behind(0) /\ pos \in Nat
<1>1. Len(events) \in Nat /\ 0 \in 0 .. Len(events)
  <2>1. Len(events) \in Nat
    BY StreamFacts
  <2> QED
    BY <2>1
<1>2. pos = Len(buffer) /\ Len(buffer) \in Nat /\ Len(buffer) < Len(<<": ">> \o eol)
  BY ElementOf, Zenon DEF InComment, Buffered
<1>3. WireOf(0) = <<": ">> \o eol
  BY WireNext
<1>4. pos < Len(WireOf(0)) /\ pos \in Nat
  BY <1>2, <1>3, Zenon
<1>5. ASSUME 0 # Len(events) PROVE Len(WireOf(0 + 1)) > pos
  <2>1. PICK k \in 0 .. Len(events) : k = 0 + 1 /\ 0 <= k
    BY <1>1, <1>5
  <2>2. Len(WireOf(0)) \in Nat /\ Len(WireOf(k)) \in Nat /\ Len(WireOf(0)) <= Len(WireOf(k))
    BY <1>1, <2>1, WireGrows
  <2>3. pos < Len(WireOf(k))
    BY <1>4, <2>2
  <2> QED
    BY <1>4, <2>1, <2>2, <2>3
<1> QED
  BY <1>1, <1>4, <1>5 DEF Behind

-----------------------------------------------------------------------------
\* How a stream ends for the caller.

Told == YieldedInOrder /\ WholeStream /\ ArrivedIsDelivered

\* Fewer events have fewer messages, and these are the first of all.
LEMMA MessagesOrder ==
    ASSUME SourceOK, NEW m \in 0 .. Len(events), NEW n \in 0 .. Len(events), n <= m
    PROVE  /\ IsPrefix(Messages(m), Messages(Len(events)))
           /\ Len(Messages(n)) \in Nat /\ Len(Messages(m)) \in Nat /\ Len(Messages(n)) <= Len(Messages(m))
<1>1. PICK N \in Nat : N = Len(events) /\ N \in 0 .. N
  <2>1. Len(events) \in Nat
    BY StreamFacts
  <2>2. Len(events) \in 0 .. Len(events)
    BY <2>1
  <2> QED
    BY <2>1, <2>2
<1>2. PICK a, b, c : a = Messages(n) /\ b = Messages(m) /\ c = Messages(N)
  OBVIOUS
<1>3. a \in Seq(Lexeme) /\ b \in Seq(Lexeme) /\ c \in Seq(Lexeme) /\ Within(a, 0, b) /\ Within(b, 0, c)
  <2>1. n \in 0 .. m /\ m \in 0 .. N
    BY <1>1
  <2> QED
    BY <1>1, <1>2, <2>1, MessagesNext
<1>4. Len(a) \in Nat /\ Len(b) \in Nat /\ Len(a) <= Len(b)
  BY <1>3, WholePart
<1>5. /\ Len(c) \in Nat /\ Len(b) <= Len(c)
      /\ \A j \in 1 .. Len(b) : c[j] = b[j]
  BY <1>3, WholePart
<1>6. SubSeq(b, 1, Len(b)) = SubSeq(c, 1, Len(b))
  BY <1>3, <1>4, <1>5
<1>7. IsPrefix(b, c)
  BY <1>5, <1>6 DEF IsPrefix
<1> QED
  BY <1>1, <1>2, <1>4, <1>7

\* Of how many events are behind, whoever counts them.
LEMMA DeliveredIs ==
    ASSUME SourceOK, NEW n, Behind(n), pos \in Nat,
           result = "decoding" => client = "py",
           Len(yielded) >= Len(Messages(n)), result = "ok" => Verdict(n) = "ok"
    PROVE  ArrivedIsDelivered
<1> DEFINE c == CHOOSE k \in 0 .. Len(events) :
                    /\ k = 0 \/ Len(WireOf(k)) <= pos
                    /\ k = Len(events) \/ Len(WireOf(k + 1)) > pos
<1>1. n \in 0 .. Len(events) /\ (n = 0 \/ Len(WireOf(n)) <= pos) /\ (n = Len(events) \/ Len(WireOf(n + 1)) > pos)
  BY Zenon DEF Behind
<1>2. Behind(c)
  BY <1>1, Zenon DEF Behind
<1>3. c = n
  <2> HIDE DEF c
  <2> QED
    BY <1>2, BehindOnce
<1> QED
  BY <1>3, Zenon DEF ArrivedIsDelivered

\* However reading ended (the stream stopped, the trailer was raised, the
\* connection broke, all was read), the three properties of the caller hold.
LEMMA Ends ==
    ASSUME SourceOK, TypeOK, yielded \in Seq(Lexeme), pending \in Seq(Lexeme),
           NEW n, Behind(n), pos \in Nat, NEW m \in 0 .. Len(events), n <= m
    PROVE  /\ Truncated(n) => Told
           /\ Raised(m) => Told
           /\ Broken(m) => Told
           /\ Finished(m) => Told
<1>0. Len(events) \in Nat /\ n \in 0 .. Len(events) /\ n = n /\ n <= n /\ Len(events) \in 0 .. Len(events)
  <2>1. Len(events) \in Nat
    BY StreamFacts
  <2> QED
    BY <2>1 DEF Behind
<1>1. /\ IsPrefix(Messages(m), Messages(Len(events))) /\ IsPrefix(Messages(n), Messages(Len(events)))
      /\ Len(Messages(n)) \in Nat /\ Len(Messages(m)) \in Nat /\ Len(Messages(n)) <= Len(Messages(m))
  BY <1>0, MessagesOrder
<1>2. yielded \o <<>> = yielded
  OBVIOUS
<1>3. received = Len(Wire) /\ pos = received => n = Len(events)
  BY AllBehind
<1>4. Verdict(m) = "ok" => Verdict(n) = "ok"
  <2>1. m \in 0 .. Len(events) /\ (n # Len(events) => Verdict(n) = "ok")
    BY <1>0, VerdictIs
  <2>2. n = Len(events) => n = m
    BY <1>0
  <2> QED
    BY <2>1, <2>2
<1>5. m = Len(events) /\ (\A j \in 1 .. m : ~IsBad(j)) => AllGood
  BY StreamFacts, Zenon DEF AllGood
<1>6. ASSUME Truncated(n) PROVE Told
  <2>1. YieldedInOrder
    BY <1>1, <1>6, Zenon DEF Truncated, YieldedInOrder
  <2>2. WholeStream
    BY <1>3, <1>6, Zenon DEF Truncated, WholeStream
  <2>3. ArrivedIsDelivered
    <3>1. result = "decoding" /\ client = "ts" /\ client # "py"
      BY <1>6 DEF Truncated
    <3> QED
      BY <3>1, Zenon DEF ArrivedIsDelivered
  <2> QED
    BY <2>1, <2>2, <2>3 DEF Told
<1>7. ASSUME Raised(m) PROVE Told
  <2>1. YieldedInOrder
    BY <1>1, <1>2, <1>7, Zenon DEF Raised, YieldedInOrder
  <2>2. WholeStream
    BY <1>5, <1>7, Zenon DEF Raised, WholeStream
  <2>3. ArrivedIsDelivered
    <3>1. result # "decoding" /\ result # "ok"
      BY <1>7 DEF Raised, Codes
    <3>2. Len(yielded) >= Len(Messages(n))
      <4>1. Len(yielded) = Len(Messages(m))
        BY <1>7, Zenon DEF Raised
      <4> QED
        BY <1>1, <4>1
    <3> QED
      BY <3>1, <3>2, DeliveredIs
  <2> QED
    BY <2>1, <2>2, <2>3 DEF Told
<1>8. ASSUME Broken(m) PROVE Told
  <2>1. YieldedInOrder
    BY <1>1, <1>2, <1>8, Zenon DEF Broken, YieldedInOrder
  <2>2. WholeStream
    BY <1>8, Zenon DEF Broken, WholeStream
  <2>3. ArrivedIsDelivered
    <3>1. result # "decoding" /\ result # "ok"
      BY <1>8 DEF Broken
    <3>2. Len(yielded) >= Len(Messages(n))
      <4>1. Len(yielded) = Len(Messages(m))
        BY <1>8, Zenon DEF Broken
      <4> QED
        BY <1>1, <4>1
    <3> QED
      BY <3>1, <3>2, DeliveredIs
  <2> QED
    BY <2>1, <2>2, <2>3 DEF Told
<1>9. ASSUME Finished(m) PROVE Told
  <2>1. YieldedInOrder
    BY <1>1, <1>2, <1>9, Zenon DEF Finished, YieldedInOrder
  <2>2. WholeStream
    <3>1. received = Len(Wire) => m = Len(events)
      <4>1. pos = received
        BY <1>9 DEF Finished
      <4> QED
        BY <1>0, <1>3, <4>1
    <3> QED
      BY <1>5, <1>9, <3>1, Zenon DEF Finished, WholeStream
  <2>3. ArrivedIsDelivered
    <3>1. result # "decoding" /\ Verdict(m) = "ok"
      BY <1>9 DEF Finished
    <3>2. Len(yielded) >= Len(Messages(n))
      <4>1. Len(yielded) = Len(Messages(m))
        BY <1>9, Zenon DEF Finished
      <4> QED
        BY <1>1, <4>1
    <3> QED
      BY <1>4, <3>1, <3>2, DeliveredIs
  <2> QED
    BY <2>1, <2>2, <2>3 DEF Told
<1> QED
  BY <1>6, <1>7, <1>8, <1>9

\* The same where it ended with a message that does not parse.
LEMMA UndecodedEnds ==
    ASSUME SourceOK, yielded \in Seq(Lexeme), pending \in Seq(Lexeme),
           NEW m, Undecoded(m), NEW n, Behind(n), pos \in Nat, n \in {m, m + 1}
    PROVE  Told
<1>0. Len(events) \in Nat /\ m \in 0 .. Len(events) /\ m + 1 \in 1 .. Len(events) /\ m # Len(events)
  <2>1. Len(events) \in Nat
    BY StreamFacts
  <2>2. m \in 0 .. Len(events) /\ m # Len(events)
    BY DEF Undecoded
  <2> QED
    BY <2>1, <2>2
<1>1. IsPrefix(Messages(m), Messages(Len(events))) /\ Len(Messages(m)) \in Nat
  BY <1>0, MessagesOrder
<1>2. ~AllGood
  <2>1. m + 1 \in DOMAIN events
    BY <1>0, StreamFacts
  <2> QED
    BY <2>1, Zenon DEF AllGood, Undecoded
<1>3. Messages(m + 1) = Messages(m)
  <2>1. m + 1 \in 1 .. m + 1
    BY <1>0
  <2>2. Said(m + 1) = <<>>
    BY <2>1, Zenon DEF Said, Undecoded
  <2>3. Messages(m) \in Seq(Lexeme) /\ Messages(m + 1) = Messages(m) \o Said(m + 1)
    BY <1>0, MessagesNext
  <2> QED
    BY <2>2, <2>3
<1>4. YieldedInOrder
  BY <1>1, Zenon DEF Undecoded, YieldedInOrder
<1>5. WholeStream
  BY <1>2, Zenon DEF Undecoded, WholeStream
<1>6. ArrivedIsDelivered
  <2>1. CASE client # "py"
    BY <2>1, Zenon DEF ArrivedIsDelivered, Undecoded
  <2>2. CASE client = "py"
    <3>1. pending = <<>> /\ yielded \o pending = Messages(m)
      BY <2>2 DEF Undecoded
    <3>2. yielded = Messages(m)
      BY <3>1
    <3>3. Messages(n) = Messages(m)
      BY <1>3, Zenon
    <3>4. Len(yielded) >= Len(Messages(n))
      BY <1>1, <3>2, <3>3
    <3>5. result # "ok"
      BY DEF Undecoded
    <3> QED
      BY <2>2, <3>4, <3>5, DeliveredIs
  <2> QED
    BY <2>1, <2>2
<1> QED
  BY <1>4, <1>5, <1>6 DEF Told

-----------------------------------------------------------------------------
\* One line.

\* The blank line behind the data of event m + 1, all of it or cut short.
LEMMA BlankDone ==
    ASSUME SourceOK, UNCHANGED source, ParserOK, Reading,
           NEW m \in 0 .. Len(events), m # Len(events), Taken(m),
           flags = events[m + 1].flags, data # <<>>,
           NEW w, w = Word(FlattenSeq(data)), processLine(<<>>)
    PROVE  /\ ParserOK' /\ flags' = "0" /\ data' = <<>>
           /\ w = WordOf(m + 1) =>
                \/ Taken(m + 1)' /\ Reading'
                \/ Undecoded(m)'
                \/ Raised(m + 1)'
           /\ w = "bad" => \/ result' = "decoding" /\ UNCHANGED <<yielded, pending>>
                           \/ UNCHANGED <<pending, trailer, yielded, result>>
<1>0. Len(events) \in Nat /\ m + 1 \in 1 .. Len(events) /\ m + 1 \in 0 .. Len(events) /\ m + 1 # 0
  <2>1. Len(events) \in Nat
    BY StreamFacts
  <2> QED
    BY <2>1
<1> DEFINE code == IF w \in Codes THEN w ELSE "internal"
<1>1. /\ IF flags = "2" THEN TrailerEvent(w) ELSE MessageEvent(w)
      /\ data' = <<>> /\ flags' = "0"
  BY Zenon DEF processLine
<1>2. w \in Lexeme
  <2>1. FlattenSeq(data) \in Seq(Lexeme)
    BY FlattenType DEF ParserOK
  <2> QED
    BY <2>1, WordType
<1>3. /\ (IsMessage(m + 1) <=> events[m + 1].flags = "0")
      /\ (~IsMessage(m + 1) => events[m + 1].flags = "2" /\ m + 1 = Len(events))
      /\ (events[m + 1].flags \in {"0", "2"})
  BY <1>0, WordOfType, StreamFacts
<1>4. Messages(m) \in Seq(Lexeme) /\ Messages(m + 1) = Messages(m) \o Said(m + 1)
  BY MessagesNext
<1>5. /\ Verdict(m) = "ok"
      /\ IsMessage(m + 1) => Verdict(m + 1) = "ok"
      /\ ~IsMessage(m + 1) => Verdict(m + 1) = IF WordOf(m + 1) \in {"bad", "none"} THEN "ok"
                                               ELSE IF WordOf(m + 1) \in Codes THEN WordOf(m + 1) ELSE "internal"
  BY <1>0, VerdictIs
<1>6. /\ (\A j \in 1 .. m : ~IsBad(j)) /\ yielded \o pending = Messages(m)
      /\ (client = "py" => pending = <<>> /\ trailer = "none")
      /\ (client = "ts" => trailer = "none")
  BY <1>5, Zenon DEF Taken
<1>7. client \in {"ts", "py"} /\ client' = client
  BY ClientsAssumption, Fixed DEF SourceOK
<1>8. /\ (\A i : (IsBad(i)' <=> IsBad(i)))
      /\ (\A n : Messages(n)' = Messages(n) /\ Verdict(n)' = Verdict(n))
      /\ events' = events /\ Len(events') = Len(events)
  BY Fixed, Zenon
<1>9. /\ data' \in Seq(Seq(Lexeme)) /\ flags' \in {"0", "2"} /\ code \in Codes
      /\ flags \in {"0", "2"} /\ pending \in Seq(Lexeme) /\ yielded \in Seq(Lexeme)
      /\ trailer \in Codes \cup {"none"} /\ result = "reading"
  <2>1. <<>> \in Seq(Seq(Lexeme)) /\ "internal" \in Codes
    BY DEF Codes
  <2> QED
    BY <1>1, <2>1 DEF ParserOK, Reading
<1>10. IsBad(m + 1) <=> IsMessage(m + 1) /\ WordOf(m + 1) = "bad"
  BY Zenon DEF IsBad
<1>11. ~IsBad(m + 1) => \A j \in 1 .. m + 1 : ~IsBad(j)
  <2>1. \A j \in 1 .. m + 1 : j = m + 1 \/ j \in 1 .. m
    BY <1>0
  <2> QED
    BY <1>6, <2>1, Zenon
<1> HIDE DEF code
<1>12. CASE flags # "2" /\ w = "bad"
  <2>1. MessageEvent(w)
    BY <1>1, <1>12, Zenon
  <2>2. UNCHANGED <<trailer, pending, yielded>> /\ result' = "decoding"
    BY <1>12, <2>1, Zenon DEF MessageEvent
  <2>3. ParserOK'
    BY <1>9, <2>2 DEF ParserOK
  <2>4. w = WordOf(m + 1) => Undecoded(m)'
    <3>1. IsMessage(m + 1)
      BY <1>3, <1>12, Zenon
    <3>2. w = WordOf(m + 1) => IsBad(m + 1)
      BY <1>10, <1>12, <3>1, Zenon
    <3>3. yielded' \o pending' = Messages(m)
      BY <1>6, <2>2, Zenon
    <3> QED
      BY <1>6, <1>7, <1>8, <2>2, <3>2, <3>3, Zenon DEF Undecoded
  <2> QED
    BY <1>1, <2>2, <2>3, <2>4, Zenon
<1>13. CASE flags # "2" /\ w # "bad"
  <2>1. MessageEvent(w)
    BY <1>1, <1>13, Zenon
  <2>2. trailer' = trailer /\ result' = result
    BY <1>13, <2>1, Zenon DEF MessageEvent
  <2>3. client = "ts" => pending' = Append(pending, w) /\ yielded' = yielded
    BY <1>13, <2>1, Zenon DEF MessageEvent
  <2>4. client = "py" => yielded' = Append(yielded, w) /\ pending' = pending
    BY <1>13, <2>1, Zenon DEF MessageEvent
  <2>5. pending' \in Seq(Lexeme) /\ yielded' \in Seq(Lexeme)
    <3>1. Append(pending, w) \in Seq(Lexeme) /\ Append(yielded, w) \in Seq(Lexeme)
      BY <1>2, <1>9
    <3> QED
      BY <1>7, <1>9, <2>3, <2>4, <3>1, Zenon
  <2>6. ParserOK'
    BY <1>9, <2>2, <2>5 DEF ParserOK
  <2>7. yielded' \o pending' = Messages(m) \o <<w>>
    <3>1. CASE client = "ts"
      <4>1. yielded' \o pending' = yielded \o Append(pending, w)
        BY <2>3, <3>1, Zenon
      <4>2. yielded \o Append(pending, w) = (yielded \o pending) \o <<w>>
        BY <1>2, <1>9, AppendJoined
      <4> QED
        BY <1>6, <4>1, <4>2, Zenon
    <3>2. CASE client = "py"
      <4>1. pending = <<>> /\ yielded \o <<>> = yielded
        BY <1>6, <1>9, <3>2, NothingBehind
      <4>2. yielded' \o pending' = Append(yielded, w) \o <<>>
        BY <2>4, <3>2, <4>1, Zenon
      <4>3. Append(yielded, w) \in Seq(Lexeme)
        BY <1>2, <1>9
      <4>4. Append(yielded, w) \o <<>> = Append(yielded, w)
        BY <4>3, NothingBehind
      <4>5. Append(yielded, w) = yielded \o <<w>>
        BY <1>2, <1>9, AppendJoined
      <4> QED
        BY <1>6, <4>1, <4>2, <4>4, <4>5, Zenon
    <3> QED
      BY <1>7, <3>1, <3>2
  <2>8. ASSUME w = WordOf(m + 1) PROVE Taken(m + 1)' /\ Reading'
    <3>1. IsMessage(m + 1) /\ ~IsBad(m + 1)
      BY <1>3, <1>10, <1>13, <2>8, Zenon
    <3>2. Said(m + 1) = <<w>>
      BY <1>11, <2>8, <3>1, Zenon DEF Said
    <3>3. yielded' \o pending' = Messages(m + 1)
      BY <1>4, <2>7, <3>2, Zenon
    <3>4. client = "py" => pending' = <<>> /\ trailer' = "none"
      BY <1>6, <2>2, <2>4, Zenon
    <3>5. client = "ts" => trailer' = "none"
      BY <1>6, <2>2, Zenon
    <3>6. Verdict(m + 1) = "ok"
      BY <1>5, <3>1, Zenon
    <3>7. \A j \in 1 .. m + 1 : ~IsBad(j)
      BY <1>11, <3>1, Zenon
    <3>8. Taken(m + 1)'
      BY <1>7, <1>8, <3>3, <3>4, <3>5, <3>6, <3>7, Zenon DEF Taken
    <3> QED
      BY <1>9, <2>2, <3>8 DEF Reading
  <2> QED
    BY <1>1, <1>13, <2>6, <2>8, Zenon
<1>14. CASE flags = "2"
  <2>1. TrailerEvent(w) /\ ~IsMessage(m + 1) /\ m + 1 = Len(events)
    <3>1. TrailerEvent(w)
      BY <1>1, <1>14, Zenon
    <3>2. ~IsMessage(m + 1)
      BY <1>3, <1>14, Zenon DEF IsMessage
    <3> QED
      BY <1>3, <3>1, <3>2
  <2>2. pending' = pending /\ yielded' = yielded
    BY <2>1, Zenon DEF TrailerEvent
  <2>3. Messages(m + 1) = Messages(m) /\ ~IsBad(m + 1)
    <3>1. Said(m + 1) = <<>>
      BY <2>1, Zenon DEF Said
    <3>2. Messages(m) \o <<>> = Messages(m)
      BY <1>4, NothingBehind
    <3> QED
      BY <1>4, <1>10, <2>1, <3>1, <3>2, Zenon
  <2>4. yielded' \o pending' = Messages(m + 1) /\ \A j \in 1 .. m + 1 : ~IsBad(j)
    BY <1>6, <1>11, <2>2, <2>3, Zenon
  <2>5. CASE w \in {"bad", "none"}
    <3>1. UNCHANGED <<trailer, result>>
      BY <2>1, <2>5, Zenon DEF TrailerEvent
    <3>2. ParserOK'
      BY <1>9, <2>2, <3>1 DEF ParserOK
    <3>3. ASSUME w = WordOf(m + 1) PROVE Taken(m + 1)'
      <4>1. Verdict(m + 1) = "ok"
        BY <1>5, <2>1, <2>5, <3>3, Zenon
      <4> QED
        BY <1>6, <1>7, <1>8, <2>2, <2>4, <3>1, <4>1, Zenon DEF Taken
    <3>4. Reading'
      BY <1>9, <3>1 DEF Reading
    <3> QED
      BY <1>1, <2>2, <3>1, <3>2, <3>3, <3>4, Zenon
  <2>6. CASE w \notin {"bad", "none"}
    <3>1. /\ client = "ts" => trailer' = code /\ result' = result
          /\ client # "ts" => result' = code /\ trailer' = trailer
      BY <2>1, <2>6, Zenon DEF TrailerEvent, code
    <3>2. ParserOK'
      BY <1>7, <1>9, <2>2, <3>1 DEF ParserOK
    <3>3. ASSUME w = WordOf(m + 1) PROVE (Taken(m + 1)' /\ Reading') \/ Raised(m + 1)'
      <4>1. Verdict(m + 1) = code /\ code # "ok"
        <5>1. Verdict(m + 1) = code
          BY <1>5, <2>1, <2>6, <3>3, Zenon DEF code
        <5>2. code # "ok"
          BY <1>9 DEF Codes
        <5> QED
          BY <5>1, <5>2
      <4>2. CASE client = "ts"
        <5>1. Taken(m + 1)'
          BY <1>7, <1>8, <2>4, <3>1, <4>1, <4>2, Zenon DEF Taken
        <5> QED
          BY <1>9, <3>1, <4>2, <5>1, Zenon DEF Reading
      <4>3. CASE client = "py"
        <5>1. result' = code /\ pending' = <<>>
          BY <1>6, <2>2, <3>1, <4>3, Zenon
        <5>2. yielded' \o <<>> = yielded'
          BY <1>9, <2>2, NothingBehind
        <5>3. yielded' = Messages(m + 1)
          BY <2>4, <5>1, <5>2, Zenon
        <5> QED
          BY <1>8, <1>9, <2>1, <2>4, <4>1, <5>1, <5>3, Zenon DEF Raised, Codes
      <4> QED
        BY <1>7, <4>2, <4>3
    <3> QED
      BY <1>1, <2>6, <3>2, <3>3, Zenon
  <2> QED
    BY <2>5, <2>6
<1> QED
  BY <1>12, <1>13, <1>14, Zenon

\* What was taken stays taken while the parser only collects.
LEMMA TakenKept ==
    ASSUME UNCHANGED source, UNCHANGED <<pending, trailer, yielded>>, NEW n, Taken(n)
    PROVE  Taken(n)'
<1>1. client' = client /\ (\A i : IsBad(i)' <=> IsBad(i)) /\ Messages(n)' = Messages(n) /\ Verdict(n)' = Verdict(n)
  BY Fixed, Zenon
<1>2. pending' = pending /\ trailer' = trailer /\ yielded' = yielded
  OBVIOUS
<1> QED
  BY <1>1, <1>2, Zenon DEF Taken

\* The lines in hand after a step.
LEMMA HandNext ==
    ASSUME NEW n, NEW k, k # 0, flags' = events'[n + 1].flags,
           data' = Beginning(events'[n + 1].lines, k - 1)
    PROVE  Hand(n, k)'
<1>1. data' = [i \in 1 .. k - 1 |-> events'[n + 1].lines[i]]
  BY DEF Beginning
<1> QED
  BY <1>1 DEF Hand, Beginning, LinesOf

\* A whole line of event n + 1, with the lines ahead of it in hand.
LEMMA LineDone ==
    ASSUME SourceOK, UNCHANGED source, ParserOK, Reading,
           NEW n \in 0 .. Len(events), n # Len(events),
           NEW l \in Nat, l < LastLine(n + 1), Taken(n), Hand(n, l),
           processLine(SentLine(n + 1, l + 1))
    PROVE  /\ ParserOK'
           /\ l + 1 # LastLine(n + 1) => Taken(n)' /\ Hand(n, l + 1)' /\ Reading'
           /\ l + 1 = LastLine(n + 1) =>
                \/ Taken(n + 1)' /\ Hand(n + 1, 0)' /\ Reading'
                \/ Undecoded(n)'
                \/ Raised(n + 1)'
<1>0. n + 1 \in 1 .. Len(events)
  <2>1. Len(events) \in Nat
    BY StreamFacts
  <2> QED
    BY <2>1
<1>1. PICK i \in 1 .. Len(events) : i = n + 1
  BY <1>0
<1>2. PICK line : line = SentLine(i, l + 1)
  OBVIOUS
<1>3. /\ l = 0 => line = <<":flags ", events[i].flags>>
      /\ l # 0 /\ l + 1 # LastLine(i) => l \in 1 .. Len(LinesOf(i)) /\ line = <<"data: ">> \o LinesOf(i)[l]
      /\ l + 1 = LastLine(i) => line = <<>> /\ l - 1 = Len(LinesOf(i)) /\ l # 0
  <2>1. l < LastLine(i)
    BY <1>1
  <2> QED
    BY <1>2, <2>1, SentLineIs, Zenon
<1>4. /\ LinesOf(i) \in Seq(Seq(Lexeme)) /\ LinesOf(i) # <<>>
      /\ events[i].flags \in {"0", "2"} /\ events[i].flags \in Lexeme
  BY StreamFacts, Lexemes
<1>5. processLine(line)
  BY <1>1, <1>2, Zenon
<1>6. PICK fl, da : fl = ":flags " /\ da = "data: " /\ fl # da /\ fl \in Lexeme /\ da \in Lexeme
  <2>1. ":flags " # "data: "
    BY Zenon
  <2> QED
    BY <2>1, Lexemes, Zenon
<1>7. events' = events /\ LinesOf(i)' = LinesOf(i)
  BY Fixed, Zenon
<1>8. line # <<>> =>
        /\ flags' = IF Head(line) = fl THEN FlagsOf(line) ELSE flags
        /\ data' = IF Head(line) = da THEN Append(data, Tail(line)) ELSE data
        /\ UNCHANGED <<pending, trailer, yielded, result>>
  BY <1>5, <1>6, Zenon DEF processLine
<1>9. CASE l = 0
  <2>1. line = <<fl, events[i].flags>> /\ l + 1 # LastLine(i)
    <3>1. l + 1 # LastLine(i)
      BY <1>3, <1>9
    <3> QED
      BY <1>3, <1>6, <1>9, <3>1, Zenon
  <2>2. line # <<>> /\ Head(line) = fl /\ line[2] = events[i].flags /\ Len(line) = 2
    <3>1. PICK x \in Lexeme : x = events[i].flags
      BY <1>4
    <3>2. <<fl, x>> # <<>> /\ Head(<<fl, x>>) = fl /\ <<fl, x>>[2] = x /\ Len(<<fl, x>>) = 2
      BY <1>6, HeadOfTwo, ZenonT(60)
    <3> QED
      BY <2>1, <3>1, <3>2, Zenon
  <2>3. flags' = events[i].flags /\ data' = data /\ UNCHANGED <<pending, trailer, yielded, result>>
    BY <1>6, <1>8, <2>2, Zenon DEF FlagsOf
  <2>4. Hand(n, l + 1)'
    <3>1. data = <<>> /\ Beginning(LinesOf(i), 0) = <<>>
      <4>1. data = <<>>
        BY <1>9, Zenon DEF Hand
      <4>2. Beginning(LinesOf(i), 0) = <<>>
        BY DEF Beginning
      <4> QED
        BY <4>1, <4>2
    <3>2. l + 1 - 1 = 0 /\ l + 1 # 0
      BY <1>9
    <3>3. flags' = events'[i].flags /\ data' = Beginning(events'[i].lines, 0)
      BY <1>7, <2>3, <3>1, Zenon DEF LinesOf
    <3>4. flags' = events'[n + 1].flags /\ data' = Beginning(events'[n + 1].lines, l + 1 - 1)
      BY <1>1, <3>2, <3>3, Zenon
    <3> QED
      BY <3>2, <3>4, HandNext
  <2>5. Taken(n)'
    BY <2>3, TakenKept, Zenon
  <2>6. ParserOK' /\ Reading'
    BY <1>4, <2>3 DEF ParserOK, Reading
  <2> QED
    BY <1>1, <2>1, <2>4, <2>5, <2>6
<1>10. CASE l # 0 /\ l + 1 # LastLine(i)
  <2>1. l \in 1 .. Len(LinesOf(i)) /\ line = <<da>> \o LinesOf(i)[l]
    BY <1>3, <1>6, <1>10, Zenon
  <2>2. LinesOf(i)[l] \in Seq(Lexeme)
    BY <1>4, <2>1, ElementOf
  <2>3. line # <<>> /\ Head(line) = da /\ Tail(line) = LinesOf(i)[l]
    <3>1. PICK t \in Seq(Lexeme) : t = LinesOf(i)[l]
      BY <2>2
    <3>2. <<da>> \o t # <<>> /\ Head(<<da>> \o t) = da /\ Tail(<<da>> \o t) = t
      BY <1>6, HeadOfJoined
    <3> QED
      BY <2>1, <3>1, <3>2, Zenon
  <2>4. flags' = flags /\ data' = Append(data, LinesOf(i)[l]) /\ UNCHANGED <<pending, trailer, yielded, result>>
    BY <1>6, <1>8, <2>3, Zenon
  <2>5. flags = events[i].flags /\ data = Beginning(LinesOf(i), l - 1)
    BY <1>1, <1>10, Zenon DEF Hand
  <2>6. Append(Beginning(LinesOf(i), l - 1), LinesOf(i)[l]) = Beginning(LinesOf(i), l)
    <3>1. PICK k \in Nat : k = l - 1 /\ k + 1 = l /\ k < Len(LinesOf(i))
      <4>1. Len(LinesOf(i)) \in Nat
        BY <1>4, ElementOf
      <4>2. l - 1 \in Nat /\ (l - 1) + 1 = l /\ l - 1 < Len(LinesOf(i))
        BY <2>1, <4>1
      <4> QED
        BY <4>2
    <3>2. Append(Beginning(LinesOf(i), k), LinesOf(i)[k + 1]) = Beginning(LinesOf(i), k + 1)
      BY <1>4, <3>1, BeginningAppend, SMTT(30)
    <3> QED
      BY <3>1, <3>2, Zenon
  <2>7. Hand(n, l + 1)'
    <3>1. l + 1 - 1 = l /\ l + 1 # 0
      OBVIOUS
    <3>2. flags' = events'[i].flags /\ data' = Beginning(events'[i].lines, l)
      BY <1>7, <2>4, <2>5, <2>6, Zenon DEF LinesOf
    <3>3. flags' = events'[n + 1].flags /\ data' = Beginning(events'[n + 1].lines, l + 1 - 1)
      BY <1>1, <3>1, <3>2, Zenon
    <3> QED
      BY <3>1, <3>3, HandNext
  <2>8. Taken(n)'
    BY <2>4, TakenKept, Zenon
  <2>9. ParserOK' /\ Reading'
    <3>1. Append(data, LinesOf(i)[l]) \in Seq(Seq(Lexeme))
      BY <2>2 DEF ParserOK
    <3> QED
      BY <2>4, <3>1 DEF ParserOK, Reading
  <2> QED
    BY <1>1, <1>10, <2>7, <2>8, <2>9
<1>11. CASE l + 1 = LastLine(i)
  <2>1. line = <<>> /\ l # 0 /\ l - 1 = Len(LinesOf(i))
    BY <1>3, <1>11, Zenon
  <2>2. flags = events[i].flags /\ data = Beginning(LinesOf(i), l - 1)
    BY <1>1, <2>1, Zenon DEF Hand
  <2>3. data = LinesOf(i) /\ data # <<>>
    <3>1. Beginning(LinesOf(i), Len(LinesOf(i))) = LinesOf(i)
      BY <1>4 DEF Beginning
    <3> QED
      BY <1>4, <2>1, <2>2, <3>1, Zenon
  <2>4. PICK w : w = Word(FlattenSeq(data)) /\ w = WordOf(n + 1)
    <3>1. Word(FlattenSeq(data)) = WordOf(n + 1)
      BY <1>1, <2>3, WordOfType, Zenon
    <3> QED
      BY <3>1
  <2>5. flags = events[n + 1].flags /\ processLine(<<>>)
    BY <1>1, <1>5, <2>1, <2>2, Zenon
  <2>6. /\ ParserOK' /\ flags' = "0" /\ data' = <<>>
        /\ \/ Taken(n + 1)' /\ Reading'
           \/ Undecoded(n)'
           \/ Raised(n + 1)'
    BY <2>3, <2>4, <2>5, BlankDone, Zenon
  <2>7. Hand(n + 1, 0)'
    BY <2>6, Zenon DEF Hand
  <2> QED
    BY <1>1, <1>11, <2>6, <2>7, Zenon
<1> QED
  BY <1>1, <1>9, <1>10, <1>11

-----------------------------------------------------------------------------
\* One token.

\* How the server ends its lines.
LEMMA LineEndIs ==
    ASSUME SourceOK
    PROVE  /\ Len(eol) = 1 => eol[1] = "nl"
           /\ Len(eol) = 2 => eol[1] = "cr" /\ eol[2] = "nl"
<1>1. eol = <<"nl">> \/ eol = <<"cr", "nl">>
  BY StreamFacts
<1>2. Len(<<"nl">>) = 1 /\ <<"nl">>[1] = "nl"
  OBVIOUS
<1>3. Len(<<"cr", "nl">>) = 2 /\ <<"cr", "nl">>[1] = "cr" /\ <<"cr", "nl">>[2] = "nl"
  OBVIOUS
<1>4. CASE eol = <<"nl">>
  BY <1>2, <1>4
<1>5. CASE eol = <<"cr", "nl">>
  BY <1>3, <1>5
<1> QED
  BY <1>1, <1>4, <1>5

\* The line under construction, without its carriage return: the part of the
\* line that has come, or all of it.
LEMMA TrimmedIs ==
    ASSUME SourceOK, NEW line \in Seq(Lexeme \ {"nl", "cr"}), buffer \in Seq(Lexeme), Buffered(line)
    PROVE  /\ Len(buffer) \in Nat /\ Len(line) \in Nat /\ line \in Seq(Lexeme)
           /\ Len(buffer) <= Len(line) => Trimmed(buffer) = buffer /\ Within(buffer, 0, line)
           /\ Len(buffer) > Len(line) => Trimmed(buffer) = line
<1>1. line \in Seq(Lexeme) /\ \A j \in 1 .. Len(line) : line[j] \in Lexeme \ {"nl", "cr"}
  <2>1. Lexeme \ {"nl", "cr"} \subseteq Lexeme
    OBVIOUS
  <2>2. Seq(Lexeme \ {"nl", "cr"}) \subseteq Seq(Lexeme)
    BY <2>1, LargerSet, Zenon
  <2> QED
    BY <2>2, ElementOf
<1>2. PICK L \in Nat, B \in Nat, E \in {1, 2} : L = Len(line) /\ B = Len(buffer) /\ E = Len(eol)
  BY <1>1, StreamFacts, ElementOf
<1>3. eol \in Seq(Lexeme) /\ (E = 2 => eol[1] = "cr")
  BY <1>2, StreamFacts, LineEndIs, Zenon
<1>4. /\ Len(line \o eol) = L + E
      /\ \A j \in 1 .. L : (line \o eol)[j] = line[j]
      /\ \A j \in 1 .. E : (line \o eol)[L + j] = eol[j]
  BY <1>1, <1>2, <1>3, Concatenated, JoinedAt
<1>5. B < L + E /\ \A j \in 1 .. B : buffer[j] = (line \o eol)[j]
  BY <1>2, <1>4, Zenon DEF Buffered
<1>6. ASSUME B <= L PROVE Trimmed(buffer) = buffer /\ Within(buffer, 0, line)
  <2>1. \A j \in 1 .. B : j \in 1 .. L
    BY <1>6
  <2>2. \A j \in 1 .. B : buffer[j] = line[j]
    BY <1>4, <1>5, <2>1, Zenon
  <2>3. Within(buffer, 0, line)
    BY <1>2, <1>6, <2>2 DEF Within
  <2>4. buffer # <<>> => B \in 1 .. B
    BY <1>2
  <2>5. buffer # <<>> => Last(buffer) # "cr"
    <3>1. buffer # <<>> => buffer[B] # "cr"
      BY <1>1, <1>2, <2>1, <2>2, <2>4
    <3> QED
      BY <1>2, <3>1 DEF Last
  <2> QED
    BY <2>3, <2>5 DEF Trimmed
<1>7. ASSUME B > L PROVE Trimmed(buffer) = line
  <2>1. E = 2 /\ B = L + 1
    BY <1>5, <1>7
  <2>2. buffer[L + 1] = "cr"
    <3>1. L + 1 \in 1 .. B /\ 1 \in 1 .. E
      BY <2>1
    <3>2. buffer[L + 1] = (line \o eol)[L + 1] /\ (line \o eol)[L + 1] = eol[1]
      BY <1>4, <1>5, <3>1, Zenon
    <3> QED
      BY <1>3, <2>1, <3>2, Zenon
  <2>0. Len(buffer) = L + 1
    BY <1>2, <2>1
  <2>3. buffer # <<>> /\ Last(buffer) = "cr"
    BY <2>0, <2>2, FrontAndLast
  <2>4. Front(buffer) = line
    <3>1. Front(buffer) \in Seq(Lexeme) /\ Len(Front(buffer)) = L /\ \A j \in 1 .. L : Front(buffer)[j] = buffer[j]
      BY <2>0, FrontAndLast
    <3>2. \A j \in 1 .. L : j \in 1 .. B
      BY <2>1
    <3>3. \A j \in 1 .. L : Front(buffer)[j] = line[j]
      BY <1>4, <1>5, <3>1, <3>2, Zenon
    <3> QED
      BY <1>1, <1>2, <3>1, <3>3
  <2> QED
    BY <2>3, <2>4 DEF Trimmed
<1> QED
  BY <1>1, <1>2, <1>6, <1>7

\* The next token of a line: a separator is its last, and the line is whole.
LEMMA TokenIs ==
    ASSUME SourceOK, NEW line \in Seq(Lexeme \ {"nl", "cr"}),
           client = "py" => \A j \in 1 .. Len(line) : line[j] # "ls",
           buffer \in Seq(Lexeme), Buffered(line), NEW t, t = (line \o eol)[Len(buffer) + 1]
    PROVE  /\ t \in Lexeme
           /\ t \in Separators => Len(buffer) + 1 = Len(line \o eol) /\ Trimmed(buffer) = line
           /\ t \notin Separators => Len(buffer) + 1 < Len(line \o eol)
<1>1. /\ Len(buffer) \in Nat /\ Len(line) \in Nat /\ line \in Seq(Lexeme)
      /\ Len(buffer) <= Len(line) => Trimmed(buffer) = buffer /\ Within(buffer, 0, line)
      /\ Len(buffer) > Len(line) => Trimmed(buffer) = line
      /\ \A j \in 1 .. Len(line) : line[j] \in Lexeme \ {"nl", "cr"}
  BY TrimmedIs, ElementOf
<1>2. PICK L \in Nat, B \in Nat, E \in {1, 2} : L = Len(line) /\ B = Len(buffer) /\ E = Len(eol)
  BY <1>1, StreamFacts
<1>3. /\ eol \in Seq(Lexeme)
      /\ E = 1 => eol[1] = "nl"
      /\ E = 2 => eol[1] = "cr" /\ eol[2] = "nl"
  BY <1>2, StreamFacts, LineEndIs, Zenon
<1>4. /\ Len(line \o eol) = L + E
      /\ \A j \in 1 .. L : (line \o eol)[j] = line[j]
      /\ \A j \in 1 .. E : (line \o eol)[L + j] = eol[j]
  BY <1>1, <1>2, <1>3, Concatenated, JoinedAt
<1>5. B < L + E /\ t = (line \o eol)[B + 1]
  BY <1>2, <1>4, Zenon DEF Buffered
<1>6. "nl" \in Separators /\ "cr" \notin Separators /\ "nl" \in Lexeme /\ "cr" \in Lexeme
  <2>1. "nl" \in Separators /\ "cr" \notin Separators
    BY DEF Separators
  <2> QED
    BY <2>1, Lexemes
<1>7. CASE B < L
  <2>1. B + 1 \in 1 .. L
    BY <1>7
  <2>2. t = line[B + 1]
    BY <1>4, <1>5, <2>1, Zenon
  <2>3. t \in Lexeme \ {"nl", "cr"} /\ (client = "py" => t # "ls")
    BY <1>1, <1>2, <2>1, <2>2
  <2>4. t \notin Separators
    BY <2>3 DEF Separators
  <2> QED
    BY <1>2, <1>4, <1>7, <2>3, <2>4
<1>8. CASE B = L /\ E = 2
  <2>1. t = "cr"
    <3>1. 1 \in 1 .. E
      BY <1>8
    <3> QED
      BY <1>3, <1>4, <1>5, <1>8, <3>1, Zenon
  <2> QED
    BY <1>2, <1>4, <1>6, <1>8, <2>1
<1>9. CASE B + 1 = L + E
  <2>1. t = "nl"
    <3>1. E \in 1 .. E
      OBVIOUS
    <3>2. t = eol[E]
      BY <1>4, <1>5, <1>9, <3>1, Zenon
    <3> QED
      BY <1>3, <3>2
  <2>2. Trimmed(buffer) = line
    <3>1. CASE E = 1
      <4>1. Len(buffer) = Len(line)
        BY <1>2, <1>9, <3>1
      <4> QED
        BY <1>1, <4>1, WholePart
    <3>2. CASE E = 2
      <4>1. Len(buffer) > Len(line)
        BY <1>2, <1>9, <3>2
      <4> QED
        BY <1>1, <4>1
    <3> QED
      BY <3>1, <3>2
  <2> QED
    BY <1>2, <1>4, <1>6, <1>9, <2>1, <2>2
<1>10. B < L \/ (B = L /\ E = 2) \/ B + 1 = L + E
  BY <1>5
<1> QED
  BY <1>7, <1>8, <1>9, <1>10, Zenon

\* No line holds a character that would cut it.
LEMMA LineUncut ==
    ASSUME SourceOK, Uncut, client = "py", NEW i \in 1 .. Len(events), NEW l \in Nat, l < LastLine(i)
    PROVE  \A j \in 1 .. Len(SentLine(i, l + 1)) : SentLine(i, l + 1)[j] # "ls"
<1>1. PICK line : line = SentLine(i, l + 1)
  OBVIOUS
<1>2. PICK fl, da, ls : /\ fl = ":flags " /\ da = "data: " /\ ls = "ls"
                        /\ fl # ls /\ da # ls /\ fl \in Lexeme /\ da \in Lexeme
  <2>1. ":flags " # "ls" /\ "data: " # "ls"
    BY Zenon
  <2> QED
    BY <2>1, Lexemes, Zenon
<1>3. /\ l = 0 => line = <<fl, events[i].flags>>
      /\ l # 0 /\ l + 1 # LastLine(i) => l \in 1 .. Len(LinesOf(i)) /\ line = <<da>> \o LinesOf(i)[l]
      /\ l + 1 = LastLine(i) => line = <<>>
  BY <1>1, <1>2, SentLineIs, Zenon
<1>4. CASE l = 0
  <2>1. PICK f \in Lexeme : f = events[i].flags /\ f # ls
    <3>1. events[i].flags \in {"0", "2"} /\ events[i].flags \in Lexeme
      BY StreamFacts, Lexemes
    <3>2. events[i].flags # "ls"
      BY <3>1
    <3> QED
      BY <1>2, <3>1, <3>2, Zenon
  <2>2. line = <<fl, f>>
    BY <1>3, <1>4, <2>1
  <2>3. \A j \in 1 .. Len(<<fl, f>>) : <<fl, f>>[j] # ls
    <3>1. Len(<<fl, f>>) = 2 /\ <<fl, f>>[1] = fl /\ <<fl, f>>[2] = f
      OBVIOUS
    <3>2. \A j \in 1 .. 2 : j = 1 \/ j = 2
      OBVIOUS
    <3> QED
      BY <1>2, <2>1, <3>1, <3>2, Zenon
  <2> QED
    BY <1>1, <1>2, <2>2, <2>3, Zenon
<1>5. CASE l # 0 /\ l + 1 # LastLine(i)
  <2>1. l \in 1 .. Len(LinesOf(i)) /\ line = <<da>> \o LinesOf(i)[l]
    BY <1>3, <1>5, Zenon
  <2>2. PICK t \in Seq(Lexeme) : t = LinesOf(i)[l]
    <3>1. LinesOf(i)[l] \in Seq(Lexeme)
      BY <2>1, LineFacts
    <3> QED
      BY <3>1
  <2>3. \A j \in 1 .. Len(t) : t[j] # ls
    <3>1. i \in DOMAIN events /\ LinesOf(i) \in Seq(Seq(Lexeme))
      BY StreamFacts
    <3>2. l \in DOMAIN events[i].lines
      <4>1. DOMAIN LinesOf(i) = 1 .. Len(LinesOf(i))
        BY <3>1, ElementOf
      <4> QED
        BY <2>1, <4>1, Zenon DEF LinesOf
    <3>3. \A j \in DOMAIN t : t[j] # ls
      BY <1>2, <2>2, <3>1, <3>2, Zenon DEF Uncut, LinesOf
    <3> QED
      BY <2>2, <3>3, ElementOf, Zenon
  <2>4. ASSUME NEW j \in 1 .. Len(<<da>> \o t) PROVE (<<da>> \o t)[j] # ls
    <3>1. Len(t) \in Nat /\ Len(<<da>> \o t) = 1 + Len(t) /\ (<<da>> \o t)[1] = da
      OBVIOUS
    <3>2. CASE j = 1
      BY <1>2, <3>1, <3>2
    <3>3. CASE j # 1
      <4>1. j - 1 \in 1 .. Len(t) /\ (<<da>> \o t)[j] = t[j - 1]
        BY <3>1, <3>3
      <4> QED
        BY <2>3, <4>1, Zenon
    <3> QED
      BY <3>2, <3>3
  <2> QED
    BY <1>1, <1>2, <2>1, <2>2, <2>4, Zenon
<1>6. CASE l + 1 = LastLine(i)
  <2>1. line = <<>>
    BY <1>3, <1>6, Zenon
  <2>2. \A j \in 1 .. Len(<<>>) : FALSE
    OBVIOUS
  <2> QED
    BY <1>1, <2>1, <2>2, Zenon
<1>7. l = 0 \/ (l # 0 /\ l + 1 # LastLine(i)) \/ l + 1 = LastLine(i)
  OBVIOUS
<1> QED
  BY <1>4, <1>5, <1>6, <1>7, Zenon

\* A token more of a line that begins at off: it joins the buffer, or it is the
\* line's last and the line is processed.
LEMMA TokenInLine ==
    ASSUME SourceOK, buffer \in Seq(Lexeme), NEW line \in Seq(Lexeme \ {"nl", "cr"}),
           client = "py" => \A j \in 1 .. Len(line) : line[j] # "ls",
           Buffered(line), NEW off \in Nat, Within(line \o eol, off, Wire),
           pos = off + Len(buffer), Token
    PROVE  \/ /\ UNCHANGED parser /\ buffer' \in Seq(Lexeme) /\ Buffered(line)'
              /\ pos' = off + Len(buffer')
           \/ /\ processLine(line) /\ buffer' = <<>> /\ buffer' \in Seq(Lexeme)
              /\ pos' = off + Len(line \o eol)
<1> DEFINE whole == line \o eol
<1>1. PICK B \in Nat : B = Len(buffer)
  BY ElementOf
<1>2. PICK t : t = Wire[pos + 1]
  OBVIOUS
<1>3. /\ IF t \in Separators THEN processLine(Trimmed(buffer)) /\ buffer' = <<>>
                             ELSE buffer' = Append(buffer, t) /\ UNCHANGED parser
      /\ pos' = pos + 1 /\ UNCHANGED source
  BY <1>2, Zenon DEF Token
<1>4. Len(whole) \in Nat /\ B < Len(whole) /\ \A j \in 1 .. B : buffer[j] = whole[j]
  <2>1. Len(whole) \in Nat
    <3>1. line \in Seq(Lexeme) /\ eol \in Seq(Lexeme)
      BY TrimmedIs, StreamFacts
    <3> QED
      BY <3>1, Concatenated, ElementOf
  <2> QED
    BY <1>1, <2>1, Zenon DEF Buffered
<1>5. t = whole[B + 1]
  <2>1. B + 1 \in 1 .. Len(whole) /\ off + (B + 1) = pos + 1
    <3>1. PICK W \in Nat : W = Len(whole) /\ B < W
      BY <1>4, Zenon
    <3>2. pos = off + B
      BY <1>1, Zenon
    <3>3. B + 1 \in 1 .. W /\ off + (B + 1) = pos + 1
      BY <3>1, <3>2
    <3> QED
      BY <3>1, <3>3, Zenon
  <2>2. Wire[off + (B + 1)] = whole[B + 1]
    BY <2>1, Zenon DEF Within
  <2> QED
    BY <1>2, <2>1, <2>2, Zenon
<1>6. /\ t \in Lexeme
      /\ t \in Separators => B + 1 = Len(whole) /\ Trimmed(buffer) = line
      /\ t \notin Separators => B + 1 < Len(whole)
  <2>1. t = (line \o eol)[Len(buffer) + 1]
    BY <1>1, <1>5
  <2>2. /\ t \in Lexeme
        /\ t \in Separators => Len(buffer) + 1 = Len(line \o eol) /\ Trimmed(buffer) = line
        /\ t \notin Separators => Len(buffer) + 1 < Len(line \o eol)
    BY <2>1, TokenIs
  <2> QED
    BY <1>1, <2>2, Zenon
<1>7. CASE t \in Separators
  <2>1. processLine(line) /\ buffer' = <<>>
    BY <1>3, <1>6, <1>7, Zenon
  <2>2. pos' = off + Len(whole)
    <3>1. B + 1 = Len(whole) /\ pos' = off + B + 1
      BY <1>1, <1>3, <1>6, <1>7, Zenon
    <3> HIDE DEF whole
    <3> QED
      BY <3>1
  <2>3. <<>> \in Seq(Lexeme)
    OBVIOUS
  <2> QED
    BY <2>1, <2>2, <2>3, Zenon
<1>8. CASE t \notin Separators
  <2>1. buffer' = Append(buffer, t) /\ UNCHANGED parser
    BY <1>3, <1>8, Zenon
  <2>2. Append(buffer, t) \in Seq(Lexeme) /\ Len(Append(buffer, t)) = B + 1
    BY <1>1, <1>6
  <2>3. ASSUME NEW j \in 1 .. B + 1 PROVE Append(buffer, t)[j] = whole[j]
    <3> HIDE DEF whole
    <3>1. CASE j = B + 1
      BY <1>1, <1>5, <3>1
    <3>2. CASE j # B + 1
      <4>1. j \in 1 .. B /\ Append(buffer, t)[j] = buffer[j]
        BY <1>1, <3>2
      <4> QED
        BY <1>4, <4>1, Zenon
    <3> QED
      BY <3>1, <3>2
  <2>4. B + 1 < Len(whole)
    BY <1>6, <1>8
  <2>5. eol' = eol
    BY <1>3, Fixed
  <2>6. Buffered(line)'
    <3>1. Len(buffer') = B + 1
      BY <2>1, <2>2, Zenon
    <3>2. Len(buffer') < Len(line \o eol') /\ \A j \in 1 .. Len(buffer') : buffer'[j] = (line \o eol')[j]
      BY <2>1, <2>3, <2>4, <2>5, <3>1, Zenon
    <3> QED
      BY <3>2, Zenon DEF Buffered
  <2>7. pos' = off + Len(buffer')
    <3>1. pos' = off + (B + 1)
      BY <1>1, <1>3
    <3> QED
      BY <2>1, <2>2, <3>1, Zenon
  <2> QED
    BY <2>1, <2>2, <2>6, <2>7, Zenon
<1> QED
  BY <1>7, <1>8, Zenon

-----------------------------------------------------------------------------
\* Places after a step.

LEMMA TypeIs ==
    ASSUME ParserOK', received' \in 0 .. Len(Wire'), pos' \in 0 .. received',
           phase' \in {"read", "parse", "blank", "last"}
    PROVE  TypeOK'
BY Zenon DEF ParserOK, TypeOK

\* In the comment, between two lines, after the end, or when the caller is told.
LEMMA PlacedIs ==
    ASSUME UNCHANGED source,
           \/ Reading' /\ phase' \in {"read", "parse"} /\ InComment'
           \/ Reading' /\ phase' \in {"read", "parse"} /\ \E n \in 0 .. Len(events) : \E l \in Nat : AtLine(n, l)'
           \/ Reading' /\ phase' \in {"blank", "last"}
                /\ \E n \in 0 .. Len(events) : \E m \in 0 .. Len(events) : Ended(n, m)'
           \/ ~Reading' /\ \E n : \E m : EndedFor(n, m)'
    PROVE  Placed'
<1>1. events' = events
  BY Fixed
<1>2. ~(phase' \in {"read", "parse"} /\ phase' \in {"blank", "last"})
  OBVIOUS
<1>3. CASE Reading' /\ phase' \in {"read", "parse"} /\ InComment'
  BY <1>2, <1>3, Zenon DEF Placed
<1>4. CASE Reading' /\ phase' \in {"read", "parse"} /\ \E n \in 0 .. Len(events) : \E l \in Nat : AtLine(n, l)'
  BY <1>1, <1>2, <1>4, Zenon DEF Placed
<1>5. CASE Reading' /\ phase' \in {"blank", "last"}
             /\ \E n \in 0 .. Len(events) : \E m \in 0 .. Len(events) : Ended(n, m)'
  BY <1>1, <1>2, <1>5, Zenon DEF Placed
<1>6. CASE ~Reading' /\ \E n : \E m : EndedFor(n, m)'
  BY <1>6, Zenon DEF Placed
<1> QED
  BY <1>3, <1>4, <1>5, <1>6, Zenon

\* n events are behind a parser that has looked at their tokens.
LEMMA BehindNext ==
    ASSUME SourceOK, UNCHANGED source, NEW n \in 0 .. Len(events), pos' = Len(WireOf(n))
    PROVE  Behind(n)'
<1>1. events' = events /\ WireOf(n)' = WireOf(n) /\ WireOf(n + 1)' = WireOf(n + 1)
  BY Fixed, Zenon
<1>2. Len(WireOf(n)) \in Nat
  BY WireGrows
<1>3. n = Len(events) \/ Len(WireOf(n + 1)) > Len(WireOf(n))
  <2> SUFFICES ASSUME n # Len(events) PROVE Len(WireOf(n + 1)) > Len(WireOf(n))
    OBVIOUS
  <2>1. Len(events) \in Nat
    BY StreamFacts
  <2>2. PICK i \in 1 .. Len(events) : i = n + 1
    BY <2>1
  <2>3. WireOf(n + 1) = WireOf(n) \o Encode(events[i]) /\ WireOf(n) \in Seq(Lexeme)
    BY <2>2, WireNext, Zenon
  <2>4. Encode(events[i]) \in Seq(Lexeme) /\ Len(Encode(events[i])) > 0
    <3>1. PICK h, f, e : /\ h = <<":flags ", events[i].flags>> /\ f = FlattenSeq(DataTokens(i))
                         /\ e = Encode(events[i])
      BY Zenon
    <3>2. e \in Seq(Lexeme) /\ f \in Seq(Lexeme) /\ Len(e) = 2 + Len(eol) + Len(f) + Len(eol)
      BY <3>1, EncodeParts, Zenon
    <3>3. PICK F \in Nat, E \in {1, 2} : F = Len(f) /\ E = Len(eol)
      BY <3>2, StreamFacts, ElementOf
    <3>4. Len(e) = 2 + E + F + E
      BY <3>2, <3>3, Zenon
    <3>5. 2 + E + F + E > 0
      BY <3>3
    <3> QED
      BY <3>1, <3>2, <3>4, <3>5, Zenon
  <2>5. Len(WireOf(n + 1)) = Len(WireOf(n)) + Len(Encode(events[i]))
    BY <2>3, <2>4, Concatenated
  <2>6. Len(Encode(events[i])) \in Nat
    BY <2>4, ElementOf
  <2> QED
    BY <1>2, <2>4, <2>5, <2>6
<1> QED
  BY <1>1, <1>2, <1>3 DEF Behind

\* In a line, and between two lines.
LEMMA AtNext ==
    ASSUME UNCHANGED source, NEW n \in 0 .. Len(events), n # Len(events),
           NEW l \in Nat, l < LastLine(n + 1), NEW line, line = SentLine(n + 1, l + 1), Buffered(line)',
           pos' = Offset(n, l) + Len(buffer'), Taken(n)', Hand(n, l)'
    PROVE  AtLine(n, l)'
<1>1. /\ events' = events /\ Offset(n, l)' = Offset(n, l) /\ LastLine(n + 1)' = LastLine(n + 1)
      /\ SentLine(n + 1, l + 1)' = line
  BY Fixed, Zenon
<1>2. Buffered(SentLine(n + 1, l + 1))'
  <2>1. Len(buffer') < Len(line \o eol') /\ \A j \in 1 .. Len(buffer') : buffer'[j] = (line \o eol')[j]
    BY Zenon DEF Buffered
  <2> QED
    BY <1>1, <2>1, Zenon DEF Buffered
<1> QED
  BY <1>1, <1>2, Zenon DEF AtLine

\* What it takes to be at the start of a line after a step.
LEMMA AtHere ==
    ASSUME SourceOK, UNCHANGED source, NEW n \in 0 .. Len(events), NEW l \in Nat,
           IF n = Len(events) THEN l = 0 ELSE l < LastLine(n + 1),
           buffer' = <<>>, pos' = Offset(n, l), Taken(n)', Hand(n, l)'
    PROVE  AtLine(n, l)'
<1>1. /\ events' = events /\ eol' = eol /\ Offset(n, l)' = Offset(n, l) /\ LastLine(n + 1)' = LastLine(n + 1)
      /\ SentLine(n + 1, l + 1)' = SentLine(n + 1, l + 1)
  BY Fixed, Zenon
<1>2. pos' = Offset(n, l) + Len(buffer') /\ Len(buffer') = 0
  <2>1. Offset(n, l) \in Nat
    <3>1. CASE n = Len(events)
      <4>1. Offset(n, l) = Len(WireOf(n)) + 0 /\ Len(WireOf(n)) \in Nat
        <5>1. Offset(n, l) = Len(WireOf(n)) + 0
          BY <3>1, Zenon DEF Offset
        <5> QED
          BY <5>1, WireGrows
      <4> QED
        BY <4>1
    <3>2. CASE n # Len(events)
      BY <3>2, LinePart
    <3> QED
      BY <3>1, <3>2
  <2>2. Len(buffer') = 0
    OBVIOUS
  <2> QED
    BY <2>1, <2>2
<1>3. CASE n = Len(events)
  BY <1>1, <1>2, <1>3, Zenon DEF AtLine
<1>4. CASE n # Len(events)
  <2>1. Len(SentLine(n + 1, l + 1) \o eol) > 0
    <3>1. n + 1 \in 1 .. Len(events)
      BY <1>4, LinePart
    <3>2. SentLine(n + 1, l + 1) \in Seq(Lexeme) /\ eol \in Seq(Lexeme) /\ Len(eol) \in {1, 2}
      BY <1>4, <3>1, SentLineIs, StreamFacts
    <3>3. /\ Len(SentLine(n + 1, l + 1) \o eol) = Len(SentLine(n + 1, l + 1)) + Len(eol)
          /\ Len(SentLine(n + 1, l + 1)) \in Nat
      BY <3>2, Concatenated, ElementOf
    <3>4. PICK L \in Nat, E \in {1, 2} : L = Len(SentLine(n + 1, l + 1)) /\ E = Len(eol)
      BY <3>2, <3>3
    <3>5. Len(SentLine(n + 1, l + 1) \o eol) = L + E /\ L + E > 0
      <4>1. L + E > 0
        BY <3>4
      <4> QED
        BY <3>3, <3>4, <4>1, Zenon
    <3> QED
      BY <3>5, Zenon
  <2>2. Len(buffer') < Len(SentLine(n + 1, l + 1) \o eol) /\ \A j \in 1 .. Len(buffer') : FALSE
    BY <1>2, <2>1
  <2>3. Buffered(SentLine(n + 1, l + 1))'
    BY <1>1, <2>2, Zenon DEF Buffered
  <2> QED
    BY <1>1, <1>2, <1>4, <2>3, Zenon DEF AtLine
<1> QED
  BY <1>3, <1>4

-----------------------------------------------------------------------------
\* The steps.

\* The comment, a line by itself.
LEMMA CommentIs ==
    ASSUME SourceOK
    PROVE  /\ <<": ">> \in Seq(Lexeme \ {"nl", "cr"})
           /\ \A j \in 1 .. Len(<<": ">>) : <<": ">>[j] # "ls"
           /\ <<": ">> # <<>> /\ Head(<<": ">>) # ":flags " /\ Head(<<": ">>) # "data: "
           /\ Within(<<": ">> \o eol, 0, Wire)
<1>1. PICK co, fl, da, ls : /\ co = ": " /\ fl = ":flags " /\ da = "data: " /\ ls = "ls"
                            /\ co # fl /\ co # da /\ co # ls /\ co \in Lexeme \ {"nl", "cr"}
  <2>1. ": " # ":flags " /\ ": " # "data: " /\ ": " # "ls" /\ ": " # "nl" /\ ": " # "cr"
    BY Zenon
  <2> QED
    BY <2>1, Lexemes, Zenon
<1>2. <<co>> \in Seq(Lexeme \ {"nl", "cr"})
  BY <1>1, OneOf, Zenon
<1>3. \A j \in 1 .. Len(<<co>>) : <<co>>[j] = co
  OBVIOUS
<1>4. <<co>> # <<>> /\ Head(<<co>>) = co
  OBVIOUS
<1>5. Within(<<": ">> \o eol, 0, Wire)
  <2>1. 0 \in 0 .. Len(events)
    <3>1. Len(events) \in Nat
      BY StreamFacts
    <3> QED
      BY <3>1
  <2> QED
    BY <2>1, WireNext, Zenon
<1> QED
  BY <1>1, <1>2, <1>3, <1>4, <1>5, Zenon

\* Its place is given up for that of the first event.
LEMMA TokenInComment ==
    ASSUME SourceOK, TypeOK, StateOK, InComment, Token
    PROVE  ParserOK' /\ buffer' \in Seq(Lexeme) /\ Placed'
<1>1. UNCHANGED source /\ Reading /\ phase = "parse" /\ phase' = phase
  BY DEF Token
<1>2. /\ buffer \in Seq(Lexeme) /\ ParserOK /\ Buffered(<<": ">>) /\ pos = Len(buffer)
      /\ Taken(0) /\ Hand(0, 0)
  BY DEF StateOK, InComment
<1>3. PICK co : co = <<": ">>
  OBVIOUS
<1>4. /\ co \in Seq(Lexeme \ {"nl", "cr"})
      /\ \A j \in 1 .. Len(co) : co[j] # "ls"
      /\ Within(co \o eol, 0, Wire)
  BY <1>3, CommentIs, Zenon
<1>5. Len(buffer) \in Nat /\ pos = 0 + Len(buffer)
  <2>1. buffer \in Seq(Lexeme) /\ pos = Len(buffer)
    BY <1>2, Zenon
  <2> QED
    BY <2>1, ElementOf
<1>6. \/ /\ UNCHANGED parser /\ buffer' \in Seq(Lexeme) /\ Buffered(co)'
         /\ pos' = 0 + Len(buffer')
      \/ /\ processLine(co) /\ buffer' = <<>> /\ buffer' \in Seq(Lexeme)
         /\ pos' = 0 + Len(co \o eol)
  <2>1. Buffered(co)
    BY <1>2, <1>3, Zenon
  <2> QED
    BY <1>2, <1>4, <1>5, <2>1, TokenInLine
<1>7. (UNCHANGED parser \/ processLine(co)) => UNCHANGED parser
  <2>1. processLine(co) => UNCHANGED parser
    <3>1. ASSUME processLine(co) PROVE UNCHANGED parser
      <4>1. /\ flags' = flags /\ data' = data /\ UNCHANGED <<pending, trailer, yielded, result>>
        BY <1>3, <3>1, CommentIs, Zenon DEF processLine
      <4> QED
        BY <4>1 DEF parser
    <3> QED
      BY <3>1
  <2> QED
    BY <2>1
<1>8. UNCHANGED parser
  BY <1>6, <1>7, Zenon
<1>9. ParserOK' /\ Reading' /\ Hand(0, 0)' /\ Taken(0)'
  <2>1. /\ flags' = flags /\ data' = data /\ pending' = pending /\ trailer' = trailer
        /\ yielded' = yielded /\ result' = result
    BY <1>8 DEF parser
  <2>2. ParserOK' /\ Reading'
    BY <1>1, <1>2, <2>1 DEF ParserOK, Reading
  <2>3. Hand(0, 0)'
    BY <1>2, <2>1, Zenon DEF Hand
  <2>4. Taken(0)'
    BY <1>1, <1>2, <2>1, TakenKept
  <2> QED
    BY <2>2, <2>3, <2>4
<1>10. phase' \in {"read", "parse"}
  BY <1>1
<1>11. CASE buffer' \in Seq(Lexeme) /\ Buffered(co)' /\ pos' = 0 + Len(buffer')
  <2>1. Len(buffer') \in Nat
    BY <1>11, ElementOf
  <2>2. pos' = Len(buffer')
    BY <1>11, <2>1
  <2>3. Buffered(<<": ">>)'
    BY <1>3, <1>11, Zenon DEF Buffered
  <2>4. InComment'
    BY <1>9, <2>2, <2>3, Zenon DEF InComment
  <2>5. Placed'
    BY <1>1, <1>9, <1>10, <2>4, PlacedIs, Zenon
  <2> QED
    BY <1>9, <1>11, <2>5
<1>12. CASE buffer' = <<>> /\ buffer' \in Seq(Lexeme) /\ pos' = 0 + Len(co \o eol)
  <2>1. 0 \in 0 .. Len(events) /\ 0 \in Nat
    <3>1. Len(events) \in Nat
      BY StreamFacts
    <3> QED
      BY <3>1
  <2>2. pos' = Offset(0, 0)
    <3>1. WireOf(0) = co \o eol
      BY <1>3, WireNext, Zenon
    <3>2. Len(WireOf(0)) \in Nat
      BY <2>1, WireGrows
    <3>3. pos' = 0 + Len(WireOf(0))
      BY <1>12, <3>1, Zenon
    <3>4. Offset(0, 0) = Len(WireOf(0)) + 0
      BY Zenon DEF Offset
    <3> QED
      BY <3>2, <3>3, <3>4
  <2>3. IF 0 = Len(events) THEN 0 = 0 ELSE 0 < LastLine(0 + 1)
    <3>1. ASSUME 0 # Len(events) PROVE 0 < LastLine(0 + 1)
      <4>1. PICK i \in 1 .. Len(events) : i = 0 + 1
        BY <2>1, <3>1
      <4>2. Len(LinesOf(i)) \in Nat
        BY DataType
      <4>3. 0 < LastLine(i)
        BY <4>2 DEF LastLine
      <4> QED
        BY <4>1, <4>3, Zenon
    <3> QED
      BY <3>1
  <2>4. AtLine(0, 0)'
    BY <1>1, <1>9, <1>12, <2>1, <2>2, <2>3, AtHere
  <2>5. Placed'
    BY <1>1, <1>9, <1>10, <2>1, <2>4, PlacedIs, Zenon
  <2> QED
    BY <1>9, <1>12, <2>5
<1> QED
  BY <1>6, <1>11, <1>12, Zenon

\* The place of event n is given up for the next line, the next event or the end.
LEMMA TokenInEvent ==
    ASSUME SourceOK, Uncut, TypeOK, StateOK, NEW n \in 0 .. Len(events), NEW l \in Nat, AtLine(n, l), Token
    PROVE  ParserOK' /\ buffer' \in Seq(Lexeme) /\ Placed'
<1>1. UNCHANGED source /\ Reading /\ phase = "parse" /\ phase' = phase /\ pos < received
  BY DEF Token
<1>2. /\ buffer \in Seq(Lexeme) /\ ParserOK /\ pos = Offset(n, l) + Len(buffer)
      /\ Taken(n) /\ Hand(n, l) /\ Len(buffer) \in Nat
  BY ElementOf DEF StateOK, AtLine
<1>3. Len(events) \in Nat /\ Len(events) \in 0 .. Len(events)
  <2>1. Len(events) \in Nat
    BY StreamFacts
  <2> QED
    BY <2>1
<1>4. n # Len(events)
  <2> SUFFICES ASSUME n = Len(events) PROVE FALSE
    OBVIOUS
  <2>1. l = 0 /\ buffer = <<>>
    BY Zenon DEF AtLine
  <2>2. Offset(n, l) = Len(Wire) + 0
    BY <2>1, Zenon DEF Offset, Wire
  <2>3. Len(Wire) \in Nat
    BY <1>3, WireGrows DEF Wire
  <2>4. pos = Len(Wire)
    BY <1>2, <2>1, <2>2, <2>3
  <2>5. received \in 0 .. Len(Wire) /\ pos \in 0 .. received
    BY DEF TypeOK
  <2>6. pos < received
    BY <1>1
  <2> QED
    BY <2>3, <2>4, <2>5, <2>6
<1>5. l < LastLine(n + 1) /\ Buffered(SentLine(n + 1, l + 1))
  BY <1>4, Zenon DEF AtLine
<1>6. /\ n + 1 \in 1 .. Len(events) /\ Offset(n, l) \in Nat
      /\ Within(SentLine(n + 1, l + 1) \o eol, Offset(n, l), Wire)
      /\ l + 1 = LastLine(n + 1) =>
           Offset(n, l) + Len(SentLine(n + 1, l + 1) \o eol) = Len(WireOf(n + 1))
      /\ l + 1 # LastLine(n + 1) =>
           Offset(n, l) + Len(SentLine(n + 1, l + 1) \o eol) = Offset(n, l + 1)
  BY <1>4, <1>5, LinePart
<1>7. PICK i \in 1 .. Len(events) : i = n + 1
  BY <1>6
<1>8. PICK line \in Seq(Lexeme \ {"nl", "cr"}) : line = SentLine(n + 1, l + 1)
  <2>1. SentLine(i, l + 1) \in Seq(Lexeme \ {"nl", "cr"})
    BY <1>5, <1>7, SentLineIs
  <2> QED
    BY <1>7, <2>1, Zenon
<1>9. client = "py" => \A j \in 1 .. Len(line) : line[j] # "ls"
  <2>1. client = "py" => \A j \in 1 .. Len(SentLine(i, l + 1)) : SentLine(i, l + 1)[j] # "ls"
    BY <1>5, <1>7, LineUncut
  <2> QED
    BY <1>7, <1>8, <2>1, Zenon
<1>10. PICK off \in Nat : off = Offset(n, l)
  BY <1>6
<1>11. \/ /\ UNCHANGED parser /\ buffer' \in Seq(Lexeme) /\ Buffered(line)'
          /\ pos' = off + Len(buffer')
       \/ /\ processLine(line) /\ buffer' = <<>> /\ buffer' \in Seq(Lexeme)
          /\ pos' = off + Len(line \o eol)
  <2>1. Buffered(line) /\ Within(line \o eol, off, Wire) /\ pos = off + Len(buffer)
    BY <1>2, <1>5, <1>6, <1>8, <1>10, Zenon
  <2> QED
    BY <1>2, <1>9, <2>1, TokenInLine
<1>12. phase' \in {"read", "parse"}
  BY <1>1
<1>13. CASE UNCHANGED parser /\ buffer' \in Seq(Lexeme) /\ Buffered(line)' /\ pos' = off + Len(buffer')
  <2>1. /\ flags' = flags /\ data' = data /\ pending' = pending /\ trailer' = trailer
        /\ yielded' = yielded /\ result' = result
    BY <1>13 DEF parser
  <2>2. ParserOK' /\ Reading'
    BY <1>1, <1>2, <2>1 DEF ParserOK, Reading
  <2>3. Hand(n, l)'
    <3>1. events' = events
      BY <1>1, Fixed
    <3> QED
      BY <1>2, <2>1, <3>1, Zenon DEF Hand, LinesOf, Beginning
  <2>4. Taken(n)'
    BY <1>1, <1>2, <2>1, TakenKept
  <2>5. AtLine(n, l)'
    <3>1. pos' = Offset(n, l) + Len(buffer')
      BY <1>10, <1>13, Zenon
    <3> QED
      BY <1>1, <1>4, <1>5, <1>8, <1>13, <2>3, <2>4, <3>1, AtNext
  <2>6. Placed'
    BY <1>1, <1>12, <2>2, <2>5, PlacedIs, Zenon
  <2> QED
    BY <1>13, <2>2, <2>6
<1>14. CASE processLine(line) /\ buffer' = <<>> /\ buffer' \in Seq(Lexeme) /\ pos' = off + Len(line \o eol)
  <2>1. processLine(SentLine(n + 1, l + 1))
    BY <1>8, <1>14, Zenon
  <2>2. /\ ParserOK'
        /\ l + 1 # LastLine(n + 1) => Taken(n)' /\ Hand(n, l + 1)' /\ Reading'
        /\ l + 1 = LastLine(n + 1) =>
             \/ Taken(n + 1)' /\ Hand(n + 1, 0)' /\ Reading'
             \/ Undecoded(n)'
             \/ Raised(n + 1)'
    BY <1>1, <1>2, <1>4, <1>5, <2>1, LineDone
  <2>3. pos' = Offset(n, l) + Len(SentLine(n + 1, l + 1) \o eol)
    BY <1>8, <1>10, <1>14, Zenon
  <2>4. CASE l + 1 # LastLine(n + 1)
    <3>1. l + 1 \in Nat /\ l + 1 < LastLine(n + 1)
      <4>1. Len(LinesOf(i)) \in Nat
        BY DataType
      <4>2. LastLine(n + 1) \in Nat
        BY <1>7, <4>1 DEF LastLine
      <4> QED
        BY <1>5, <2>4, <4>2
    <3>2. pos' = Offset(n, l + 1)
      BY <1>6, <2>3, <2>4, Zenon
    <3>3. Taken(n)' /\ Hand(n, l + 1)' /\ Reading'
      BY <2>2, <2>4, Zenon
    <3>4. PICK k \in Nat : k = l + 1
      BY <3>1
    <3>5. IF n = Len(events) THEN k = 0 ELSE k < LastLine(n + 1)
      BY <1>4, <3>1, <3>4
    <3>6. pos' = Offset(n, k) /\ Hand(n, k)'
      BY <3>2, <3>3, <3>4
    <3>7. AtLine(n, k)'
      BY <1>1, <1>14, <3>3, <3>5, <3>6, AtHere
    <3>8. Placed'
      BY <1>1, <1>12, <3>3, <3>7, PlacedIs, Zenon
    <3> QED
      BY <1>14, <2>2, <3>8
  <2>5. CASE l + 1 = LastLine(n + 1)
    <3>1. PICK m \in 0 .. Len(events) : m = n + 1
      BY <1>6
    <3>2. pos' = Len(WireOf(m))
      BY <1>6, <2>3, <2>5, <3>1, Zenon
    <3>3. Behind(m)'
      BY <1>1, <3>2, BehindNext
    <3>4. CASE Taken(n + 1)' /\ Hand(n + 1, 0)' /\ Reading'
      <4>1. pos' = Offset(m, 0)
        <5>1. Len(WireOf(m)) \in Nat
          BY WireGrows
        <5>2. Offset(m, 0) = Len(WireOf(m)) + 0
          BY Zenon DEF Offset
        <5> QED
          BY <3>2, <5>1, <5>2
      <4>2. IF m = Len(events) THEN 0 = 0 ELSE 0 < LastLine(m + 1)
        <5>1. ASSUME m # Len(events) PROVE 0 < LastLine(m + 1)
          <6>1. PICK j \in 1 .. Len(events) : j = m + 1
            BY <1>3, <5>1
          <6>2. Len(LinesOf(j)) \in Nat
            BY DataType
          <6>3. 0 < LastLine(j)
            BY <6>2 DEF LastLine
          <6> QED
            BY <6>1, <6>3, Zenon
        <5> QED
          BY <5>1
      <4>3. Taken(m)' /\ Hand(m, 0)'
        BY <3>1, <3>4
      <4>4. AtLine(m, 0)'
        BY <1>1, <1>14, <4>1, <4>2, <4>3, AtHere
      <4>5. 0 \in Nat
        OBVIOUS
      <4>6. Placed'
        BY <1>1, <1>12, <3>4, <4>4, <4>5, PlacedIs, Zenon
      <4> QED
        BY <1>14, <2>2, <4>6
    <3>5. CASE Undecoded(n)'
      <4>1. ~Reading'
        <5>1. result' = "decoding"
          BY <3>5, Zenon DEF Undecoded
        <5> QED
          BY <5>1 DEF Reading
      <4>2. EndedFor(m, n)'
        <5>1. events' = events
          BY <1>1, Fixed
        <5> QED
          BY <3>1, <3>3, <3>5, <5>1, Zenon DEF EndedFor
      <4>3. Placed'
        BY <1>1, <4>1, <4>2, PlacedIs, Zenon
      <4> QED
        BY <1>14, <2>2, <4>3
    <3>6. CASE Raised(n + 1)'
      <4>1. ~Reading'
        <5>1. result' \in Codes
          BY <3>6, Zenon DEF Raised
        <5> QED
          BY <5>1 DEF Reading, Codes
      <4>2. EndedFor(m, m)'
        <5>1. events' = events /\ m <= m
          BY <1>1, Fixed
        <5>2. Raised(m)'
          BY <3>1, <3>6
        <5> QED
          BY <3>3, <5>1, <5>2, Zenon DEF EndedFor
      <4>3. Placed'
        BY <1>1, <4>1, <4>2, PlacedIs, Zenon
      <4> QED
        BY <1>14, <2>2, <4>3
    <3> QED
      BY <2>2, <2>5, <3>4, <3>5, <3>6, Zenon
  <2> QED
    BY <2>4, <2>5
<1> QED
  BY <1>11, <1>13, <1>14, Zenon

\* What a step that looks at no token leaves as it was.
LEMMA BehindKept ==
    ASSUME UNCHANGED source, pos' = pos, NEW n, Behind(n)
    PROVE  Behind(n)'
<1>1. events' = events /\ WireOf(n)' = WireOf(n) /\ WireOf(n + 1)' = WireOf(n + 1)
  BY Fixed, Zenon
<1> QED
  BY <1>1, Zenon DEF Behind

\* A step that takes no token and touches no event stays where it is.
LEMMA PlaceKept ==
    ASSUME UNCHANGED source, UNCHANGED <<pos, buffer, flags, data>>, \A n : Taken(n) => Taken(n)'
    PROVE  /\ InComment => InComment'
           /\ \A n : \A l : AtLine(n, l) => AtLine(n, l)'
<1>1. events' = events /\ eol' = eol
  BY Fixed
<1>2. pos' = pos /\ buffer' = buffer /\ flags' = flags /\ data' = data
  OBVIOUS
<1>3. \A n : \A l : Hand(n, l) => Hand(n, l)'
  BY <1>1, <1>2, Zenon DEF Hand, LinesOf, Beginning
<1>4. ASSUME InComment PROVE InComment'
  <2>1. Buffered(<<": ">>)'
    BY <1>1, <1>2, <1>4, Zenon DEF Buffered, InComment
  <2> QED
    BY <1>2, <1>3, <1>4, <2>1, Zenon DEF InComment
<1>5. ASSUME NEW n, NEW l, AtLine(n, l) PROVE AtLine(n, l)'
  <2>1. /\ Offset(n, l)' = Offset(n, l) /\ LastLine(n + 1)' = LastLine(n + 1)
        /\ SentLine(n + 1, l + 1)' = SentLine(n + 1, l + 1)
    BY Fixed, Zenon
  <2>2. Buffered(SentLine(n + 1, l + 1)) => Buffered(SentLine(n + 1, l + 1))'
    BY <1>1, <1>2, <2>1, Zenon DEF Buffered
  <2> QED
    BY <1>1, <1>2, <1>3, <1>5, <2>1, <2>2, Zenon DEF AtLine
<1> QED
  BY <1>4, <1>5, Zenon

\* What a parser that has read n events knows of them, wherever it is.
LEMMA PlaceIs ==
    ASSUME SourceOK, StateOK, Placed, Reading, phase \in {"read", "parse"}
    PROVE  /\ \E n \in 0 .. Len(events) : Behind(n) /\ Taken(n)
           /\ pos \in Nat
           /\ InComment \/ \E n \in 0 .. Len(events) : \E l \in Nat : AtLine(n, l)
<1>1. buffer \in Seq(Lexeme)
  BY DEF StateOK
<1>2. InComment \/ \E n \in 0 .. Len(events) : \E l \in Nat : AtLine(n, l)
  BY Zenon DEF Placed
<1>3. CASE InComment
  <2>1. 0 \in 0 .. Len(events)
    <3>1. Len(events) \in Nat
      BY StreamFacts
    <3> QED
      BY <3>1
  <2>2. Behind(0) /\ pos \in Nat
    BY <1>1, <1>3, BehindComment
  <2>3. Taken(0)
    BY <1>3, Zenon DEF InComment
  <2> QED
    BY <1>2, <2>1, <2>2, <2>3, Zenon
<1>4. CASE \E n \in 0 .. Len(events) : \E l \in Nat : AtLine(n, l)
  <2>1. PICK n \in 0 .. Len(events), l \in Nat : AtLine(n, l)
    BY <1>4, Zenon
  <2>2. Behind(n) /\ pos \in Nat
    BY <1>1, <2>1, BehindHere
  <2>3. Taken(n)
    BY <2>1, Zenon DEF AtLine
  <2> QED
    BY <1>2, <2>2, <2>3, Zenon
<1> QED
  BY <1>2, <1>3, <1>4, Zenon

\* The end of a chunk, for what was taken.
LEMMA YieldTaken ==
    ASSUME SourceOK, ParserOK, UNCHANGED source, NEW n \in 0 .. Len(events), Taken(n),
           yielded' = yielded \o pending, pending' = <<>>, trailer' = trailer
    PROVE  Taken(n)' /\ yielded' = Messages(n) /\ yielded' \in Seq(Lexeme)
<1>1. /\ client' = client /\ (\A i : (IsBad(i)' <=> IsBad(i)))
      /\ Messages(n)' = Messages(n) /\ Verdict(n)' = Verdict(n)
  BY Fixed, Zenon
<1>2. yielded' = Messages(n)
  BY Zenon DEF Taken
<1>3. Messages(n) \in Seq(Lexeme)
  BY MessagesNext
<1>4. Messages(n) \o <<>> = Messages(n)
  BY <1>3, NothingBehind
<1>5. yielded' \o pending' = Messages(n)
  BY <1>2, <1>4, Zenon
<1>6. Taken(n)'
  BY <1>1, <1>5, Zenon DEF Taken
<1> QED
  BY <1>2, <1>3, <1>6

\* The error kept for the end of a chunk is the one the events end with.
LEMMA TrailerIs ==
    ASSUME SourceOK, ParserOK, NEW n \in 0 .. Len(events), Taken(n)
    PROVE  /\ trailer = "none" => Verdict(n) = "ok"
           /\ trailer # "none" => trailer = Verdict(n) /\ trailer \in Codes /\ n = Len(events)
<1>1. client \in {"ts", "py"}
  BY ClientsAssumption DEF SourceOK
<1>2. (n # Len(events) => Verdict(n) = "ok") /\ Verdict(n) \in Codes \cup {"ok"}
  BY VerdictIs
<1>3. "none" \notin Codes
  BY DEF Codes
<1>4. /\ client = "py" => trailer = "none" /\ Verdict(n) = "ok"
      /\ client = "ts" => trailer = IF Verdict(n) = "ok" THEN "none" ELSE Verdict(n)
  BY Zenon DEF Taken
<1> QED
  BY <1>1, <1>2, <1>3, <1>4

\* A chunk arrives: nothing is parsed yet.
LEMMA ReceiveStep ==
    ASSUME SourceOK, TypeOK, StateOK, Placed, Receive
    PROVE  TypeOK' /\ StateOK' /\ Placed'
<1>1. /\ UNCHANGED source /\ Reading /\ phase = "read" /\ phase' = "parse"
      /\ pos' = pos /\ buffer' = buffer /\ flags' = flags /\ data' = data /\ pending' = pending
      /\ trailer' = trailer /\ yielded' = yielded /\ result' = result
      /\ received' \in pos + 1 .. Len(Wire)
  BY DEF Receive, parser
<1>2. ParserOK' /\ Reading' /\ ParserOK
  BY <1>1 DEF StateOK, ParserOK, Reading
<1>3. TypeOK'
  <2>1. Wire' = Wire /\ received \in 0 .. Len(Wire) /\ pos \in 0 .. received
    BY <1>1, Fixed DEF TypeOK
  <2>2. Len(Wire) \in Nat
    <3>1. Len(events) \in 0 .. Len(events)
      <4>1. Len(events) \in Nat
        BY StreamFacts
      <4> QED
        BY <4>1
    <3> QED
      BY <3>1, WireGrows DEF Wire
  <2>3. received' \in 0 .. Len(Wire) /\ pos' \in 0 .. received'
    BY <1>1, <2>1, <2>2
  <2>4. received' \in 0 .. Len(Wire')
    BY <2>1, <2>3, Zenon
  <2> QED
    BY <1>1, <1>2, <2>3, <2>4, TypeIs
<1>4. StateOK'
  BY <1>1, <1>2 DEF StateOK
<1>5. Placed'
  <2>1. \A n : Taken(n) => Taken(n)'
    BY <1>1, TakenKept
  <2>2. (InComment => InComment') /\ \A n : \A l : AtLine(n, l) => AtLine(n, l)'
    BY <1>1, <2>1, PlaceKept
  <2>3. phase \in {"read", "parse"} /\ phase' \in {"read", "parse"}
    BY <1>1
  <2>4. InComment \/ \E n \in 0 .. Len(events) : \E l \in Nat : AtLine(n, l)
    BY <1>1, <2>3, PlaceIs
  <2> QED
    BY <1>1, <1>2, <2>2, <2>3, <2>4, PlacedIs, Zenon
<1> QED
  BY <1>3, <1>4, <1>5

\* A token is taken: the parser moves on by one, and at a line end by one line.
LEMMA TokenStep ==
    ASSUME SourceOK, Uncut, TypeOK, StateOK, Placed, Token
    PROVE  TypeOK' /\ StateOK' /\ Placed'
<1>1. /\ UNCHANGED source /\ Reading /\ phase = "parse" /\ phase' = phase
      /\ received' = received /\ pos' = pos + 1 /\ pos < received
  BY DEF Token
<1>2. ParserOK' /\ buffer' \in Seq(Lexeme) /\ Placed'
  <2>1. phase \in {"read", "parse"}
    BY <1>1
  <2>2. InComment \/ \E n \in 0 .. Len(events) : \E l \in Nat : AtLine(n, l)
    BY <1>1, <2>1, PlaceIs
  <2>3. CASE InComment
    BY <2>3, TokenInComment
  <2>4. CASE \E n \in 0 .. Len(events) : \E l \in Nat : AtLine(n, l)
    <3>1. PICK n \in 0 .. Len(events), l \in Nat : AtLine(n, l)
      BY <2>4, Zenon
    <3> QED
      BY <3>1, TokenInEvent
  <2> QED
    BY <2>2, <2>3, <2>4, Zenon
<1>3. TypeOK'
  <2>1. Wire' = Wire /\ received \in 0 .. Len(Wire) /\ pos \in 0 .. received
    BY <1>1, Fixed DEF TypeOK
  <2>2. received' \in 0 .. Len(Wire')
    BY <1>1, <2>1, Zenon
  <2>3. pos' \in 0 .. received'
    BY <1>1, <2>1
  <2>4. phase' \in {"read", "parse", "blank", "last"}
    BY <1>1
  <2> QED
    BY <1>2, <2>2, <2>3, <2>4, TypeIs
<1>4. StateOK'
  <2>1. phase' = "parse"
    BY <1>1
  <2> QED
    BY <1>2, <2>1 DEF StateOK
<1> QED
  BY <1>2, <1>3, <1>4

\* A step that leaves the chunk alone.
LEMMA TypeKept ==
    ASSUME UNCHANGED source, TypeOK, ParserOK', received' = received, pos' = pos,
           phase' \in {"read", "parse", "blank", "last"}
    PROVE  TypeOK'
<1>1. Wire' = Wire
  BY Fixed
<1> QED
  BY <1>1, Zenon DEF TypeOK, ParserOK

\* The connection breaks: reading ends where it is.
LEMMA BreakStep ==
    ASSUME SourceOK, TypeOK, StateOK, Placed, Break
    PROVE  TypeOK' /\ StateOK' /\ Placed'
<1>1. /\ UNCHANGED source /\ Reading /\ phase = "read" /\ phase' = phase
      /\ pos' = pos /\ received' = received /\ buffer' = buffer /\ flags' = flags /\ data' = data
      /\ pending' = pending /\ trailer' = trailer /\ yielded' = yielded /\ result' = "transport"
  BY DEF Break
<1>2. ParserOK' /\ ~Reading' /\ buffer \in Seq(Lexeme) /\ pos = received /\ pending = <<>> /\ yielded \in Seq(Lexeme)
  BY <1>1 DEF StateOK, ParserOK, Reading
<1>3. TypeOK'
  BY <1>1, <1>2, TypeKept
<1>4. StateOK'
  BY <1>1, <1>2 DEF StateOK
<1>5. Placed'
  <2>1. phase \in {"read", "parse"}
    BY <1>1
  <2>2. PICK n \in 0 .. Len(events) : Behind(n) /\ Taken(n)
    BY <1>1, <2>1, PlaceIs
  <2>3. Behind(n)'
    BY <1>1, <2>2, BehindKept
  <2>4. yielded = Messages(n)
    <3>1. yielded \o <<>> = yielded
      BY <1>2, NothingBehind
    <3> QED
      BY <1>2, <2>2, <3>1, Zenon DEF Taken
  <2>5. events' = events /\ Messages(n)' = Messages(n)
    BY <1>1, Fixed, Zenon
  <2>6. Broken(n)'
    BY <1>1, <1>2, <2>4, <2>5, Zenon DEF Broken
  <2>7. EndedFor(n, n)'
    <3>1. n <= n
      <4>1. Len(events) \in Nat
        BY StreamFacts
      <4> QED
        BY <4>1
    <3> QED
      BY <2>3, <2>5, <2>6, <3>1, Zenon DEF EndedFor
  <2> QED
    BY <1>1, <1>2, <2>7, PlacedIs, Zenon
<1> QED
  BY <1>3, <1>4, <1>5

\* The end of a chunk: what is pending is yielded, and a trailer is raised.
LEMMA YieldStep ==
    ASSUME SourceOK, TypeOK, StateOK, Placed, Yield
    PROVE  TypeOK' /\ StateOK' /\ Placed'
<1>1. /\ UNCHANGED source /\ Reading /\ phase \in {"parse", "last"} /\ phase' = "read"
      /\ pos = received /\ pos' = pos /\ received' = received /\ buffer' = buffer
      /\ flags' = flags /\ data' = data /\ pending' = <<>> /\ trailer' = trailer
      /\ yielded' = yielded \o pending
      /\ result' = IF trailer # "none" THEN trailer ELSE IF phase = "last" THEN "ok" ELSE result
  BY DEF Yield, Yielding, Kept
<1>2. ParserOK /\ buffer \in Seq(Lexeme)
  BY DEF StateOK
<1>3. PICK n \in 0 .. Len(events), m \in 0 .. Len(events) :
        /\ Behind(n) /\ Taken(m) /\ n <= m
        /\ phase = "parse" => m = n /\ (InComment \/ \E k \in 0 .. Len(events) : \E l \in Nat : AtLine(k, l))
  <2>1. Len(events) \in Nat
    BY StreamFacts
  <2>2. CASE phase = "parse"
    <3>1. phase \in {"read", "parse"}
      BY <2>2
    <3>2. PICK n \in 0 .. Len(events) : Behind(n) /\ Taken(n)
      BY <1>1, <3>1, PlaceIs
    <3>3. n <= n
      BY <2>1
    <3>4. InComment \/ \E k \in 0 .. Len(events) : \E l \in Nat : AtLine(k, l)
      BY <1>1, <3>1, PlaceIs
    <3> QED
      BY <3>2, <3>3, <3>4, Zenon
  <2>3. CASE phase = "last"
    <3>1. phase \in {"blank", "last"} /\ phase # "parse"
      BY <2>3
    <3>2. PICK n \in 0 .. Len(events), m \in 0 .. Len(events) : Ended(n, m)
      BY <1>1, <3>1, Zenon DEF Placed
    <3>3. Behind(n) /\ Taken(m) /\ m \in {n, n + 1}
      BY <3>2, Zenon DEF Ended
    <3>4. n <= m
      BY <2>1, <3>3
    <3> QED
      BY <3>1, <3>3, <3>4, Zenon
  <2> QED
    BY <1>1, <2>2, <2>3
<1>4. Taken(m)' /\ yielded' = Messages(m) /\ yielded' \in Seq(Lexeme)
  BY <1>1, <1>2, <1>3, YieldTaken
<1>5. /\ trailer = "none" => Verdict(m) = "ok"
      /\ trailer # "none" => trailer = Verdict(m) /\ trailer \in Codes /\ m = Len(events)
  BY <1>2, <1>3, TrailerIs
<1>6. /\ events' = events /\ Messages(m)' = Messages(m) /\ Verdict(m)' = Verdict(m)
      /\ \A i : (IsBad(i)' <=> IsBad(i))
  BY <1>1, Fixed, Zenon
<1>7. Behind(n)' /\ \A j \in 1 .. m : ~IsBad(j)'
  <2>1. Behind(n)'
    BY <1>1, <1>3, BehindKept
  <2>2. \A j \in 1 .. m : ~IsBad(j)
    BY <1>3, Zenon DEF Taken
  <2> QED
    BY <1>6, <2>1, <2>2, Zenon
<1>8. ParserOK'
  <2>1. result' \in Codes \cup {"reading", "ok", "decoding", "transport"}
    BY <1>1, <1>5 DEF Reading
  <2>2. <<>> \in Seq(Lexeme)
    OBVIOUS
  <2> QED
    BY <1>1, <1>2, <1>4, <2>1, <2>2, Zenon DEF ParserOK
<1>9. TypeOK'
  <2>1. phase' \in {"read", "parse", "blank", "last"}
    BY <1>1
  <2> QED
    BY <1>1, <1>8, <2>1, TypeKept
<1>10. Reading' <=> trailer = "none" /\ phase = "parse"
  <2>1. "reading" \notin Codes
    BY DEF Codes
  <2> QED
    BY <1>1, <1>5, <2>1 DEF Reading
<1>11. StateOK'
  <2>1. Reading' => pending' = <<>> /\ trailer' = "none"
    BY <1>1, <1>10, Zenon
  <2>2. pos' = received'
    BY <1>1
  <2> QED
    BY <1>1, <1>2, <1>8, <2>1, <2>2, Zenon DEF StateOK
<1>12. Placed'
  <2>1. CASE trailer # "none"
    <3>1. Raised(m)'
      <4>1. result' = Verdict(m) /\ result' \in Codes /\ m = Len(events)
        BY <1>1, <1>5, <2>1, Zenon
      <4> QED
        BY <1>1, <1>4, <1>6, <1>7, <4>1, Zenon DEF Raised, Codes
    <3>2. EndedFor(n, m)'
      BY <1>3, <1>6, <1>7, <3>1, Zenon DEF EndedFor
    <3>3. ~Reading'
      BY <1>10, <2>1, Zenon
    <3> QED
      BY <1>1, <3>2, <3>3, PlacedIs, Zenon
  <2>2. CASE trailer = "none" /\ phase = "last"
    <3>1. Finished(m)'
      <4>1. result' = "ok" /\ Verdict(m)' = "ok" /\ pos' = received'
        BY <1>1, <1>5, <1>6, <2>2, Zenon
      <4> QED
        BY <1>1, <1>4, <1>6, <1>7, <4>1, Zenon DEF Finished
    <3>2. EndedFor(n, m)'
      BY <1>3, <1>6, <1>7, <3>1, Zenon DEF EndedFor
    <3>3. ~Reading'
      <4>1. phase # "parse"
        BY <2>2
      <4> QED
        BY <1>10, <4>1, Zenon
    <3> QED
      BY <1>1, <3>2, <3>3, PlacedIs, Zenon
  <2>3. CASE trailer = "none" /\ phase = "parse"
    <3>1. \A k : Taken(k) => Taken(k)'
      <4>1. ASSUME NEW k, Taken(k) PROVE Taken(k)'
        <5>1. /\ client' = client /\ Messages(k)' = Messages(k) /\ Verdict(k)' = Verdict(k)
          BY <1>1, Fixed, Zenon
        <5>2. yielded' = Messages(k)
          BY <1>1, <4>1, Zenon DEF Taken
        <5>3. yielded' \o <<>> = yielded'
          BY <1>4, NothingBehind
        <5>4. yielded' \o pending' = Messages(k)
          BY <1>1, <5>2, <5>3, Zenon
        <5> QED
          BY <1>1, <1>6, <4>1, <5>1, <5>4, Zenon DEF Taken
      <4> QED
        BY <4>1
    <3>2. (InComment => InComment') /\ \A k : \A l : AtLine(k, l) => AtLine(k, l)'
      BY <1>1, <3>1, PlaceKept
    <3>3. phase' \in {"read", "parse"}
      BY <1>1
    <3> QED
      BY <1>1, <1>3, <1>10, <2>3, <3>2, <3>3, PlacedIs, Zenon
  <2> QED
    BY <1>1, <2>1, <2>2, <2>3
<1> QED
  BY <1>9, <1>11, <1>12

\* The blank line TypeScript adds ends the event a stopped stream left open.
LEMMA LastBlankStep ==
    ASSUME SourceOK, TypeOK, StateOK, Placed, LastBlank
    PROVE  TypeOK' /\ StateOK' /\ Placed'
<1>1. /\ UNCHANGED source /\ Reading /\ phase = "blank" /\ phase' = "last"
      /\ pos' = pos /\ received' = received /\ buffer' = buffer
      /\ client = "ts" => processLine(<<>>)
      /\ client # "ts" => UNCHANGED parser
  BY Zenon DEF LastBlank
<1>2. ParserOK /\ buffer \in Seq(Lexeme) /\ client \in {"ts", "py"} /\ pos = received
  BY <1>1, ClientsAssumption DEF StateOK, SourceOK
<1>3. PICK n \in 0 .. Len(events), m \in 0 .. Len(events) : Ended(n, m)
  <2>1. phase \in {"blank", "last"}
    BY <1>1
  <2> QED
    BY <1>1, <2>1, Zenon DEF Placed
<1>4. Behind(n) /\ Taken(m) /\ m \in {n, n + 1} /\ m <= Len(events) /\ Len(events) \in Nat
  BY <1>3, StreamFacts DEF Ended
<1>5. events' = events /\ client' = client /\ WordOf(m + 1)' = WordOf(m + 1) /\ Messages(m)' = Messages(m)
  BY <1>1, Fixed, Zenon
<1>6. Behind(n)'
  BY <1>1, <1>4, BehindKept
<1>7. ASSUME ParserOK', Placed' PROVE TypeOK' /\ StateOK' /\ Placed'
  <2>1. phase' \in {"read", "parse", "blank", "last"} /\ phase' # "read"
    BY <1>1
  <2>2. TypeOK'
    BY <1>1, <1>7, <2>1, TypeKept
  <2>3. StateOK'
    BY <1>1, <1>2, <1>7, <2>1 DEF StateOK
  <2> QED
    BY <1>7, <2>2, <2>3
<1>8. phase' \in {"blank", "last"}
  BY <1>1
<1>9. ASSUME UNCHANGED parser, client = "py" \/ data = <<>> PROVE ParserOK' /\ Placed'
  <2>1. /\ flags' = flags /\ data' = data /\ pending' = pending /\ trailer' = trailer
        /\ yielded' = yielded /\ result' = result
    BY <1>9 DEF parser
  <2>2. ParserOK' /\ Reading'
    BY <1>1, <1>2, <2>1 DEF ParserOK, Reading
  <2>3. Taken(m)'
    BY <1>1, <1>4, <2>1, TakenKept
  <2>4. data' = <<>> \/ /\ client' = "py" /\ m = n /\ m < Len(events) /\ flags' = events[m + 1].flags
                        /\ Word(FlattenSeq(data')) \in {"bad", WordOf(m + 1)}
    BY <1>3, <1>5, <1>9, <2>1, Zenon DEF Ended
  <2>5. Ended(n, m)'
    BY <1>4, <1>5, <1>6, <2>3, <2>4, Zenon DEF Ended
  <2> QED
    BY <1>1, <1>8, <2>2, <2>5, PlacedIs, Zenon
<1>10. CASE client = "py"
  <2>1. client # "ts"
    BY <1>10
  <2> QED
    BY <1>1, <1>7, <1>9, <1>10, <2>1, Zenon
<1>11. CASE client = "ts" /\ data = <<>>
  <2>1. UNCHANGED parser
    BY <1>1, <1>11, Zenon DEF processLine
  <2> QED
    BY <1>7, <1>9, <1>11, <2>1, Zenon
<1>12. CASE client = "ts" /\ data # <<>>
  <2>1. client # "py"
    BY <1>12
  <2>2. /\ m = n /\ m < Len(events) /\ flags = events[m + 1].flags
        /\ Word(FlattenSeq(data)) \in {"bad", WordOf(m + 1)}
    BY <1>3, <1>12, <2>1, Zenon DEF Ended
  <2>3. PICK w : w = Word(FlattenSeq(data)) /\ (w = "bad" \/ w = WordOf(m + 1))
    BY <2>2
  <2>4. m # Len(events) /\ n <= m /\ n \in {m, m + 1}
    BY <1>4, <2>2
  <2>5. PICK k \in 0 .. Len(events) : k = m + 1 /\ k \in {n, n + 1} /\ k <= Len(events) /\ n <= k
    BY <1>4, <2>2
  <2>6. /\ ParserOK' /\ flags' = "0" /\ data' = <<>>
        /\ w = WordOf(m + 1) =>
             \/ Taken(m + 1)' /\ Reading'
             \/ Undecoded(m)'
             \/ Raised(m + 1)'
        /\ w = "bad" => \/ result' = "decoding" /\ UNCHANGED <<yielded, pending>>
                        \/ UNCHANGED <<pending, trailer, yielded, result>>
    BY <1>1, <1>2, <1>4, <1>12, <2>2, <2>3, <2>4, BlankDone
  <2>7. CASE Taken(m + 1)' /\ Reading'
    <3>1. Ended(n, k)'
      BY <1>5, <1>6, <2>5, <2>6, <2>7, Zenon DEF Ended
    <3> QED
      BY <1>1, <1>7, <1>8, <2>6, <2>7, <3>1, PlacedIs, Zenon
  <2>8. CASE Undecoded(m)'
    <3>1. EndedFor(n, m)'
      BY <1>5, <1>6, <2>4, <2>8, Zenon DEF EndedFor
    <3>2. ~Reading'
      <4>1. result' = "decoding"
        BY <2>8, Zenon DEF Undecoded
      <4> QED
        BY <4>1 DEF Reading
    <3> QED
      BY <1>1, <1>7, <2>6, <3>1, <3>2, PlacedIs, Zenon
  <2>9. CASE Raised(m + 1)'
    <3>1. Raised(k)'
      BY <2>5, <2>9
    <3>2. EndedFor(n, k)'
      BY <1>5, <1>6, <2>5, <3>1, Zenon DEF EndedFor
    <3>3. ~Reading'
      <4>1. result' \in Codes
        BY <2>9, Zenon DEF Raised
      <4> QED
        BY <4>1 DEF Reading, Codes
    <3> QED
      BY <1>1, <1>7, <2>6, <3>2, <3>3, PlacedIs, Zenon
  <2>10. CASE result' = "decoding" /\ UNCHANGED <<yielded, pending>>
    <3>1. yielded' \o pending' = Messages(m)
      BY <1>4, <2>10, Zenon DEF Taken
    <3>2. pos' = received' /\ client' = "ts" /\ Behind(m)'
      BY <1>1, <1>2, <1>5, <1>6, <1>12, <2>2
    <3>3. Truncated(m)'
      BY <1>5, <2>4, <2>10, <3>1, <3>2, Zenon DEF Truncated
    <3>4. EndedFor(n, m)'
      BY <1>5, <1>6, <2>2, <3>3, Zenon DEF EndedFor
    <3>5. ~Reading'
      BY <2>10 DEF Reading
    <3> QED
      BY <1>1, <1>7, <2>6, <3>4, <3>5, PlacedIs, Zenon
  <2>11. CASE UNCHANGED <<pending, trailer, yielded, result>>
    <3>1. Taken(m)' /\ Reading'
      BY <1>1, <1>4, <2>11, TakenKept DEF Reading
    <3>2. Ended(n, m)'
      BY <1>4, <1>5, <1>6, <2>6, <3>1, Zenon DEF Ended
    <3> QED
      BY <1>1, <1>7, <1>8, <2>6, <3>1, <3>2, PlacedIs, Zenon
  <2> QED
    BY <2>3, <2>6, <2>7, <2>8, <2>9, <2>10, <2>11, Zenon
<1> QED
  BY <1>2, <1>10, <1>11, <1>12

\* What is left of a line that is not blank begins as the line does.
LEMMA LeftOfLine ==
    ASSUME SourceOK, NEW line \in Seq(Lexeme \ {"nl", "cr"}), line # <<>>,
           buffer \in Seq(Lexeme), buffer # <<>>, Buffered(line)
    PROVE  Trimmed(buffer) \in Seq(Lexeme) /\ Trimmed(buffer) # <<>> /\ Within(Trimmed(buffer), 0, line)
<1>1. /\ Len(buffer) \in Nat /\ Len(line) \in Nat /\ line \in Seq(Lexeme)
      /\ Len(buffer) <= Len(line) => Trimmed(buffer) = buffer /\ Within(buffer, 0, line)
      /\ Len(buffer) > Len(line) => Trimmed(buffer) = line
  BY TrimmedIs
<1>2. CASE Len(buffer) <= Len(line)
  BY <1>1, <1>2, Zenon
<1>3. CASE Len(buffer) > Len(line)
  <2>1. Within(line, 0, line)
    BY <1>1 DEF Within
  <2> QED
    BY <1>1, <1>3, <2>1, Zenon
<1> QED
  BY <1>1, <1>2, <1>3

\* The data cut short behind a line, and inside one.
LEMMA LeftOfData ==
    ASSUME SourceOK, NEW i \in 1 .. Len(events), NEW l \in 1 .. Len(LinesOf(i)), NEW q \in Seq(Lexeme),
           Within(q, 0, LinesOf(i)[l]), NEW d, d = Append(Beginning(LinesOf(i), l - 1), q)
    PROVE  d \in Seq(Seq(Lexeme)) /\ Word(FlattenSeq(d)) \in {"bad", WordOf(i)}
<1>1. PICK k \in Nat : k = Len(LinesOf(i))
  BY DataType
<1>2. PICK s \in [1 .. k -> Seq(Lexeme)] : s = LinesOf(i)
  <2>1. LinesOf(i) \in Seq(Seq(Lexeme))
    BY StreamFacts
  <2> QED
    BY <1>1, <2>1
<1>3. PICK m \in Nat : m = l - 1 /\ m < k /\ m + 1 = l /\ m \in 0 .. k
  <2>1. l - 1 \in Nat /\ l - 1 < k /\ (l - 1) + 1 = l /\ l - 1 \in 0 .. k
    BY <1>1
  <2> QED
    BY <2>1
<1>4. PICK a \in Seq(Lexeme) : a = FlattenSeq(Beginning(s, m))
  BY <1>3, BeginningType
<1>5. PICK w \in Seq(Lexeme) : w = FlattenSeq(s)
  BY <1>2, WordOfType
<1>6. Within(a, 0, w) /\ Within(s[m + 1], Len(a), w)
  BY <1>3, <1>4, <1>5, FlattenPrefix, FlattenPart
<1>7. Within(q, Len(a), w)
  <2>1. s[m + 1] \in Seq(Lexeme) /\ Within(q, 0, s[m + 1])
    <3>1. m + 1 \in 1 .. k
      BY <1>3
    <3> QED
      BY <1>2, <1>3, <3>1
  <2>2. Within(q, Len(a) + 0, w)
    BY <1>6, <2>1, WithinPart
  <2>3. Len(a) + 0 = Len(a)
    BY ElementOf
  <2> QED
    BY <2>2, <2>3
<1>8. Within(a \o q, 0, w)
  BY <1>6, <1>7, WithinJoined
<1>9. PICK b \in [1 .. m -> Seq(Lexeme)] : b = Beginning(s, m)
  BY <1>3, BeginningType
<1>10. d = Append(b, q)
  BY <1>2, <1>3, <1>9
<1>11. Append(b, q) \in Seq(Seq(Lexeme)) /\ FlattenSeq(Append(b, q)) = FlattenSeq(b) \o q
  BY FlattenAppend
<1>12. d \in Seq(Seq(Lexeme)) /\ FlattenSeq(d) = a \o q
  BY <1>4, <1>9, <1>10, <1>11, Zenon
<1>13. FlattenSeq(d) \in Seq(Lexeme) /\ Within(FlattenSeq(d), 0, FlattenSeq(LinesOf(i)))
  <2>1. a \o q \in Seq(Lexeme)
    BY Concatenated
  <2> QED
    BY <1>2, <1>5, <1>8, <1>12, <2>1, Zenon
<1>14. Word(FlattenSeq(d)) \in {"bad", WordOf(i)}
  BY <1>13, CutShort
<1> QED
  BY <1>12, <1>14

\* Of the data of an event, a beginning is the whole or does not parse.
LEMMA LeftBetweenLines ==
    ASSUME SourceOK, NEW i \in 1 .. Len(events), NEW l \in Nat, l # 0, l < LastLine(i)
    PROVE  Word(FlattenSeq(Beginning(LinesOf(i), l - 1))) \in {"bad", WordOf(i)}
<1>1. PICK k \in Nat : k = Len(LinesOf(i))
  BY DataType
<1>2. PICK s \in [1 .. k -> Seq(Lexeme)] : s = LinesOf(i)
  <2>1. LinesOf(i) \in Seq(Seq(Lexeme))
    BY StreamFacts
  <2> QED
    BY <1>1, <2>1
<1>3. l - 1 \in 0 .. k
  BY <1>1 DEF LastLine
<1>4. FlattenSeq(Beginning(s, l - 1)) \in Seq(Lexeme) /\ Within(FlattenSeq(Beginning(s, l - 1)), 0, FlattenSeq(s))
  BY <1>3, BeginningType, FlattenPrefix
<1>5. /\ FlattenSeq(Beginning(LinesOf(i), l - 1)) \in Seq(Lexeme)
      /\ Within(FlattenSeq(Beginning(LinesOf(i), l - 1)), 0, FlattenSeq(LinesOf(i)))
  BY <1>2, <1>4, Zenon
<1> QED
  BY <1>5, CutShort

\* The end of the stream: what is left of a line of event n + 1 is taken for
\* the line, and the parser for behind the event if it was the blank one.
LEMMA EndInLine ==
    ASSUME SourceOK, UNCHANGED source, ParserOK, Reading, buffer \in Seq(Lexeme), buffer # <<>>,
           NEW n \in 0 .. Len(events), NEW l \in Nat, AtLine(n, l), processLine(Trimmed(buffer))
    PROVE  /\ ParserOK' /\ n # Len(events)
           /\ \/ /\ Reading' /\ Taken(n)'
                 /\ \/ data' = <<>>
                    \/ /\ flags' = events[n + 1].flags
                       /\ Word(FlattenSeq(data')) \in {"bad", WordOf(n + 1)}
              \/ Reading' /\ Taken(n + 1)' /\ data' = <<>>
              \/ Undecoded(n)'
              \/ Raised(n + 1)'
<1>1. Taken(n) /\ Hand(n, l)
  BY Zenon DEF AtLine
<1>2. n # Len(events) /\ l < LastLine(n + 1) /\ Buffered(SentLine(n + 1, l + 1))
  BY Zenon DEF AtLine
<1>3. n + 1 \in 1 .. Len(events)
  BY <1>2, LinePart
<1>4. PICK i \in 1 .. Len(events) : i = n + 1
  BY <1>3
<1>5. PICK line : line = SentLine(i, l + 1)
  OBVIOUS
<1>6. /\ line \in Seq(Lexeme \ {"nl", "cr"})
      /\ l = 0 => line = <<":flags ", events[i].flags>>
      /\ l # 0 /\ l + 1 # LastLine(i) => l \in 1 .. Len(LinesOf(i)) /\ line = <<"data: ">> \o LinesOf(i)[l]
      /\ l + 1 = LastLine(i) => line = <<>>
  <2>1. l < LastLine(i)
    BY <1>2, <1>4
  <2> QED
    BY <1>5, <2>1, SentLineIs, Zenon
<1>7. PICK p : p = Trimmed(buffer)
  OBVIOUS
<1>8. processLine(p)
  BY <1>7, Zenon
<1>9. PICK fl, da : fl = ":flags " /\ da = "data: " /\ fl # da /\ fl \in Lexeme /\ da \in Lexeme
  <2>1. ":flags " # "data: "
    BY Zenon
  <2> QED
    BY <2>1, Lexemes, Zenon
<1>10. p # <<>> =>
        /\ flags' = IF Head(p) = fl THEN FlagsOf(p) ELSE flags
        /\ data' = IF Head(p) = da THEN Append(data, Tail(p)) ELSE data
        /\ UNCHANGED <<pending, trailer, yielded, result>>
  BY <1>8, <1>9, Zenon DEF processLine
<1>11. /\ LinesOf(i) \in Seq(Seq(Lexeme)) /\ events[i].flags \in {"0", "2"} /\ events[i].flags \in Lexeme
  BY StreamFacts, Lexemes
<1>12. line # <<>> => p \in Seq(Lexeme) /\ p # <<>> /\ Within(p, 0, line)
  <2>1. Buffered(line)
    BY <1>2, <1>4, <1>5, Zenon
  <2> QED
    BY <1>6, <1>7, <2>1, LeftOfLine, Zenon
<1>13. CASE l = 0
  <2>1. PICK f \in Lexeme : f = events[i].flags /\ f \in {"0", "2"}
    BY <1>11
  <2>2. line = <<fl, f>>
    BY <1>6, <1>9, <1>13, <2>1, Zenon
  <2>3. <<fl, f>> = <<fl>> \o <<f>> /\ <<f>> \in Seq(Lexeme) /\ <<fl, f>> # <<>>
    OBVIOUS
  <2>4. p \in Seq(Lexeme) /\ p # <<>> /\ Within(p, 0, <<fl>> \o <<f>>) /\ Within(p, 0, <<fl, f>>)
    BY <1>12, <2>2, <2>3, Zenon
  <2>5. Head(p) = fl
    BY <1>9, <2>3, <2>4, WithinTail
  <2>6. Len(p) = 2 => p[2] \in {"0", "2"}
    <3>0. <<fl, f>> \in Seq(Lexeme) /\ <<fl, f>>[2] = f
      <4>1. fl \in Lexeme
        BY <1>9, Zenon
      <4> QED
        BY <4>1, TwoOf, HeadOfTwo
    <3>1. PICK w \in Seq(Lexeme) : w = <<fl, f>> /\ w[2] = f
      BY <3>0, Zenon
    <3>2. Within(p, 0, w) /\ p \in Seq(Lexeme)
      BY <2>4, <3>1
    <3>3. \A j \in 1 .. Len(p) : w[j] = p[j]
      BY <3>2, WholePart
    <3>4. Len(p) = 2 => 2 \in 1 .. Len(p)
      OBVIOUS
    <3>5. Len(p) = 2 => p[2] = f
      BY <3>1, <3>3, <3>4, Zenon
    <3> QED
      BY <2>1, <3>5
  <2>7. FlagsOf(p) \in {"0", "2"}
    <3>1. flags \in {"0", "2"}
      BY DEF ParserOK
    <3> QED
      BY <2>6, <3>1 DEF FlagsOf
  <2>8. flags' = FlagsOf(p) /\ data' = data /\ UNCHANGED <<pending, trailer, yielded, result>>
    BY <1>9, <1>10, <2>4, <2>5, Zenon
  <2>9. ParserOK' /\ Reading'
    <3>1. flags' \in {"0", "2"}
      BY <2>7, <2>8, Zenon
    <3>2. data' = data /\ pending' = pending /\ trailer' = trailer /\ yielded' = yielded /\ result' = result
      BY <2>8
    <3> QED
      BY <3>1, <3>2 DEF ParserOK, Reading
  <2>10. Taken(n)'
    BY <1>1, <2>8, TakenKept, Zenon
  <2>11. data' = <<>>
    BY <1>1, <1>13, <2>8, Zenon DEF Hand
  <2> QED
    BY <1>2, <2>9, <2>10, <2>11
<1>14. CASE l # 0 /\ l + 1 # LastLine(i)
  <2>1. l \in 1 .. Len(LinesOf(i)) /\ line = <<da>> \o LinesOf(i)[l]
    BY <1>6, <1>9, <1>14, Zenon
  <2>2. PICK t \in Seq(Lexeme) : t = LinesOf(i)[l]
    <3>1. LinesOf(i)[l] \in Seq(Lexeme)
      BY <1>11, <2>1, ElementOf
    <3> QED
      BY <3>1
  <2>3. <<da>> \o t # <<>>
    BY <1>9, HeadOfJoined
  <2>4. p \in Seq(Lexeme) /\ p # <<>> /\ Within(p, 0, <<da>> \o t)
    BY <1>12, <2>1, <2>2, <2>3, Zenon
  <2>5. Head(p) = da /\ Tail(p) \in Seq(Lexeme) /\ Within(Tail(p), 0, t)
    BY <1>9, <2>4, WithinTail
  <2>6. flags' = flags /\ data' = Append(data, Tail(p)) /\ UNCHANGED <<pending, trailer, yielded, result>>
    BY <1>9, <1>10, <2>4, <2>5, Zenon
  <2>7. flags = events[i].flags /\ data = Beginning(LinesOf(i), l - 1)
    BY <1>1, <1>4, <1>14, Zenon DEF Hand
  <2>8. PICK q \in Seq(Lexeme) : q = Tail(p)
    BY <2>5
  <2>9. PICK d : d = Append(Beginning(LinesOf(i), l - 1), q)
    OBVIOUS
  <2>10. d \in Seq(Seq(Lexeme)) /\ Word(FlattenSeq(d)) \in {"bad", WordOf(i)}
    <3>1. Within(q, 0, LinesOf(i)[l])
      BY <2>2, <2>5, <2>8
    <3> QED
      BY <2>1, <2>9, <3>1, LeftOfData
  <2>11. data' = d
    BY <2>6, <2>7, <2>8, <2>9, Zenon
  <2>12. ParserOK' /\ Reading'
    <3>1. pending' = pending /\ trailer' = trailer /\ yielded' = yielded /\ result' = result /\ flags' = flags
      BY <2>6
    <3> QED
      BY <2>10, <2>11, <3>1 DEF ParserOK, Reading
  <2>13. Taken(n)'
    BY <1>1, <2>6, TakenKept, Zenon
  <2>14. flags' = events[n + 1].flags /\ Word(FlattenSeq(data')) \in {"bad", WordOf(n + 1)}
    BY <1>4, <2>6, <2>7, <2>10, <2>11, Zenon
  <2> QED
    BY <1>2, <2>12, <2>13, <2>14
<1>15. CASE l + 1 = LastLine(i)
  <2>1. line = <<>>
    BY <1>6, <1>15, Zenon
  <2>2. p = line
    <3>1. Buffered(line)
      BY <1>2, <1>4, <1>5, Zenon
    <3>2. Len(buffer) \in Nat /\ Len(line) = 0 /\ (Len(buffer) > Len(line) => Trimmed(buffer) = line)
      <4>1. Len(buffer) \in Nat /\ (Len(buffer) > Len(line) => Trimmed(buffer) = line)
        BY <1>6, <3>1, TrimmedIs
      <4> QED
        BY <2>1, <4>1
    <3>3. Len(buffer) > 0
      BY ElementOf
    <3> QED
      BY <1>7, <3>2, <3>3
  <2>3. processLine(SentLine(n + 1, l + 1))
    BY <1>4, <1>5, <1>8, <2>2, Zenon
  <2>4. l + 1 = LastLine(n + 1)
    BY <1>4, <1>15
  <2>5. /\ ParserOK'
        /\ l + 1 = LastLine(n + 1) =>
             \/ Taken(n + 1)' /\ Hand(n + 1, 0)' /\ Reading'
             \/ Undecoded(n)'
             \/ Raised(n + 1)'
    BY <1>1, <1>2, <2>3, LineDone
  <2>6. Hand(n + 1, 0)' => data' = <<>>
    BY Zenon DEF Hand
  <2> QED
    BY <1>2, <2>4, <2>5, <2>6, Zenon
<1> QED
  BY <1>4, <1>13, <1>14, <1>15

\* The end between two lines, or in the comment: nothing is taken for a line.
LEMMA EndOutside ==
    ASSUME SourceOK, StateOK, UNCHANGED source, Reading, UNCHANGED parser, pos' = pos, phase' = "blank",
           InComment \/ (buffer = <<>> /\ \E n \in 0 .. Len(events) : \E l \in Nat : AtLine(n, l))
    PROVE  ParserOK' /\ Placed'
<1>1. /\ flags' = flags /\ data' = data /\ pending' = pending /\ trailer' = trailer
      /\ yielded' = yielded /\ result' = result
  BY DEF parser
<1>2. ParserOK' /\ Reading' /\ buffer \in Seq(Lexeme)
  BY <1>1 DEF StateOK, ParserOK, Reading
<1>3. events' = events /\ Len(events) \in Nat /\ 0 \in 0 .. Len(events)
  <2>1. Len(events) \in Nat /\ events' = events
    BY StreamFacts, Fixed
  <2> QED
    BY <2>1
<1>4. phase' \in {"blank", "last"}
  OBVIOUS
<1>5. CASE InComment
  <2>1. Behind(0)
    BY <1>2, <1>5, BehindComment
  <2>2. Behind(0)'
    BY <2>1, BehindKept
  <2>3. Taken(0)' /\ data' = <<>>
    <3>1. Taken(0) /\ data = <<>>
      BY <1>5, Zenon DEF InComment, Hand
    <3> QED
      BY <1>1, <3>1, TakenKept
  <2>4. 0 \in {0, 0 + 1} /\ 0 <= Len(events)
    BY <1>3
  <2>5. Ended(0, 0)'
    BY <1>3, <2>2, <2>3, <2>4, Zenon DEF Ended
  <2> QED
    BY <1>2, <1>3, <1>4, <2>5, PlacedIs, Zenon
<1>6. CASE buffer = <<>> /\ \E n \in 0 .. Len(events) : \E l \in Nat : AtLine(n, l)
  <2>1. PICK n \in 0 .. Len(events), l \in Nat : AtLine(n, l)
    BY <1>6, Zenon
  <2>2. Behind(n)
    BY <1>2, <2>1, BehindHere
  <2>3. Behind(n)'
    BY <2>2, BehindKept
  <2>4. Taken(n) /\ Hand(n, l) /\ (n = Len(events) => l = 0) /\ (n # Len(events) => l < LastLine(n + 1))
    BY <2>1, Zenon DEF AtLine
  <2>5. Taken(n)'
    BY <1>1, <2>4, TakenKept
  <2>6. n \in {n, n + 1} /\ n <= Len(events)
    BY <1>3
  <2>7. CASE l = 0
    <3>1. data' = <<>>
      BY <1>1, <2>4, <2>7, Zenon DEF Hand
    <3>2. Ended(n, n)'
      BY <1>3, <2>3, <2>5, <2>6, <3>1, Zenon DEF Ended
    <3> QED
      BY <1>2, <1>4, <3>2, PlacedIs, Zenon
  <2>8. CASE l # 0
    <3>1. n < Len(events) /\ l < LastLine(n + 1) /\ n + 1 \in 1 .. Len(events)
      BY <1>3, <2>4, <2>8
    <3>2. flags = events[n + 1].flags /\ data = Beginning(LinesOf(n + 1), l - 1)
      BY <2>4, <2>8, Zenon DEF Hand
    <3>3. Word(FlattenSeq(Beginning(LinesOf(n + 1), l - 1))) \in {"bad", WordOf(n + 1)}
      BY <2>8, <3>1, LeftBetweenLines
    <3>4. WordOf(n + 1)' = WordOf(n + 1)
      BY Fixed, Zenon
    <3>5. flags' = events'[n + 1].flags /\ Word(FlattenSeq(data')) \in {"bad", WordOf(n + 1)'}
      BY <1>1, <1>3, <3>2, <3>3, <3>4, Zenon
    <3>6. Ended(n, n)'
      BY <1>3, <2>3, <2>5, <2>6, <3>1, <3>5, Zenon DEF Ended
    <3> QED
      BY <1>2, <1>4, <3>6, PlacedIs, Zenon
  <2> QED
    BY <2>7, <2>8
<1> QED
  BY <1>5, <1>6

\* The stream ends: what is left of a line counts as a line.
LEMMA EndStep ==
    ASSUME SourceOK, TypeOK, StateOK, Placed, End
    PROVE  TypeOK' /\ StateOK' /\ Placed'
<1>1. /\ UNCHANGED source /\ Reading /\ phase = "read" /\ phase' = "blank"
      /\ received' = received /\ pos' = pos /\ buffer' = <<>>
      /\ buffer # <<>> => processLine(Trimmed(buffer))
      /\ buffer = <<>> => UNCHANGED parser
  BY Zenon DEF End
<1>2. ParserOK /\ buffer \in Seq(Lexeme) /\ pos = received /\ events' = events /\ Len(events) \in Nat
  BY <1>1, Fixed, StreamFacts DEF StateOK
<1>3. ASSUME ParserOK', Placed' PROVE TypeOK' /\ StateOK' /\ Placed'
  <2>1. phase' \in {"read", "parse", "blank", "last"} /\ phase' # "read"
    BY <1>1
  <2>2. TypeOK'
    BY <1>1, <1>3, <2>1, TypeKept
  <2>3. buffer' \in Seq(Lexeme)
    BY <1>1
  <2>4. StateOK'
    BY <1>1, <1>2, <1>3, <2>1, <2>3 DEF StateOK
  <2> QED
    BY <1>3, <2>2, <2>4
<1>4. InComment \/ \E n \in 0 .. Len(events) : \E l \in Nat : AtLine(n, l)
  <2>1. phase \in {"read", "parse"}
    BY <1>1
  <2> QED
    BY <1>1, <2>1, PlaceIs
<1>5. phase' \in {"blank", "last"}
  BY <1>1
<1>6. CASE InComment
  <2>1. UNCHANGED parser
    <3>1. CASE buffer = <<>>
      BY <1>1, <3>1, Zenon
    <3>2. CASE buffer # <<>>
      <4>1. PICK co : co = <<": ">>
        OBVIOUS
      <4>2. Trimmed(buffer) = co
        <5>1. co \in Seq(Lexeme \ {"nl", "cr"}) /\ Buffered(co)
          BY <1>6, <4>1, CommentIs, Zenon DEF InComment
        <5>2. /\ Len(buffer) \in Nat /\ Len(co) \in Nat /\ co \in Seq(Lexeme)
              /\ Len(buffer) <= Len(co) => Trimmed(buffer) = buffer /\ Within(buffer, 0, co)
              /\ Len(buffer) > Len(co) => Trimmed(buffer) = co
          BY <1>2, <5>1, TrimmedIs
        <5>3. CASE Len(buffer) <= Len(co)
          <6>1. Len(co) = 1
            <7>1. \A x : Len(<<x>>) = 1
              OBVIOUS
            <7> QED
              BY <4>1, <7>1, Zenon
          <6>2. Len(buffer) # 0
            BY <1>2, <3>2
          <6>3. Len(buffer) = Len(co)
            <7>1. Len(buffer) \in Nat
              BY <5>2
            <7> QED
              BY <5>3, <6>1, <6>2, <7>1
          <6> QED
            BY <1>2, <5>2, <5>3, <6>3, WholePart
        <5>4. CASE Len(buffer) > Len(co)
          BY <5>2, <5>4
        <5> QED
          BY <5>2, <5>3, <5>4
      <4>3. processLine(co)
        BY <1>1, <3>2, <4>2, Zenon
      <4>4. /\ flags' = flags /\ data' = data /\ UNCHANGED <<pending, trailer, yielded, result>>
        BY <4>1, <4>3, CommentIs, Zenon DEF processLine
      <4> QED
        BY <4>4 DEF parser
    <3> QED
      BY <3>1, <3>2
  <2>2. ParserOK' /\ Placed'
    BY <1>1, <1>6, <2>1, EndOutside
  <2> QED
    BY <1>3, <2>2
<1>7. CASE buffer = <<>> /\ \E n \in 0 .. Len(events) : \E l \in Nat : AtLine(n, l)
  <2>1. ParserOK' /\ Placed'
    BY <1>1, <1>7, EndOutside
  <2> QED
    BY <1>3, <2>1
<1>8. CASE buffer # <<>> /\ \E n \in 0 .. Len(events) : \E l \in Nat : AtLine(n, l)
  <2>1. PICK n \in 0 .. Len(events), l \in Nat : AtLine(n, l)
    BY <1>8, Zenon
  <2>2. Behind(n)
    BY <1>2, <2>1, BehindHere
  <2>3. Behind(n)'
    BY <1>1, <2>2, BehindKept
  <2>4. /\ ParserOK' /\ n # Len(events)
        /\ \/ /\ Reading' /\ Taken(n)'
              /\ \/ data' = <<>>
                 \/ /\ flags' = events[n + 1].flags
                    /\ Word(FlattenSeq(data')) \in {"bad", WordOf(n + 1)}
           \/ Reading' /\ Taken(n + 1)' /\ data' = <<>>
           \/ Undecoded(n)'
           \/ Raised(n + 1)'
    BY <1>1, <1>2, <1>8, <2>1, EndInLine
  <2>5. n < Len(events) /\ n <= Len(events) /\ n <= n /\ n \in {n, n + 1}
    BY <1>2, <2>4
  <2>6. PICK k \in 0 .. Len(events) : k = n + 1 /\ k \in {n, n + 1} /\ k <= Len(events) /\ n <= k
    BY <1>2, <2>5
  <2>7. WordOf(n + 1)' = WordOf(n + 1)
    BY <1>1, Fixed, Zenon
  <2>8. CASE /\ Reading' /\ Taken(n)'
             /\ \/ data' = <<>>
                \/ /\ flags' = events[n + 1].flags
                   /\ Word(FlattenSeq(data')) \in {"bad", WordOf(n + 1)}
    <3>1. \/ data' = <<>>
          \/ flags' = events'[n + 1].flags /\ Word(FlattenSeq(data')) \in {"bad", WordOf(n + 1)'}
      BY <1>2, <2>7, <2>8, Zenon
    <3>2. Ended(n, n)'
      BY <1>1, <1>2, <2>3, <2>5, <2>8, <3>1, Zenon DEF Ended
    <3> QED
      BY <1>1, <1>3, <1>5, <2>4, <2>8, <3>2, PlacedIs, Zenon
  <2>9. CASE Reading' /\ Taken(n + 1)' /\ data' = <<>>
    <3>1. Taken(k)'
      BY <2>6, <2>9
    <3>2. Ended(n, k)'
      BY <1>2, <2>3, <2>6, <2>9, <3>1, Zenon DEF Ended
    <3> QED
      BY <1>1, <1>3, <1>5, <2>4, <2>9, <3>2, PlacedIs, Zenon
  <2>10. CASE Undecoded(n)'
    <3>1. EndedFor(n, n)'
      BY <1>2, <2>3, <2>5, <2>10, Zenon DEF EndedFor
    <3>2. ~Reading'
      <4>1. result' = "decoding"
        BY <2>10, Zenon DEF Undecoded
      <4> QED
        BY <4>1 DEF Reading
    <3> QED
      BY <1>1, <1>3, <2>4, <3>1, <3>2, PlacedIs, Zenon
  <2>11. CASE Raised(n + 1)'
    <3>1. Raised(k)'
      BY <2>6, <2>11
    <3>2. EndedFor(n, k)'
      BY <1>2, <2>3, <2>6, <3>1, Zenon DEF EndedFor
    <3>3. ~Reading'
      <4>1. result' \in Codes
        BY <2>11, Zenon DEF Raised
      <4> QED
        BY <4>1 DEF Reading, Codes
    <3> QED
      BY <1>1, <1>3, <2>4, <3>2, <3>3, PlacedIs, Zenon
  <2> QED
    BY <2>4, <2>8, <2>9, <2>10, <2>11, Zenon
<1> QED
  BY <1>4, <1>6, <1>7, <1>8, Zenon

-----------------------------------------------------------------------------
\* The invariant.

LEMMA Stutter ==
    ASSUME TypeOK, StateOK, Placed, UNCHANGED vars
    PROVE  TypeOK' /\ StateOK' /\ Placed'
<1>1. /\ UNCHANGED source /\ received' = received /\ pos' = pos /\ phase' = phase /\ buffer' = buffer
      /\ flags' = flags /\ data' = data /\ pending' = pending /\ trailer' = trailer
      /\ yielded' = yielded /\ result' = result
  BY DEF vars, parser
<1>2. events' = events /\ client' = client /\ Wire' = Wire
  BY <1>1, Fixed
<1>3. ParserOK => ParserOK'
  BY <1>1, Zenon DEF ParserOK
<1>4. Reading' <=> Reading
  BY <1>1, Zenon DEF Reading
<1>5. TypeOK'
  BY <1>1, <1>2, Zenon DEF TypeOK
<1>6. StateOK'
  BY <1>1, <1>3, <1>4, Zenon DEF StateOK
<1>7. \A n : Taken(n) => Taken(n)'
  BY <1>1, TakenKept
<1>8. \A n : Behind(n) => Behind(n)'
  BY <1>1, BehindKept
<1>9. (InComment => InComment') /\ \A n : \A l : AtLine(n, l) => AtLine(n, l)'
  BY <1>1, <1>7, PlaceKept
<1>10. \A i : /\ (IsBad(i)' <=> IsBad(i)) /\ WordOf(i)' = WordOf(i)
              /\ Messages(i)' = Messages(i) /\ Verdict(i)' = Verdict(i)
  BY <1>1, Fixed, Zenon
<1>11. CASE Reading /\ phase \in {"read", "parse"}
  <2>1. InComment \/ \E n \in 0 .. Len(events) : \E l \in Nat : AtLine(n, l)
    BY <1>11, Zenon DEF Placed
  <2>2. InComment' \/ \E n \in 0 .. Len(events) : \E l \in Nat : AtLine(n, l)'
    BY <1>9, <2>1, Zenon
  <2> QED
    BY <1>1, <1>4, <1>5, <1>6, <1>11, <2>2, PlacedIs, Zenon
<1>12. CASE Reading /\ phase \in {"blank", "last"}
  <2>1. PICK n \in 0 .. Len(events), m \in 0 .. Len(events) : Ended(n, m)
    BY <1>12, Zenon DEF Placed
  <2>2. Ended(n, m)'
    BY <1>1, <1>2, <1>7, <1>8, <1>10, <2>1, Zenon DEF Ended
  <2> QED
    BY <1>1, <1>4, <1>5, <1>6, <1>12, <2>2, PlacedIs, Zenon
<1>13. CASE ~Reading
  <2>1. PICK n, m : EndedFor(n, m)
    BY <1>13, Zenon DEF Placed
  <2>2. /\ Undecoded(m) => Undecoded(m)'
        /\ Truncated(m) => Truncated(m)'
        /\ Raised(m) => Raised(m)'
        /\ Broken(m) => Broken(m)'
        /\ Finished(m) => Finished(m)'
    <3>1. Undecoded(m) => Undecoded(m)'
      BY <1>1, <1>2, <1>10, Zenon DEF Undecoded
    <3>2. Truncated(m) => Truncated(m)'
      BY <1>1, <1>2, <1>8, <1>10, Zenon DEF Truncated
    <3>3. Raised(m) => Raised(m)'
      BY <1>1, <1>2, <1>10, Zenon DEF Raised, Codes
    <3>4. Broken(m) => Broken(m)'
      BY <1>1, <1>2, <1>10, Zenon DEF Broken
    <3>5. Finished(m) => Finished(m)'
      BY <1>1, <1>2, <1>10, Zenon DEF Finished
    <3> QED
      BY <3>1, <3>2, <3>3, <3>4, <3>5
  <2>3. EndedFor(n, m)'
    BY <1>2, <1>8, <2>1, <2>2, Zenon DEF EndedFor
  <2> QED
    BY <1>1, <1>4, <1>5, <1>6, <1>13, <2>3, PlacedIs, Zenon
<1>14. phase \in {"read", "parse", "blank", "last"}
  BY DEF TypeOK
<1> QED
  BY <1>11, <1>12, <1>13, <1>14

\* Before the first chunk the parser is at the start of the comment.
LEMMA StreamInit ==
    ASSUME Init
    PROVE  StreamInv
<1>1. SourceOK
  BY DEF Init, SourceOK
<1>2. /\ received = 0 /\ pos = 0 /\ phase = "read" /\ buffer = <<>> /\ flags = "0" /\ data = <<>>
      /\ pending = <<>> /\ trailer = "none" /\ yielded = <<>> /\ result = "reading"
  BY DEF Init
<1>3. Len(events) \in Nat /\ 0 \in 0 .. Len(events) /\ Len(events) \in 0 .. Len(events)
  <2>1. Len(events) \in Nat
    BY <1>1, StreamFacts
  <2> QED
    BY <2>1
<1>4. Len(Wire) \in Nat
  BY <1>1, <1>3, WireGrows DEF Wire
<1>5. ParserOK
  <2>1. <<>> \in Seq(Lexeme) /\ <<>> \in Seq(Seq(Lexeme))
    OBVIOUS
  <2> QED
    BY <1>2, <2>1 DEF ParserOK
<1>6. TypeOK
  <2>1. received \in 0 .. Len(Wire) /\ pos \in 0 .. received
    BY <1>2, <1>4
  <2> QED
    BY <1>2, <2>1 DEF TypeOK
<1>7. StateOK
  BY <1>2, <1>5 DEF StateOK
<1>8. InComment
  <2>1. Buffered(<<": ">>)
    <3>1. PICK co : co = <<": ">>
      OBVIOUS
    <3>2. co \in Seq(Lexeme)
      BY <3>1, Lexemes, OneOf, Zenon
    <3>3. eol \in Seq(Lexeme) /\ Len(eol) \in {1, 2}
      BY <1>1, StreamFacts
    <3>4. Len(co) \in Nat /\ Len(co \o eol) = Len(co) + Len(eol)
      BY <3>2, <3>3, Concatenated, ElementOf
    <3>5. 0 < Len(co \o eol)
      BY <3>3, <3>4
    <3>6. Len(buffer) < Len(co \o eol) /\ \A j \in 1 .. Len(buffer) : FALSE
      BY <1>2, <3>5
    <3>7. Buffered(co)
      BY <3>6, Zenon DEF Buffered
    <3> QED
      BY <3>1, <3>7, Zenon
  <2>2. Taken(0)
    <3>1. Messages(0) = <<>> /\ Verdict(0) = "ok"
      BY <1>1, <1>3, MessagesNext, VerdictIs
    <3>2. yielded \o pending = <<>>
      BY <1>2
    <3>3. \A j \in 1 .. 0 : FALSE
      OBVIOUS
    <3> QED
      BY <1>2, <3>1, <3>2, <3>3, Zenon DEF Taken
  <2>3. Hand(0, 0)
    BY <1>2, Zenon DEF Hand
  <2>4. pos = Len(buffer)
    BY <1>2
  <2> QED
    BY <2>1, <2>2, <2>3, <2>4 DEF InComment
<1>9. Placed
  <2>1. Reading /\ phase \notin {"blank", "last"}
    BY <1>2 DEF Reading
  <2> QED
    BY <1>8, <2>1, Zenon DEF Placed
<1> QED
  BY <1>1, <1>6, <1>7, <1>9 DEF StreamInv

\* Every step of the loop keeps the invariant.
LEMMA StreamStep ==
    ASSUME StreamInv, [Next]_vars
    PROVE  StreamInv'
<1>1. SourceOK /\ (Uncut => TypeOK /\ StateOK /\ Placed)
  BY DEF StreamInv
<1>2. UNCHANGED source
  <2>1. CASE Next
    BY <2>1 DEF Next, Receive, Token, Yield, End, LastBlank, Break, Over, vars
  <2>2. CASE UNCHANGED vars
    BY <2>2 DEF vars
  <2> QED
    BY <2>1, <2>2
<1>3. SourceOK' /\ (Uncut' <=> Uncut)
  BY <1>1, <1>2, Fixed
<1>4. ASSUME Uncut PROVE TypeOK' /\ StateOK' /\ Placed'
  <2>1. CASE Receive
    BY <1>1, <1>4, <2>1, ReceiveStep
  <2>2. CASE Token
    BY <1>1, <1>4, <2>2, TokenStep
  <2>3. CASE Yield
    BY <1>1, <1>4, <2>3, YieldStep
  <2>4. CASE End
    BY <1>1, <1>4, <2>4, EndStep
  <2>5. CASE LastBlank
    BY <1>1, <1>4, <2>5, LastBlankStep
  <2>6. CASE Break
    BY <1>1, <1>4, <2>6, BreakStep
  <2>7. CASE Over \/ UNCHANGED vars
    <3>1. UNCHANGED vars
      BY <2>7 DEF Over
    <3> QED
      BY <1>1, <1>4, <3>1, Stutter
  <2> QED
    BY <2>1, <2>2, <2>3, <2>4, <2>5, <2>6, <2>7 DEF Next
<1> QED
  BY <1>3, <1>4, Zenon DEF StreamInv

\* The invariant implies what the caller is promised.
LEMMA StreamTells ==
    ASSUME StreamInv, Uncut
    PROVE  TypeOK /\ YieldedInOrder /\ WholeStream /\ ArrivedIsDelivered
<1>1. SourceOK /\ TypeOK /\ StateOK /\ Placed
  BY DEF StreamInv
<1>2. ParserOK /\ yielded \in Seq(Lexeme) /\ pending \in Seq(Lexeme) /\ phase \in {"read", "parse", "blank", "last"}
  BY <1>1 DEF StateOK, ParserOK, TypeOK
<1>3. pos \in Nat
  BY <1>1 DEF TypeOK
<1>4. CASE ~Reading
  <2>1. PICK n, m : EndedFor(n, m)
    BY <1>1, <1>4, Zenon DEF Placed
  <2>2. Behind(n) /\ m \in 0 .. Len(events)
    BY <2>1, Zenon DEF EndedFor
  <2>3. CASE Undecoded(m) /\ n \in {m, m + 1}
    <3>1. Told
      BY <1>1, <1>2, <1>3, <2>2, <2>3, UndecodedEnds
    <3> QED
      BY <1>1, <3>1 DEF Told
  <2>4. CASE n <= m /\ ((Truncated(m) /\ n = m) \/ Raised(m) \/ Broken(m) \/ Finished(m))
    <3>1. /\ Truncated(n) => Told
          /\ Raised(m) => Told
          /\ Broken(m) => Told
          /\ Finished(m) => Told
      BY <1>1, <1>2, <1>3, <2>2, <2>4, Ends
    <3>2. Told
      BY <2>4, <3>1, Zenon
    <3> QED
      BY <1>1, <3>2 DEF Told
  <2>5. n = m => n <= m
    <3>1. Len(events) \in Nat
      BY <1>1, StreamFacts
    <3> QED
      BY <2>2, <3>1
  <2> QED
    BY <2>1, <2>3, <2>4, <2>5, Zenon DEF EndedFor
<1>5. CASE Reading
  <2>1. PICK n \in 0 .. Len(events) : Taken(n)
    <3>1. CASE phase \in {"read", "parse"}
      BY <1>1, <1>5, <3>1, PlaceIs
    <3>2. CASE phase \in {"blank", "last"}
      BY <1>1, <1>5, <3>2, Zenon DEF Placed, Ended
    <3> QED
      BY <1>2, <3>1, <3>2
  <2>2. IsPrefix(Messages(n), Messages(Len(events)))
    <3>1. n <= n
      <4>1. Len(events) \in Nat
        BY <1>1, StreamFacts
      <4> QED
        BY <4>1
    <3> QED
      BY <1>1, <3>1, MessagesOrder
  <2>3. YieldedInOrder
    BY <2>1, <2>2, Zenon DEF Taken, YieldedInOrder
  <2>4. WholeStream
    BY <1>5, Zenon DEF WholeStream
  <2>5. ArrivedIsDelivered
    BY <1>5, Zenon DEF ArrivedIsDelivered
  <2> QED
    BY <1>1, <2>3, <2>4, <2>5
<1> QED
  BY <1>4, <1>5

\* The invariant: the parser (streamSSE, _parse_sse_stream) is within the comment
\* or at a line of an event, and its flags, its data and what it has yielded are
\* those of the lines and events before that place; or it has ended in one of the
\* ways an end at such a place can take.
THEOREM StreamInvariant == Spec => []StreamInv
<1>1. Init => StreamInv
  BY StreamInit
<1>2. StreamInv /\ [Next]_vars => StreamInv'
  BY StreamStep
<1> QED
  BY <1>1, <1>2, PTL DEF Spec

\* The parsers keep to their types, flags included: a flags line that is cut
\* off leaves a number they can test (streamSSE, _parse_sse_stream).
THEOREM ParsersAreTyped == Spec => [](Uncut => TypeOK)
<1>1. StreamInv => (Uncut => TypeOK)
  BY StreamTells
<1> QED
  BY <1>1, StreamInvariant, PTL

\* What streamSSE and _parse_sse_stream yield are messages that were sent,
\* each once and in order.
THEOREM MessagesComeInOrder == Spec => [](Uncut => YieldedInOrder)
<1>1. StreamInv => (Uncut => YieldedInOrder)
  BY StreamTells
<1> QED
  BY <1>1, StreamInvariant, PTL

\* A stream that arrived whole gives all its messages and its trailer's error,
\* or a decoding error when a message does not parse.
THEOREM WholeStreamsAreDelivered == Spec => [](Uncut => WholeStream)
<1>1. StreamInv => (Uncut => WholeStream)
  BY StreamTells
<1> QED
  BY <1>1, StreamInvariant, PTL

\* Of a stream that stopped anywhere, the messages whose blank line arrived have
\* been yielded when the caller is told of the end, and an error that arrived is
\* not passed over.
THEOREM WhatArrivedIsDelivered == Spec => [](Uncut => ArrivedIsDelivered)
<1>1. StreamInv => (Uncut => ArrivedIsDelivered)
  BY StreamTells
<1> QED
  BY <1>1, StreamInvariant, PTL
=============================================================================
