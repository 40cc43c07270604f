----------------------------- MODULE EventStream -----------------------------
(***************************************************************************)
(* The two parsers of a server-streaming answer: streamSSE, which the      *)
(* TypeScript generator prints, and _parse_sse_stream of the Python        *)
(* runtime.  The server sends events, each a flags line, the lines of its  *)
(* data and a blank line; a message has flags 0, the trailer that ends the *)
(* stream flags 2.  The bytes come in chunks that respect nothing, and may *)
(* stop anywhere.                                                          *)
(*                                                                         *)
(* The wire is a sequence of tokens: what a line starts with, pieces of    *)
(* JSON, and the line ends "cr" and "nl".  "ls" is U+2028, a character as  *)
(* any other in JSON and a line end to Python's splitlines.                *)
(***************************************************************************)
EXTENDS Integers, Sequences, SequencesExt, FiniteSets

CONSTANTS
    Clients,    \* "ts", "py"
    Streams,    \* sequences of events the server may send
    LineEnds    \* how it ends lines: <<"nl">>, <<"cr", "nl">>

ASSUME ClientsAssumption == Clients \subseteq {"ts", "py"}
\* The trailer ends the stream.  Data is JSON: a line of it holds no line end
\* but "ls", and the brace that closes an object is the last of its tokens.
ASSUME StreamsAssumption ==
    \A s \in Streams :
        /\ s \in Seq([flags : {"0", "2"}, lines : Seq(Seq(STRING)) \ {<<>>}])
        /\ \A i \in DOMAIN s :
             /\ s[i].flags = "2" => i = Len(s)
             /\ \A k \in DOMAIN s[i].lines : \A j \in DOMAIN s[i].lines[k] :
                  /\ s[i].lines[k][j] \notin {"nl", "cr"}
                  /\ s[i].lines[k][j] = "}" =>
                        k = Len(s[i].lines) /\ j = Len(s[i].lines[k])
ASSUME LineEndsAssumption == LineEnds \subseteq {<<"nl">>, <<"cr", "nl">>}

VARIABLES
    client,     \* which parser reads
    events,     \* what the server sends
    eol,        \* and how it ends a line
    received,   \* tokens of the wire that have arrived
    pos,        \* tokens of the wire the parser has looked at
    phase,      \* where its loop is
    buffer,     \* the line under construction
    flags, data,        \* the event under construction
    pending,    \* messages of this chunk not yielded yet (ts)
    trailer,    \* the error of the trailer (ts)
    yielded,    \* messages the caller got
    result      \* "reading", "ok", "decoding", "transport" or a code

source == <<client, events, eol>>
parser == <<flags, data, pending, trailer, yielded, result>>
vars == <<source, received, pos, phase, buffer, parser>>

Codes == {"aborted", "internal"}

-----------------------------------------------------------------------------
\* The server (external, connectsse.Server).

Encode(e) ==
    <<":flags ", e.flags>> \o eol
    \o FlattenSeq([i \in DOMAIN e.lines |-> <<"data: ">> \o e.lines[i] \o eol])
    \o eol

\* Tokens of the first n events, with a keep-alive comment ahead.
WireOf(n) == <<": ">> \o eol \o FlattenSeq([i \in 1 .. n |-> Encode(events[i])])
Wire == WireOf(Len(events))

\* JSON, whole: the one word an object is about, which may contain U+2028.
\* Anything else does not parse.
Word(json) ==
    IF /\ Len(json) \in {3, 4} /\ Head(json) = "{" /\ Last(json) = "}"
       /\ Len(json) = 4 => json[3] = "ls"
    THEN json[2] ELSE "bad"

-----------------------------------------------------------------------------
\* The parsers, line by line.

Separators == IF client = "py" THEN {"nl", "ls"} ELSE {"nl"}

\* Mutant: a carriage return stays with its line.
Trimmed_Never(line) == line
Trimmed(line) == IF line # <<>> /\ Last(line) = "cr" THEN Front(line) ELSE line

\* Mutant: parseInt without "|| 0".
FlagsOf_NotANumber(line) == IF Len(line) = 2 THEN line[2] ELSE IF client = "py" THEN flags ELSE "NaN"
FlagsOf(line) == IF Len(line) = 2 THEN line[2] ELSE IF client = "py" THEN flags ELSE "0"

\* A message: TypeScript keeps it for the end of the chunk, Python yields it.
\* One that does not parse throws at once.
MessageEvent(m) ==
    /\ UNCHANGED trailer
    /\ \/ /\ m = "bad"
          /\ result' = "decoding" /\ UNCHANGED <<pending, yielded>>
       \/ /\ m # "bad" /\ client = "ts"
          /\ pending' = Append(pending, m) /\ UNCHANGED <<yielded, result>>
       \/ /\ m # "bad" /\ client = "py"
          /\ yielded' = Append(yielded, m) /\ UNCHANGED <<pending, result>>

\* The trailer: what does not parse, or has no error, is ignored; an error is
\* kept for the end of the chunk or raised.  An unknown code is "internal".
TrailerEvent(c) ==
    /\ UNCHANGED <<pending, yielded>>
    /\ IF c \in {"bad", "none"} THEN UNCHANGED <<trailer, result>>
       ELSE LET code == IF c \in Codes THEN c ELSE "internal"
            IN IF client = "ts" THEN trailer' = code /\ UNCHANGED result
                                ELSE result' = code /\ UNCHANGED trailer

processLine(line) ==
    IF line = <<>>
    THEN IF data = <<>> THEN UNCHANGED parser
         ELSE /\ LET word == Word(FlattenSeq(data))
                 IN IF flags = "2" THEN TrailerEvent(word) ELSE MessageEvent(word)
              /\ data' = <<>> /\ flags' = "0"
    ELSE /\ flags' = IF Head(line) = ":flags " THEN FlagsOf(line) ELSE flags
         /\ data' = IF Head(line) = "data: " THEN Append(data, Tail(line)) ELSE data
         /\ UNCHANGED <<pending, trailer, yielded, result>>

-----------------------------------------------------------------------------
\* The loop over chunks.

Reading == result = "reading"

\* reader.read() resolves with the next chunk.
Receive ==
    /\ Reading /\ phase = "read"
    /\ received' \in pos + 1 .. Len(Wire)
    /\ phase' = "parse"
    /\ UNCHANGED <<source, pos, buffer, parser>>

\* One character more; at the end of a line the line is processed.
Token ==
    /\ Reading /\ phase = "parse" /\ pos < received
    /\ LET t == Wire[pos + 1]
       IN IF t \in Separators
          THEN processLine(Trimmed(buffer)) /\ buffer' = <<>>
          ELSE buffer' = Append(buffer, t) /\ UNCHANGED parser
    /\ pos' = pos + 1
    /\ UNCHANGED <<source, received, phase>>

\* Mutant: an error of the trailer is thrown ahead of the pending messages.
Yielding_ErrorFirst == IF trailer = "none" THEN pending ELSE <<>>
Yielding == pending

\* Mutant: pending is not emptied.
Kept_All == pending
Kept == <<>>

\* The end of a chunk: pending messages are yielded, an error is thrown; after
\* the last one the generator returns.  (Python has nothing pending.)
Yield ==
    /\ Reading /\ pos = received /\ phase \in {"parse", "last"}
    /\ yielded' = yielded \o Yielding /\ pending' = Kept
    /\ result' = IF trailer # "none" THEN trailer ELSE IF phase = "last" THEN "ok" ELSE result
    /\ phase' = "read"
    /\ UNCHANGED <<source, received, pos, buffer, flags, data, trailer>>

\* The stream ends, whole or not, in a way HTTP takes for its end; what is
\* left of a line counts as a line.
End ==
    /\ Reading /\ phase = "read"
    /\ IF buffer # <<>> THEN processLine(Trimmed(buffer)) ELSE UNCHANGED parser
    /\ buffer' = <<>> /\ phase' = "blank"
    /\ UNCHANGED <<source, received, pos>>

\* TypeScript processes a blank line of its own.
LastBlank ==
    /\ Reading /\ phase = "blank"
    /\ IF client = "ts" THEN processLine(<<>>) ELSE UNCHANGED parser
    /\ phase' = "last"
    /\ UNCHANGED <<source, received, pos, buffer>>

\* The connection breaks: read() rejects, iter_lines raises.
Break ==
    /\ Reading /\ phase = "read"
    /\ result' = "transport"
    /\ UNCHANGED <<source, received, pos, phase, buffer, flags, data, pending, trailer, yielded>>

Over == ~Reading /\ UNCHANGED vars

Init ==
    /\ client \in Clients /\ events \in Streams /\ eol \in LineEnds
    /\ received = 0 /\ pos = 0 /\ phase = "read"
    /\ buffer = <<>> /\ flags = "0" /\ data = <<>>
    /\ pending = <<>> /\ trailer = "none" /\ yielded = <<>> /\ result = "reading"

Next == Receive \/ Token \/ Yield \/ End \/ LastBlank \/ Break \/ Over

Spec == Init /\ [][Next]_vars

-----------------------------------------------------------------------------
\* Types: a parser's flags are a number it can test, whatever line is cut off.
TypeOK ==
    /\ received \in 0 .. Len(Wire) /\ pos \in 0 .. received
    /\ phase \in {"read", "parse", "blank", "last"}
    /\ flags \in {"0", "2"}
    /\ trailer \in Codes \cup {"none"}
    /\ result \in Codes \cup {"reading", "ok", "decoding", "transport"}

WordOf(i) == Word(FlattenSeq(events[i].lines))
IsMessage(i) == events[i].flags = "0"
IsBad(i) == IsMessage(i) /\ WordOf(i) = "bad"
AllGood == \A i \in DOMAIN events : ~IsBad(i)

\* The messages of the first n events that come before one that does not parse.
Messages(n) ==
    FlattenSeq([i \in 1 .. n |-> IF IsMessage(i) /\ \A j \in 1 .. i : ~IsBad(j)
                                THEN <<WordOf(i)>> ELSE <<>>])

\* The error the first n events end with, if they do.
Verdict(n) ==
    IF n = 0 \/ IsMessage(n) \/ WordOf(n) \in {"bad", "none"} THEN "ok"
    ELSE IF WordOf(n) \in Codes THEN WordOf(n) ELSE "internal"

\* However the stream is cut into chunks and wherever it stops, the caller gets
\* messages that were sent, each once and in order.
YieldedInOrder == IsPrefix(yielded \o pending, Messages(Len(events)))

\* A stream that arrived whole gives the caller all its messages and the error
\* of its trailer, or a decoding error if one of them does not parse.
WholeStream ==
    ~Reading /\ received = Len(Wire) /\ result # "transport" =>
        IF AllGood THEN yielded = Messages(Len(events)) /\ result = Verdict(Len(events))
                   ELSE result = "decoding"

\* Of a stream that stopped anywhere: each message whose blank line arrived
\* has been yielded by the time the caller is told how the stream ended, and an
\* error whose blank line arrived is raised.  TypeScript is exempt when a message
\* does not parse.
ArrivedIsDelivered ==
    ~Reading /\ (result = "decoding" => client = "py") =>
        LET n == CHOOSE k \in 0 .. Len(events) :
                    /\ k = 0 \/ Len(WireOf(k)) <= pos
                    /\ k = Len(events) \/ Len(WireOf(k + 1)) > pos
        IN /\ Len(yielded) >= Len(Messages(n))
           /\ result = "ok" => Verdict(n) = "ok"
=============================================================================
