------------------------------ MODULE PathVars ------------------------------
(***************************************************************************)
(* One resource name on its way through a call, value by value: a          *)
(* generated client (Go, Python or TypeScript) takes the name apart and    *)
(* builds a URL; the ServeMux matches it; the generated dispatcher looks   *)
(* for a custom verb at its end; the handler puts the name together again. *)
(*                                                                         *)
(* The operations are those of one service that registers without error    *)
(* (module RouteTable says when).  Values are read by position; that the   *)
(* names of the variables agree is checked there too.                      *)
(*                                                                         *)
(* A streaming operation takes the path for routing only: its handler      *)
(* reads the message from the body.                                        *)
(***************************************************************************)
EXTENDS PathText, ServeMux

CONSTANTS
    Operations, \* the RPCs, in declaration order, each with one path variable:
                \* [http, tmpl, verb, serverStream], a stream being a POST
    Clients,    \* the client languages
    Ids,        \* resource IDs: texts
    Strays      \* names a caller passes that are not of the pattern: texts

ASSUME ClientsAssumption == Clients \subseteq {"go", "py", "ts"}

\* An ID is a text of characters, none of them an escaped form; so is a stray.
ASSUME IdsAssumption ==
    \A id \in Ids \cup Strays :
       id \in Seq(STRING) /\ \A k \in DOMAIN id : id[k] \notin {"%2F", "%25", "%3A", "%21"}

VARIABLES
    step,       \* "idle", "sent", "matched", "handled", "notFound" or "redirected"
    call,       \* the operation called, the client, the IDs and their name
    url,        \* the path sent, escaped, without its leading slash
    slot,       \* the operation whose registered pattern matched, and the
    values,     \* unescaped text of each of its wildcards
    got         \* the operation whose handler ran, and the name it read

vars == <<step, call, url, slot, values, got>>

Ops == DOMAIN Operations
Pattern(o) == Operations[o].tmpl[Len(Operations[o].tmpl)].pat
Verb(o) == IF Operations[o].verb = "" THEN <<>> ELSE <<":", Operations[o].verb>>

Slash == <<"/">>
Placeholder == <<"%7B%7D">>

\* Literals and verbs are words, which mean nothing to a URL.
Word(t) == t \notin {"/", "%", ":", "!", "%2F", "%25", "%3A", "%21", "%7B%7D", ".", "..", "", "*", "**"}
LiteralsOf(m) ==
    LET n == Len(m.tmpl)
    IN {m.tmpl[k].pat[1] : k \in 1 .. n - 1} \cup (ToSet(m.tmpl[n].pat) \ {"*"})
WellFormed(m) ==
    /\ Annotated(m)
    /\ \A k \in DOMAIN m.tmpl : IsVar(m.tmpl[k]) <=> k = Len(m.tmpl)
    /\ "*" \in ToSet(m.tmpl[Len(m.tmpl)].pat)
    /\ \A t \in LiteralsOf(m) : Word(t)
    /\ m.verb = "" \/ Word(m.verb)

ASSUME OperationsAssumption ==
    /\ Operations \in Seq([http : STRING, verb : STRING, serverStream : BOOLEAN,
                           tmpl : Seq([field : Seq(STRING), pat : Seq(STRING)])])
    /\ \A o \in Ops : WellFormed(Operations[o])

\* The sub-pattern of the variable: its literals before, between and after
\* the wildcards, as texts.
Stars(pat) == Ascending({k \in DOMAIN pat : pat[k] = "*"})
Closed(pat, a, b) == FlattenSeq([k \in 1 .. b - a |-> <<pat[a + k], "/">>])
PrefixOf(pat) == Closed(pat, 0, Stars(pat)[1] - 1)
SepsOf(pat) ==
    [j \in 1 .. Len(Stars(pat)) - 1 |-> Slash \o Closed(pat, Stars(pat)[j], Stars(pat)[j + 1] - 1)]
TailOf(pat) == FlattenSeq([k \in 1 .. Len(pat) - Stars(pat)[Len(Stars(pat))] |->
                             <<"/", pat[Stars(pat)[Len(Stars(pat))] + k]>>])

\* The name a pattern gives to a sequence of IDs.
NameOf(pat, ids) ==
    PrefixOf(pat)
    \o FlattenSeq([j \in DOMAIN ids |-> IF j = 1 THEN ids[1] ELSE SepsOf(pat)[j - 1] \o ids[j]])
    \o TailOf(pat)

-----------------------------------------------------------------------------
\* The clients.

\* The path of a client.  parsePathPattern of the Python and TypeScript
\* generators leaves the verb in place and, before a verb, does not take a
\* wildcard for a rest-of-path one.
ClientPath(client, o) ==
    LET path == MuxPath(Operations[o].tmpl, Operations[o].verb)
    IN IF client = "go" \/ Operations[o].verb = "" THEN path
       ELSE [k \in DOMAIN path |->
               IF path[k].kind = "rest" THEN [path[k] EXCEPT !.kind = "var"] ELSE path[k]]

\* The value of the j-th wildcard.
Extract(client, pat, name, j) ==
    LET count == Len(Stars(pat))
    IN CASE count = 1 /\ client = "ts" -> RemoveFirstText(name, PrefixOf(pat))
         [] count = 1 /\ client # "ts" -> TrimPrefix(name, PrefixOf(pat))
         [] count = 2 /\ client = "go" -> SplitMultiWildcard(name, PrefixOf(pat), SepsOf(pat)[1], j - 1)
         [] count > 2 /\ client = "go" -> name
         [] OTHER -> split_multi_wildcard(name, PrefixOf(pat), SepsOf(pat), j - 1)

\* pathVarSSETransport of the Go client: the whole name goes into the first
\* wildcard of several, and a placeholder without a value stays.
ExtractSSE(pat, name, j) ==
    LET val == IF Len(Stars(pat)) = 1 THEN TrimPrefix(name, PrefixOf(pat)) ELSE name
    IN IF j > 1 \/ val = <<>> THEN Placeholder ELSE val

Url(client, o, name) ==
    LET path == ClientPath(client, o)
        Nth(k) == Cardinality({h \in Wildcards(path) : h <= k})
        Value(j) == IF client = "go" /\ Operations[o].serverStream
                    THEN ExtractSSE(Pattern(o), name, j)
                    ELSE Extract(client, Pattern(o), name, j)
        Part(k) == IF path[k].kind = "lit" THEN path[k].text
                   ELSE escapePathVar(client, Value(Nth(k)), path[k].kind = "rest")
    IN Joined([k \in DOMAIN path |-> Part(k)], Slash) \o Verb(o)

\* The IDs a caller has in mind and the name it passes; none stand for a name
\* that is not of the pattern.
IdsFor(o) == [1 .. Len(Stars(Pattern(o))) -> Ids] \cup {<<>>}
NamesFor(o, ids) == IF ids = <<>> THEN Strays ELSE {NameOf(Pattern(o), ids)}

Send ==
    /\ step = "idle" /\ step' = "sent"
    /\ \E o \in Ops, client \in Clients : \E ids \in IdsFor(o) : \E name \in NamesFor(o, ids) :
         /\ call' = [op |-> o, client |-> client, ids |-> ids, name |-> name]
         /\ url' = Url(client, o, name)
    /\ UNCHANGED <<slot, values, got>>

-----------------------------------------------------------------------------
\* http.ServeMux (external).

Path(o) == MuxPath(Operations[o].tmpl, Operations[o].verb)
Key(o) == <<Operations[o].http, Normalize(Path(o))>>
Group(o) == {p \in Ops : Key(p) = Key(o)}

\* path.Clean, which keeps a trailing slash.
Clean(segs) ==
    LET done[k \in 0 .. Len(segs)] ==
            IF k = 0 THEN <<>>
            ELSE CASE segs[k] \in {<<>>, <<".">>}                  -> done[k - 1]
                   [] segs[k] = <<"..">> /\ done[k - 1] = <<>>     -> <<>>
                   [] segs[k] = <<"..">> /\ done[k - 1] # <<>>     -> Front(done[k - 1])
                   [] OTHER                                        -> Append(done[k - 1], segs[k])
        all == done[Len(segs)]
    IN IF Last(segs) = <<>> THEN Append(all, <<>>) ELSE all

Matches(path, segs) ==
    /\ IF path[Len(path)].kind = "rest" THEN Len(segs) >= Len(path) ELSE Len(segs) = Len(path)
    /\ \A k \in DOMAIN path :
         CASE path[k].kind = "lit" -> Unescape(segs[k]) = path[k].text
           [] path[k].kind = "var" -> segs[k] # <<>>
           [] OTHER -> TRUE

MatchedBy(method, segs) == {o \in Ops : Operations[o].http = method /\ Matches(Path(o), segs)}
Best(method, segs) ==
    {o \in MatchedBy(method, segs) :
       \A p \in MatchedBy(method, segs) \ Group(o) : MoreSpecific(Path(o), Path(p))}

\* The text each wildcard captures.
Captured(path, segs) ==
    LET at == Ascending(Wildcards(path))
    IN [j \in DOMAIN at |->
          IF path[at[j]].kind = "var" THEN Unescape(segs[at[j]])
          ELSE Unescape(Joined(SubSeq(segs, at[j], Len(segs)), Slash))]

\* A path that is not clean is answered with a redirect to the clean one.
Match ==
    /\ step = "sent"
    /\ LET segs == Segments(url)
           best == Best(Operations[call.op].http, segs)
       IN \/ /\ Clean(segs) # segs
             /\ step' = "redirected" /\ UNCHANGED <<slot, values>>
          \/ /\ Clean(segs) = segs /\ best = {}
             /\ step' = "notFound" /\ UNCHANGED <<slot, values>>
          \/ /\ Clean(segs) = segs /\ best # {}
             /\ slot' = CHOOSE o \in best : \A p \in best : o <= p
             /\ values' = Captured(Path(slot'), segs)
             /\ step' = "matched"
    /\ UNCHANGED <<call, url, got>>

-----------------------------------------------------------------------------
\* The generated server.

Base(o)  == {p \in Group(o) : Verb(p) = <<>>}
Verbs(o) == Group(o) \ Base(o)

\* Mutant: the dispatcher looks for a verb that makes up the whole value.
Chosen_WholeValue(o, vals) ==
    LET cases == {p \in Verbs(o) : vals[Len(vals)] = Verb(p)}
    IN IF cases # {} THEN {CHOOSE p \in cases : \A q \in cases : p <= q} ELSE Base(o)

\* Mutant: every dispatcher switches over the verbs of the whole service.
Chosen_AnyGroup(o, vals) ==
    LET cases == {p \in Ops : Verb(p) # <<>> /\ IsSuffix(Verb(p), vals[Len(vals)])}
    IN IF cases # {} THEN {CHOOSE p \in cases : \A q \in cases : p <= q} ELSE Base(o)

\* The dispatcher: the first verb the last value ends with, else the operation
\* without a verb, else nothing.
Chosen(o, vals) ==
    LET cases == IF vals = <<>> THEN {} ELSE {p \in Verbs(o) : IsSuffix(Verb(p), vals[Len(vals)])}
    IN IF cases # {} THEN {CHOOSE p \in cases : \A q \in cases : p <= q} ELSE Base(o)

\* The name as the handler's request literal builds it.
Rebuilt(o, vals) ==
    LET pat == Pattern(o)
        Value(j) == IF j = Len(vals) THEN TrimSuffix(vals[j], Verb(o)) ELSE vals[j]
        all == FlattenSeq([j \in DOMAIN vals |->
                             IF j = 1 THEN Value(1) ELSE SepsOf(pat)[j - 1] \o Value(j)])
    IN PrefixOf(pat) \o all

Handle ==
    /\ step = "matched"
    /\ \/ /\ Chosen(slot, values) = {}
          /\ step' = "notFound" /\ UNCHANGED got
       \/ \E o \in Chosen(slot, values) :
            /\ step' = "handled"
            /\ got' = [op |-> o, name |-> IF Operations[o].serverStream THEN call.name
                                          ELSE Rebuilt(o, values)]
    /\ UNCHANGED <<call, url, slot, values>>

-----------------------------------------------------------------------------

Ended == {"handled", "notFound", "redirected"}
NoCall == [op |-> 0, client |-> "none", ids |-> <<>>, name |-> <<>>]
Nothing == [op |-> 0, name |-> <<>>]

Finish ==
    /\ step \in Ended
    /\ step' = "idle" /\ call' = NoCall /\ url' = <<>>
    /\ slot' = 0 /\ values' = <<>> /\ got' = Nothing

Init ==
    /\ step = "idle" /\ call = NoCall /\ url = <<>>
    /\ slot = 0 /\ values = <<>> /\ got = Nothing

Next == Send \/ Match \/ Handle \/ Finish

Spec == Init /\ [][Next]_vars

-----------------------------------------------------------------------------
\* Types; a match captures one value per wildcard, and the handler that runs
\* is of the group that matched.
TypeOK ==
    /\ step \in {"idle", "sent", "matched"} \cup Ended
    /\ step # "idle" => call.op \in Ops /\ call.client \in Clients
    /\ step = "matched" => /\ slot \in Ops
                           /\ Len(values) = Len(Stars(Pattern(slot)))
    /\ step = "handled" => got.op \in Group(slot)

\* IDs that the URL itself leaves alone: not empty and not a dot segment, nor,
\* in a rest-of-path value or one of several, which is cut where its neighbour's
\* separator first occurs, with such a segment in it.
Improper == {<<>>, <<".">>, <<"..">>}
Proper(o, id) ==
    \A seg \in (IF Path(o)[Len(Path(o))].kind = "rest" \/ Len(Stars(Pattern(o))) > 1
                 THEN ToSet(Segments(id)) ELSE {id}) : seg \notin Improper

\* An operation without a verb called with a name that ends in the verb of
\* another one of its path.
EndsInVerb(o, name) ==
    Verb(o) = <<>> /\ \E p \in Verbs(o) : IsSuffix(Verb(p), name)

Ordinary(c) ==
    /\ c.ids # <<>> /\ \A j \in DOMAIN c.ids : Proper(c.op, c.ids[j])
    /\ ~EndsInVerb(c.op, c.name)

Delivered == step = "handled" /\ got = [op |-> call.op, name |-> call.name]

\* Unary calls whose patterns the Go extractor does not split: every wildcard
\* gets the whole name.
Unsplit(o) == Len(Stars(Pattern(o))) > 2 /\ ~Operations[o].serverStream

\* A name goes through exactly: the operation that was called runs, and reads
\* the name its caller passed, whatever slashes, separators, percent signs or
\* verbs the IDs contain.  Exempt are IDs the URL path cannot carry, IDs that
\* end in a sibling's verb, and Go's unary calls with three wildcards, which
\* never arrive as they were made (protoc-gen-aip-go/main.go:1329).
RoundTripExact ==
    step \in Ended /\ Ordinary(call) =>
        (Delivered <=> ~(call.client = "go" /\ Unsplit(call.op)))

\* The same for every ID that is not empty.
AnyIdRoundTrips ==
    step \in Ended /\ call.ids # <<>> /\ (\A j \in DOMAIN call.ids : call.ids[j] # <<>>)
        => Delivered

\* What the server reads of a URL: its segments, unescaped.
Received(u) == LET segs == Segments(u) IN [k \in DOMAIN segs |-> Unescape(segs[k])]

\* TypeScript takes the prefix of a lone wildcard out of a name that has it, but
\* not at its front, where Go and Python leave such a name as it is
\* (protoc-gen-aip-ts/main.go:794).
CutInside(c) ==
    LET prefix == PrefixOf(Pattern(c.op))
    IN /\ c.client = "ts" /\ Len(Stars(Pattern(c.op))) = 1
       /\ Occurs(c.name, prefix) /\ ~IsPrefix(prefix, c.name)

\* The generators agree: of a unary call with at most two wildcards the server
\* reads the same in every language, though each escapes other characters, and
\* whatever name the caller passes, but for those TypeScript cuts inside.
ClientsAgree ==
    step = "sent" /\ ~Operations[call.op].serverStream /\ ~Unsplit(call.op) /\ ~CutInside(call)
        => Received(url) = Received(Url("go", call.op, call.name))

\* A call of an operation with a custom verb is never served by one without,
\* whatever its name: ":cancel" does not turn into the plain update.
VerbsAreNotDropped == step = "handled" /\ Verb(call.op) # <<>> => Verb(got.op) # <<>>

-----------------------------------------------------------------------------
\* The services these hold for, each bound being one the generators do not
\* check.  No two operations share a method, a path and a verb; a custom verb
\* stands behind a wildcard, where the dispatcher looks for it; and what a call
\* sends is not better matched by the path of another operation, as it may be
\* behind a rest-of-path wildcard.
RoutesDiffer == \A o, p \in Ops : p \in Group(o) /\ Verb(p) = Verb(o) => p = o
VerbsBehindWildcards == \A o \in Ops : Verb(o) # <<>> => Path(o)[Len(Path(o))].kind # "lit"
RoutedHome ==
    \A o \in Ops, client \in Clients : \A ids \in IdsFor(o) : \A name \in NamesFor(o, ids) :
       LET segs == Segments(Url(client, o, name))
       IN Matches(Path(o), segs) => o \in Best(Operations[o].http, segs)

\* Paths that no URL fits both of leave each call to its own.
PathsApart ==
    \A o, p \in Ops : Operations[o].http = Operations[p].http /\ p \notin Group(o)
                       => Disjoint(Path(o), Path(p))

\* No verb behind a rest-of-path wildcard, which the clients take for a segment.
NoVerbAfterRest == \A o \in Ops : Verb(o) # <<>> => Path(o)[Len(Path(o))].kind # "rest"
=============================================================================
