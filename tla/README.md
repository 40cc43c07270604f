# connect-aip in TLA+

connect-aip serves ConnectRPC services as Google-AIP style REST: a protoc plugin
reads `google.api.http` annotations and writes the server side (routes,
dispatchers, forwarding handlers) and the Go client; two more plugins write
Python and TypeScript clients; a small runtime (`client.go`, `forward.go`,
`loopback.go`, `python/`) is linked into what they generate. This directory holds
TLA+ models of it, the TLC configurations that check them and TLAPS proofs.

Run TLC with `tlc -config <run>.cfg <module>` and the prover with
`tlapm <Module>Proofs.tla`; `PROJECT.json` lists the runs, and maps every
definition to the lines it is translated from.

## 1. The system

| component | state | operations | talks to |
|---|---|---|---|
| **loopback transport** `loopback.go` | per call: the `ready`/`done` channels, an `io.Pipe`, a `sync.Once`, status and headers, the handler goroutine | `RoundTrip`, the writer's `WriteHeader`/`Write`/`Flush`, five deferred functions | the HTTP client that calls it, the handler it runs on a goroutine, the reader of the response body |
| **Go generator, server side** `cmd/protoc-gen-aip-go` | routes and path variables of a service; groups of routes | collect usable RPCs, group by ServeMux pattern, remap variable names, print constructor, dispatchers and handlers | `http.ServeMux`, the Go compiler, every client (they must build the paths it registers) |
| **Go generator, client side** | the same routes | print path-variable and query extractors, client constructors | Go client runtime |
| **Go client runtime** `client.go` | spec and options of a client; the connect.Request of its caller, which it changes | `Call`, `CallRequest`, `NewSSEClient`, the `Do` of two transports, error parsing, `SplitMultiWildcard` | interceptors, the HTTP client, connect-sse |
| **forwarding runtime** `forward.go` | one request message; a response capture | `Handle`, `Forward`, `ForwardWithBody`, `ForwardWithPathVars`, `applyQueryParams` | the Connect handler, called in process |
| **Python generator and runtime** `cmd/protoc-gen-aip-py`, `python/` | routes; alias cache; the SSE parser's flags and lines | `parsePathPattern`, `Client.call`, `SSEClient.stream`, type names | httpx, the server |
| **TypeScript generator and its inlined runtime** `cmd/protoc-gen-aip-ts` | routes; aliases; the SSE parser's buffer, flags, lines, pending items | `parsePathPattern`, `generateTSURL`, `streamSSE`, type names | fetch, the server |
| **generated fixtures, build, docs** | none of their own | | |

How a call runs: the client takes the resource name apart along the annotation
(`SplitMultiWildcard`, prefixes), escapes the pieces into the ServeMux path and
appends the custom verb; the ServeMux matches the path and unescapes its
segments; a dispatcher picks the RPC by the verb at the end of the last value;
the handler puts the name together again and forwards the message to the Connect
handler in process. With the loopback transport the whole exchange stays in the
process: the handler runs on a goroutine and streams through a pipe.

What is hard, and what must hold:

* *Concurrency* is in the loopback transport: a handler, a `RoundTrip` and a
  caller race over a pipe, two channels and a context. The end of the body must
  mean that the request body is closed and nothing was cut off, `RoundTrip` must
  return, and a cancelled call must not leave the handler behind.
* *Agreement of independent computations* is in the generators: routes are
  grouped under one key and registered under another, a dispatcher is named in two
  places, four programs parse the same pattern, verbs share paths with plain
  operations. Registration must succeed, the generated code must compile, each
  request must reach its RPC with each variable in its place.
* *Values* are arbitrary strings: an ID may contain a slash, a separator, a
  percent sign, a verb or dots. What goes in must come out.
* *Partial failure* is in the SSE parsers (a stream that breaks off, an event that
  does not parse) and in the error paths of client and forwarding.
* *Repetition and sharing* is in `CallRequest`: an interceptor may call `next`
  several times, a request may be sent through several clients.

`PROJECT.json` lists these hazards one by one with their lines.

## 2. What is modelled

### Loopback transport: `RoundTripContract`, `LoopbackTransport`, `LoopbackTransportProofs`

`RoundTripContract` is the promise to the two ends of a call, without goroutines
or pipe: a response is delivered in order while it is produced, it is complete
only if it was all delivered and the server did not crash, the request body is
released by then, and a call fails only when its server is finished with it.

`LoopbackTransport` is `loopback.go`: `rtPc` is the control point of `RoundTrip`,
`hPc` that of the handler goroutine (`"serve"` in the handler, then one control
point per deferred function, in their order), `status`, `ready` and `done` are the
writer's status and its two channels, `reqBody` the request body. The pipe is
external: `wbuf` what a blocked `Write` has left, `werr`/`rerr` the errors its two
sides were closed with, `delivered` what the reader got. Bodies are counted in units;
what a byte is does not matter to any property. The handler and the caller are
arbitrary: the handler writes, sets a status, flushes, returns or panics at any
point, the caller cancels, reads and closes at any point. `HReturn` stands also for
`runtime.Goexit` (deferred functions run, `recover` yields nil). A panic while the
500 is synthesized cannot happen; a failed write of it can, and is
`HSynthWriteFails`.

### Routes of a service: `UrlPattern`, `ServeMux`, `RouteTable`, `MCRouteTable`, `RouteTableProofs`

`UrlPattern` is `parseURLPatternToServeMux`: an annotation is a sequence of segments,
each a literal or a variable with a sub-pattern, and `MuxPath` the ServeMux path it
becomes; `Annotated` is what an annotation may be (`MethodsAssumption`: it has an element, and a
literal element is one segment, as `google.api.http` defines it). `ServeMux` (external) states what `http.ServeMux` documents: which patterns are
malformed, which conflict, which is more specific. `RouteTable` is the generator as a
state machine, one action per loop step, through the compiler and the registration to
requests of the generated client. The client's j-th value is the number j, so what a
handler reads shows which variable it came from. Texts are tokens: two paths that
differ only in punctuation are not told apart here (they are in `GeneratedFile`).

### Values of path variables: `PathText`, `PathVars`, `MCPathVars`, `PathVarsProofs`

`PathText` holds the pure text functions (trimming, `SplitMultiWildcard` and its Python
and TypeScript counterpart, `escapePathVar`) on texts: sequences of tokens, where `"/"`,
`"%"`, its escapes, a literal or a word is one token and a verb two, `":"` and a word. Each
client escapes with its language's function (`LeftAlone`): `":"` stands for the characters that
Go's `url.PathEscape` alone leaves as they are, `"!"` for those that only `encodeURIComponent`
leaves, and Python's `quote(safe="")` escapes both; so the clients' URLs differ, and what can be
compared is what the server unescapes from them (`Received`). `PathVars` sends one name through
client, URL, ServeMux, dispatcher and handler, for operations that share paths: `Send` is
the client (`Extract` per wildcard, then `Url`), `Match` the ServeMux with its redirect
to the clean path, `Handle` dispatcher and handler (`Chosen`, `Rebuilt`). A server-streaming
call has its message in the body; its path only routes. A caller passes the name its IDs give
in the pattern, or one that is not of the pattern at all (`Strays`). `OperationsAssumption` says what
an operation is: an annotation with one variable, last and with a wildcard, whose literals and
verb are words (texts that mean nothing to a URL).
`IdsAssumption`: an ID has no escaped form in it, a percent sign being a token of its own.

### Fields of a call: `Forward`, `MCForward`, `ForwardProofs`

`Forward` follows one unary call, field by field. An operation is its method, its
annotated body, the fields its path binds and the kind of each field; a caller is a
generated client or anybody with an HTTP client. `ClientCall` is what the three
generators print: path values, then query or body. `BindQuery`, `ApplyKey` (one
iteration of the loop over the query, a Go map: any key may be next), `QueryApplied` and
`BindBody` are `forward.go` up to the request message `bound`; `Serve` and `Relay` the
Connect handler behind the response capture; `Lost`/`Arrives` the way back, on which a
proxy may answer instead; `Parse` is `doHTTPCall` and `parseErrorResponse`. A value is 0
(the zero value), a number, a text that is no number, or a text that is not UTF-8, which
`proto.Marshal` refuses. The answer is read alike by the three clients but for
an error object under a status of success, which only Go would take for a message.
Fields have implicit presence; a field with explicit presence that is set to zero would
count as set.

### Streams of events: `EventStream`, `MCEventStream`, `EventStreamProofs`

`EventStream` is the two parsers of server-streaming answers, TypeScript's `streamSSE`
and Python's `_parse_sse_stream`, over a wire of tokens that arrives in chunks of any
length and ends or breaks at any token. `Token` is one iteration of the line loop,
`processLine` what a line does; TypeScript collects a chunk's messages in `pending` and
yields them in `Yield`, where it also throws the error of a trailer, Python yields and
raises on the spot. At the end TypeScript processes what is left and one more blank line
(`End`, `LastBlank`), Python only the rest of the last line. The server is external: it
sends a flags line, data lines and a blank line per event, a trailer last; the only line end
in its data is `"ls"` (U+2028), and a closing brace ends a message (`StreamsAssumption`). A caller that stops reading
early is not modelled: it only ends both loops.

### Names and imports of generated files: `TypeNames`, `GeneratedFile`, `MCGeneratedFile`, `GeneratedFileProofs`

`TypeNames` is the two type name resolvers: `Register` is `registerSource` of both,
`EnsureAliases` the cached numbering of the Python one, `PrintImports` and `Resolve` what
is asked of them. None of them checks when it is called: as in the code, a file may be registered
after the imports were printed, and one that was never registered may be asked for and gets the
empty name. A name is the base of a proto file and a number, so that two files
clash exactly if their pairs are equal; a path is a sequence of directories, on which
`posixRel` works. `ResolverSpec` says how the resolvers have to be used for their names to come
out right: registrations in any order, questions at any time about registered files only, and one
print of the imports, after which nothing is registered.

`GeneratedFile` is `generateFile` of the three plugins for one proto file: they pick the
usable RPCs, register their messages (`RegisterType`), decide on the imports
(`PrintHeader`) and print service after service (`PrintService`). Of what is printed it
keeps which packages are imported and used, which functions are declared and which are
named. It composes `TypeNames`: its actions call the resolvers where the plugins do, and that they
do so in the order `ResolverSpec` asks for, having registered all that the bodies name
(`FilesNamedBy`), is a property of it; a plugin that forgets to register the responses violates it.
`AskEarly`, a question before the last registration, is something the plugins do not do and the Python
resolver's cache allows; without it the cache could not be stale in any state.

### Calls of a client: `ClientCalls`, `MCClientCalls`, `ClientCallsProofs`

`ClientCalls` is `CallRequest` with its interceptors, and the one-shot sending of the
other clients. A caller keeps one `connect.Request` (`header`, `spec`), which
`CallRequest` changes (`Composed`, `Named`); an interceptor calls `next` any number of times,
with the request or a copy, after an attempt or beside it. An attempt is one
call of `next`, one action per step of its body: copy the request with the attempt's
context, assign the captured variable `httpReq`, assign its header, hand it to the HTTP
client. `httpReq` is an index into `reqs`, so that an attempt that is overtaken sends
what the variable then points to. The HTTP client is external: it writes the head, then
reads the body piece by piece from the one `bytes.Reader`, whose unsynchronized index may
be moved by two attempts at once (`ReadPart`, `MoveIndex`). A header is the set of
those who wrote a line of it. The streaming Go client (`headerTransport`), Python and
TypeScript send once and change nothing of their caller's.

## 3. The runs

| run | asks | instance | why it is enough |
|---|---|---|---|
| `loopback_safety` | what EOF, the status and a cancellation tell the caller; that the transport implements its contract; `RoundTripReturns` whatever the caller does, and for a caller that reads on `GoroutineEnds` and `CallerReachesEnd` | statuses 0, 404, 500; 3 units in writes of up to 2; a 500 of 2 units | two writes, a partial read and a write left over all occur; 0 is the status `cmp.Or` turns into 200, 500 collides with the synthesized one |
| `routes_served` | a service registers, compiles, and each request reaches its RPC and variables | every service of up to 3 of 17 RPCs, in every order | a group is a base route and a verb, or two verbs, next to a third route; the pool has the shapes of the repository's protos and of the comments in the generator, and the RPCs it skips or refuses |
| `pathvars_round_trip` | every client and every ID: who serves it, what name is read, whether the server reads the same from every client | 11 operations on 5 paths, one of three wildcards, 3 clients, 13 IDs per wildcard, and 3 names that are not of the pattern | IDs with a slash, the separator once and twice, signs that all clients or only some escape, the prefix, the tail, verbs, dots, empty; names that are empty, without the prefix, and with the prefix behind something else |
| `forward_fields` | what each caller's fields become, what the RPC runs with, what the client is told | 26 operations and callers: get, list, delete, create, update; messages of two and three fields, numbers up to 1, two query keys | two keys are enough for one field named twice and for a path variable repeated in the query; each answer meets each way back |
| `stream_events` | which messages and errors the caller gets, however the stream is cut | streams of up to 3 messages (in one and two data lines, one that does not parse) and 5 endings, both line ends, both parsers, every chunking | an event, its error and a part of the next fit in one chunk, and a chunk may be one token |
| `generated_files` | imports, names and functions of what the plugins print | every file of one or two services with up to 3 of 12 RPCs, over 6 proto files | files that share a base, one of them well-known, one in the same directory, one whose directories match in the second place only; paths that differ in punctuation; an RPC name in two services; a route of every kind that an import depends on |
| `client_calls` | headers, contexts and body of every attempt | 7 clients (2 unary), 3 headers, 2 calls, 2 attempts, a body of 2 reads, one header set by interceptors | two clients that disagree on every static header; two attempts give every order of the four steps; with two reads a body can be split between attempts |
| `routes_get_stream` | (violated) a streaming RPC with a verb, annotated GET | 4 RPCs | |
| `pathvars_verb_id` | (violated) any ID goes through | 4 operations, IDs that end in verbs | |
| `pathvars_rest_verb` | (violated) the server reads the same from every client | a rest-of-path variable before a verb | |
| `forward_enum_query` | (violated) a client's fields arrive | a GET with an enum field | |
| `stream_line_separator` | (violated) a whole stream is read | a message with U+2028, Python | |

What the violated ones show:

* `routes_get_stream`: a streaming RPC turns its group's registration to POST and the
  constructor calls `dispatchPOST...`, while the dispatcher is defined as
  `dispatchGET...`: the generated file does not compile (main.go:543 and 650).
* `pathvars_verb_id`: `GetAgent("agents/x:peek")` runs `PeekAgent("agents/x")`.
  `RoundTripExact` holds because it exempts names that end in a sibling's verb.
* `pathvars_rest_verb`: for `{name=agents/*/files}:pack` the Go generator counts the
  verb as the end of the path, the other two do not, and escape the slashes. In
  `pathvars_round_trip`, without such a variable, `ClientsAgree` holds but for its exception: a name
  with the prefix behind something else, from which TypeScript cuts it (`CutInside`).
* `forward_enum_query`: the Go and TypeScript clients put an enum into the query,
  `applyQueryParams` has no case for enums (forward.go:162), and the RPC runs with the
  zero value without an error.
* `stream_line_separator`: `iter_lines` of httpx splits as `str.splitlines` does, so a
  message whose JSON contains U+2028 is cut in two and the Python client fails to decode
  it.

What the passing runs leave out, because it violates their properties in the model as in
the code: in `forward_fields`, a POST without an annotated body from Python or TypeScript
(they send JSON, the handler reads the query), a float in a GET of the Python client and
a repeated field of any client in a query (Python sends it as one text, and the handler
panics when it sets a list to a scalar; HTTP callers do so in the run). In `stream_events`,
`ArrivedIsDelivered` exempts the TypeScript parser when a message does not parse: it
throws before it has yielded the messages of the same chunk. A stream that ends
without its trailer looks complete to both parsers.

Some properties state a defect as an exception, the first three and
`RequestRemembersClients` with "exactly if", so that the run fails when it is repaired:

* `RoundTripExact`: of the ordinary names exactly those of patterns with three or more wildcards
  do not arrive from unary calls of the Go client, which puts the whole name into each
  placeholder (`Unsplit`; main.go:1331). The other calls it leaves out are not ordinary: an ID
  that is empty or a dot segment, or has such a segment where it is split (`Proper`), and a name
  that ends in a sibling's verb (`EndsInVerb`). The Python and TypeScript clients split it.
* `GoImportsUsed`: `fmt` is imported and not used if only streaming routes have numeric
  query fields (`fileNeedsFmt` does not ask whether a route streams), and the package of
  the messages if no route has a message of that package. Neither file compiles.
* `GoFunctionsResolve`: two dispatchers have one name if their paths differ in
  punctuation only.
* `PyFunctionsResolve`: Python's module-level functions carry the RPC's name, so of two
  services of a file with an RPC of one name the first runs with the functions of the
  second.
* `CallerHeadersWin`: the streaming Go client prefers a static header to the caller's, and
  Python sends both if the caller spells the name otherwise.
* `RequestRemembersClients`: a request keeps the static headers of the first client it was sent
  through, and the procedure and peer of the last that has one; a static `Accept` is never sent
  by a unary Go client.
* `AttemptsSendTheirOwn`: a retry sends what is left of the body, an overlapping attempt
  may send the headers, the context or parts of the body of another.

Four more shapes are kept out of the passing pools because they violate its properties
in ways the model reproduces when they are added to `MCRouteTable` or `MCPathVars`: a
streaming GET next to a unary POST of one path (both are registered as POST), a verb
behind a variable without a sub-pattern (`/v1/{name}:cancel` stays in the ServeMux
path), `{path=agents/*/files}` next to `{path=agents/*/keys}` (one group, the second
overwrites the first), and an ID `.` or `..` (redirected).

**Fairness.** Only `loopback_safety` assumes any, for its three liveness properties. A goroutine that can run is run (weak
fairness of the deferred functions, of a failed write, of `RoundTrip`): the Go
scheduler. Handlers return: strong fairness of `HandlerEnds`, because a handler
between two writes can return each time; the code waits for its handler without a
deadline, so nothing holds without that. Nothing is asked of the caller, except where
the property says so: `CallerReadsOn` is its premise.

## 4. What is proved

`LoopbackTransportProofs`, for every set of statuses (naturals) and every bound on units,
chunks and the length of the synthesized body: `TypeCorrect`, each of the five safety
invariants, and `Implementation` (`LoopbackTransport` implements `RoundTripContract`).
The safety invariants are not inductive. EOF on the caller's side says something about
the request body only because the pipe is closed without an error in one deferred
function alone, after the one that closes the body; the strengthening `IInv` therefore
says, for each control point of the goroutine, which of the earlier deferred functions
have run, which error the pipe carries, that units are conserved
(`offered = delivered + wbuf`) while nobody gave up, and that `ready` is closed before
`RoundTrip` has returned a response. TLC checks the same conjuncts cheaply by
`loopback_safety`; the proof has one step per action.

`SharedFacts` holds what several of these modules rest on. First sequences: `FlattenSeq` is
defined in the community modules by a recursive function; it is shown to exist and to
be the only one, and from that what a flattened sequence consists of, which
elements it has and when it has none twice. Facts for sequences of every length are proved by
well-founded induction on a set of lengths (`SetInduction`), since the libraries'
induction theorems cannot be used. Then the text functions, for texts of any length over any
tokens: `SplitIsExact` (the two values the Go
client takes from a two-wildcard name, put together with the separator, are the name
behind its prefix, also when the IDs contain the separator), `EscapeRoundTrip` (unescaping undoes
the `escapePathVar` of each language), `OneSegment` (an escaped single-segment value has no slash),
`TrimAddedPrefix`; the first occurrence of a text is a least element of the natural
numbers, and nothing else is used but the definitions. For annotations of any length, `MuxPathAligned`: the
n-th wildcard of the path an annotation becomes has the name of its n-th path variable. What a wildcard is the
n-th of is counted by `NthOf`, the size of the set of wildcards up to it; joining two paths
moves the ranks of the second up by the size of the first, and a flattened path is
joined part by part.

`PathVarsProofs`, for services of any size, annotations of any length, any number of
wildcards, and every ID: `TypeCorrect`, `NamesArrive` (`RoundTripExact`), `ClientsWriteAlike`
(`ClientsAgree`) and `VerbsArrive` (`VerbsAreNotDropped`). None of the four is inductive, as
what they say of the end of a call depends on all that happened to its name. The inductive invariant
`PathVarsInv` says for each step what the steps before made of it: the URL is the one the client writes for
the name, the slot one of the best matches, the values those the slot's path captures of the
URL, the operation one the dispatcher chooses for them, the name the one the handler rebuilds
(`PathVarsInductive`). What is left is what those functions come to, one behind the other:

* *Out of the name.* `NameSplits`: the cuts at the first occurrence of each separator,
  the last value being the rest, lose nothing, whatever the values contain. So the values
  a client takes out need not be the IDs, and are put together to the name all the
  same (`ValuesSplit`); if the IDs are proper, each of them can be carried by a URL.
* *Into the URL.* A URL is joined from literals and escaped values, and has just those as its
  segments (`SegmentsOfJoined`, `SegmentsSplit`, `UrlSegments`): an escaped value has no
  slash but in the place of a rest-of-path wildcard. No segment is empty or a dot
  segment, so the path is clean (`CarriedClean`): `Clean` is a recursive function, which exists
  (`IterationExists`) and leaves such segments alone.
* *Off the URL.* It matches the path it was made from (`OwnMatch`), and that path captures the
  values, with the verb behind the last (`OwnCaptured`). The slot that matched may be another
  operation's, but of the same group, and paths of one shape capture alike (`Alike`).
* *Alike from every client.* Two languages cut a name alike unless TypeScript cuts inside, and
  escape a value to texts with slashes in the same places that unescape token by token to the same
  (`EscapedAlike`, `SameRead`), which joining, the verb and cutting into segments preserve (`OneReading`).
* *Back into a name.* The dispatcher finds the verb of the operation called
  at the end of the last value and no other (`RightCase`), the handler trims it and puts
  the values together (`RebuiltIs`). Where Go's client put the whole name into each of three
  wildcards, what is put together is longer than the name (`TooLong`).

Their hypotheses are about the service, none is checked by the generators, and all hold of
`pathvars_round_trip` (`ServiceQualifies` in `MCPathVars`):

* `RoutedHome` (for `NamesArrive` and `VerbsArrive`): where the URL of a call
  fits the path it was made from, that path is preferred to all of another shape. With the ID
  `x/slos/y`, which the run leaves out, `{name=agents/*/files}` and `{name=agents/*/slos/*/files}` have
  one URL, and the second, whose path is the longer, takes the calls of the first. `ApartIsHome` derives it from `PathsApart`, which
  speaks of the patterns alone: those of two shapes under one method are disjoint in the sense of ServeMux.
  The run needs the weaker one, as its rest-of-path variable is not disjoint from all the other paths.
* `RoutesDiffer` (`NamesArrive`): no two operations with one method, shape and verb;
  the first would get the calls of both.
* `VerbsBehindWildcards` (the same two): behind a literal the verb stays in the ServeMux path
  and no dispatcher looks for it.
* `NoVerbAfterRest` (`ClientsWriteAlike`): see `pathvars_rest_verb`, which is its
  counterexample.

`VerbsArrive` needs no hypothesis about the name: the last value ends in the verb because the URL
does, also if the name was not split right or was empty (`VerbCaptured`).

`ForwardProofs`, for every set of operations, fields, values and query keys:
`TypeCorrect`, `PathNamesTheResource` (`PathVarsWin`) and `AnyOrderBindsTheSame`
(`OrderDoesNotMatter`). The last is not inductive: halfway through the loop the message
depends on the order. `FieldInv` says what holds there for each field: it has the path's
value, or zero while a key that names it is still to come, or what the query asks for. A
field that is not ambiguous has one key at most (`OneKey`), so the step that looks at that
key settles it. The assumptions used are that path-bound fields are strings, as the
generated literals need, and that there are numbers to parse. `AgreedFieldsArrive`
(`FieldsArrive`) is about callers of whom `Agreed` holds: client and handler agree on what travels in the
query, and both have a case for every field there. Every caller of `forward_fields` is one;
those left out of that run (below its table) and the one of `forward_enum_query` are not.
`SentInv` says what such a client has put on the wire, `ArrivalInv` that the binding,
by `FieldInv`, turns it into the same message. `ClientsAreToldTheTruth` (`AnswersAreHonest`) needs no hypothesis.

`GeneratedFileProofs`, for the resolvers and every finite set of proto files: `NamesFollowFromSources` (there is
one way to number the registered files, by well-founded induction on the order of paths: neither
the order of registrations nor the moment of a question can show in a name),
`CacheStaysCurrent`, `ImportsNeverClash`, `RelativePathsLead` and `BodiesFindTheirImports`.
`NamesDistinct` speaks of lines already printed, so the invariant `ResolverInv` adds that
the lines are those of the present names and that TypeScript's names are distinct. The
assumptions are that paths have no `..` and that well-known files have distinct bases.
They hold of resolvers that are used as `ResolverSpec` says; the invariant also has that every file
asked for is registered.

For the files, of any number of services and RPCs, the invariant `FileInv` says that what has been printed is
the concatenation, service by service, of what each comes to (`GoPrinted`, `PyPrinted`),
and that the imports are those the header decided on. From it follow `FilesAreTyped`,
`GoImportsAreUsed`, `PyNamesResolve` and, if streaming RPCs that share a dispatcher are
annotated POST, `GoNamesResolve`. Without that hypothesis the file does not compile, as `routes_get_stream` shows.

`PluginsUseResolvers` (`ResolverSpec`) joins the two: nothing in a resolver enforces the order, so
it needs `FileInv` for where the loop is and `RegistersFirst`: no imports are printed while the loop
registers, the messages behind its cursor are registered, and behind the header all of `Types` are.
`BodiesNameTypes` says that the bodies of no service name any other. With it the results about
the resolvers hold of every file (`EveryFileNamesItsImports`).

What makes the proofs about files long is that a property of the file (declared once, imported iff used)
has to be brought down to one service and one RPC.

`RouteTableProofs`, for every set of RPCs and services of any length. `RouteInv` says of
each loop how far it is and what it has made: a route per usable RPC, groups with distinct
keys of which each route has one, a group's path that of a member (`GroupOf`), a pair per group, the
functions, and the registered patterns. `RoutesAreTyped` follows without a hypothesis. The
others have hypotheses about the annotations, which hold of every service of
`routes_served` the generator accepts (it panics on a `body` that names no field), and each
is needed:

* `RoutesRegister` (`RegistrationSucceeds`): `StreamsArePosted`, since a streaming GET next to a
  unary POST are two groups with one registration, and `PathsAreAccepted`, that ServeMux
  would take each path by itself and that two paths of different shapes do not overlap.
  What is proved is that grouping then leaves no two patterns of one shape.
* `FunctionsResolve` (`ReferencesResolve`): `StreamsArePosted` (see `routes_get_stream`) and
  `TextsDiffer`, that paths of different shapes are not named alike.
* `OperationsAreRegistered` (`OperationsRegistered`): `StreamsArePosted` and
  `VerbsBehindWildcards`, that no verb is cut off behind an expanded variable that ends in a
  literal, where ServeMux would compare the literal with the verb left on it.
* `RequestsReach` (`RequestsReachTheirMethod`): these two, `RoutesDiffer` (of two RPCs with one method,
  shape and verb, the second takes the first one's requests) and `RestIsFree`: a client fills a
  rest-of-path wildcard with a value and the literals of its sub-pattern, so a more
  specific path of just that length would take the request.

The last two rest on `ReachInv`, which adds to `RouteInv` that the names of a route's variables are
aligned with the path they are read under (its own before the remapping of its group, the group's
after it: `AlignedInv`), that a compiled file defines no function twice, and that ServeMux has
accepted the patterns it holds. What the client sends is described segment by segment
(`Carries`). Any registered pattern it fits overlaps that of the route's group, so ServeMux has found one
of the two the more specific; that it is not the other one is read off the client's segments, which hold a value
and not a literal where the group's pattern has a wildcard (`HomeIsClosest`). The dispatcher looks at the last
variable of some member of the group; it is the wildcard that carries the verb, if there is one (`DispatchHome`).

`EventStreamProofs`, for streams of any length and every way to cut them into chunks:
`ParsersAreTyped`, `MessagesComeInOrder`, `WholeStreamsAreDelivered` and
`WhatArrivedIsDelivered`, under `Uncut`: for the Python parser no U+2028 in the data.
Without it they are false, `TypeOK` included: what follows a U+2028 may look like a
flags line (`stream_line_separator` has the short counterexample). `StreamInv` names the
places of the wire: in the comment, at line `l` of event `n` (`AtLine`), or ended
after some of them (`Ended`, `EndedFor`), and says for each what the parser holds: the part of the line that has
arrived, the flags and data of the lines before it, and the yielded or pending messages of the events before it. A step
moves on within the place or to the next one.

`ClientCallsProofs`, for any clients, headers, bodies and numbers of calls and attempts:
`TypesHold`, `CallersHeadersReachTheWire` and `OnlyOverlappingAttemptsMix`
(`AttemptsSendTheirOwn`). What an attempt sends depends on `httpReq` and the reader, which others
move, so the invariant says who may: an attempt that is `alone` runs beside nobody and
after all before it (`Alone`), so from its assignment on `httpReq` is its own copy
(`Carries`), and, if nobody before it read, it has read exactly up to the reader's index,
else the reader is past the start (`ReadsOn`). `RequestsRememberTheirClients`
(`RequestRemembersClients`): a header that neither the caller nor an interceptor has set is at all times what the first of
the clients that offers it offered, in the request and in every attempt's copy (`Memory`). Each conjunct is inductive relative to those before it; TLC checked
them before they were proved.

Only model-checked: the three liveness properties of `loopback_safety` (fairness is out of the
prover's reach), and what the violated runs show. Every invariant of the passing runs is a theorem.

## 5. What is not modelled

* The Go generator's choice between an alias of the standard client interface and an
  interface of its own, comments and layout of generated code; the helpers every
  TypeScript file repeats (`codeFromString`, `fromJsonAny`); the conversion of names
  (`camelToSnake`, `snakeToPascal`, field accessors).
* Messages declared inside other messages: both resolvers name them by their last name
  only (`msg.Desc.Name()`), which the models do not tell apart from a top-level message.
  Client fields whose names are Go keywords (an RPC `Select`; main.go:1160), and the clash
  of a protogen alias that the comment at main.go:1074 describes.
* Response headers and trailers, `SSEProcedureURL`, the type check of an interceptor's
  response. Interceptors are taken to wait for the attempts they start.
* Message encoding (protojson, JSON), httpx, fetch, connect and connect-sse beyond what
  this code relies on; stream interceptors run inside connect.
* The data race of a handler that changes its header map after its response was returned:
  the code shares the map and leaves that to the handler.
* Build and release files.

Worth proving next: that the services `RouteTable` accepts satisfy `RoutesDiffer` and, with one
variable each, `RoutedHome`; the two modules state their hypotheses on their own.
