------------------------------- MODULE Forward -------------------------------
(***************************************************************************)
(* One unary call, field by field: a caller puts a message into path,      *)
(* query and body; the generated handler binds them to a request message   *)
(* (Forward, ForwardWithBody, ForwardWithPathVars); the Connect handler    *)
(* runs in process behind a response capture; its answer is relayed as     *)
(* JSON and read by the client.                                            *)
(*                                                                         *)
(* The caller is a generated client or, as "http", anybody with an HTTP    *)
(* client.  The value of a field is a number: 0 the zero value, up to      *)
(* MaxNumber one that reads as a number, then text that does not, and text *)
(* that is not UTF-8.                                                      *)
(***************************************************************************)
EXTENDS Integers, FiniteSets, Sequences, TLC

CONSTANTS
    Callers,    \* [client, http, body, path, kind]: who calls, and the
                \* operation's method, body ("*" or ""), path-bound fields
                \* and the kind of each field of its request message
    Codes,      \* the error codes the RPC answers with
    MaxNumber,  \* bound: values that read as a number
    MaxKeys     \* bound: query keys of an "http" caller

Kinds == {"string", "int", "float", "bool", "enum", "repeated"}

ASSUME CallersAssumption ==
    \A c \in Callers :
        /\ c.client \in {"go", "py", "ts", "http"}
        /\ c.http \in {"GET", "DELETE", "POST", "PATCH"} /\ c.body \in {"*", ""}
        /\ \A f \in DOMAIN c.kind : c.kind[f] \in Kinds
        /\ c.path \subseteq {f \in DOMAIN c.kind : c.kind[f] = "string"}
ASSUME BoundsAssumption == MaxNumber \in Nat \ {0} /\ MaxKeys \in Nat

VARIABLES
    phase,      \* where the call is
    caller,     \* who calls what
    msg,        \* the message a generated client was given
    path,       \* values of the path variables
    query,      \* query keys and the values of each
    body,       \* request body: a message, or why there is none
    todo,       \* query keys not looked at yet
    bound,      \* the request message of the handler (reqMsg)
    seen,       \* the message the RPC ran with
    outcome,    \* what the RPC did
    wire,       \* status and body of the answer
    answer      \* what the client is told

vars == <<phase, caller, msg, path, query, body, todo, bound, seen, outcome, wire, answer>>
request == <<caller, msg, path, query, body>>

Kind   == caller.kind
Fields == DOMAIN Kind

NotANumber == MaxNumber + 1
NotUtf8    == MaxNumber + 2

\* Bodies, of requests and of answers: a message, an error, or neither.
Message(m)  == [message |-> m]
Error(code) == [error |-> code]
Text        == [text |-> "any"]
Empty       == [text |-> ""]

IsMessage(b) == "message" \in DOMAIN b
IsError(b)   == "error" \in DOMAIN b

\* What parses as a value of a kind (strconv; true and false for a bool).
Parses(kind, v) ==
    /\ kind \in {"int", "float", "enum"} => v <= MaxNumber
    /\ kind = "bool" => v <= 1

Messages == {m \in [Fields -> 0 .. NotANumber] : \A f \in Fields : Parses(Kind[f], m[f])}
NoMessage == [f \in Fields |-> 0]

\* Query keys: a field by its JSON or its proto name (pageSize, page_size), or
\* no field at all.
Keys == (Fields \X {"json", "proto"}) \cup {<<"unknown", "json">>}

-----------------------------------------------------------------------------
\* The generated clients.

\* Mutant: the extractor has no case for booleans.
QueryFields_NoBool(c) == {f \in Fields \ c.path : Kind[f] \in {"string", "int"}}

\* Fields a client's query extractor has a case for.  A repeated field has the
\* kind of its elements: Python prints the list as one value (here: a value),
\* and the code generated in Go and TypeScript does not pass its type checker.
QueryFields(c) ==
    LET kinds == IF c.client = "py" THEN {"string", "int", "bool", "repeated"}
                 ELSE {"string", "int", "float", "bool", "enum"}
    IN {f \in Fields \ c.path : Kind[f] \in kinds}

\* Whether the fields go into the query.  Go asks for the body as the handler
\* does; Python and TypeScript only for the method.
SendsQuery(c) == c.http \in {"GET", "DELETE"} \/ (c.client = "go" /\ c.body = "")

\* A variable may be empty, as it reaches the handler behind a rest-of-path
\* wildcard only: for an empty segment ServeMux has no route.
ClientCall ==
    /\ phase = "call" /\ caller.client # "http"
    /\ msg' \in Messages
    /\ path' = [f \in caller.path |-> msg'[f]]
    /\ IF SendsQuery(caller)
       THEN /\ query' = [k \in {<<f, "json">> : f \in {g \in QueryFields(caller) : msg'[g] # 0}}
                           |-> <<msg'[k[1]]>>]
            /\ body' = Empty
       ELSE query' = <<>> /\ body' = Message(msg')
    /\ phase' = "bind"
    /\ UNCHANGED <<caller, todo, bound, seen, outcome, wire, answer>>

\* Any other HTTP client: keys by either name, with one value or two, or a
\* body that is a message or not.
HttpCall ==
    /\ phase = "call" /\ caller.client = "http"
    /\ path' \in [caller.path -> 0 .. NotUtf8]
    /\ \E ks \in SUBSET Keys :
         /\ Cardinality(ks) <= MaxKeys
         /\ query' \in [ks -> {<<v>> : v \in 0 .. NotUtf8} \cup {<<1, 1>>}]
    /\ body' \in {Empty} \cup
          (IF DOMAIN query' = {} THEN {Text} \cup {Message(m) : m \in Messages} ELSE {})
    /\ phase' = "bind"
    /\ UNCHANGED <<caller, msg, todo, bound, seen, outcome, wire, answer>>

-----------------------------------------------------------------------------
\* The generated handler and forward.go.

BindsQuery(c) == c.http \in {"GET", "DELETE"} \/ c.body = ""

\* generateProtoLiteral: the path-bound fields of an empty message.
Literal == [f \in Fields |-> IF f \in caller.path THEN path[f] ELSE 0]

\* ForwardWithBody, up to the loop of applyQueryParams.
BindQuery ==
    /\ phase = "bind" /\ BindsQuery(caller)
    /\ bound' = Literal /\ todo' = DOMAIN query
    /\ phase' = "query"
    /\ UNCHANGED <<request, seen, outcome, wire, answer>>

\* Mutant: a key with several values sets its field to the first.
Usable_FirstValue(k) == k[1] \in Fields /\ bound[k[1]] = 0 /\ Parses(Kind[k[1]], query[k][1])

\* Mutant: a value that does not parse is set all the same.
Usable_Unparsed(k) == Len(query[k]) = 1 /\ k[1] \in Fields /\ bound[k[1]] = 0

\* A key sets its field when it has one value, the field is not set yet and
\* the value parses.
Usable(k) ==
    /\ Len(query[k]) = 1
    /\ k[1] \in Fields /\ bound[k[1]] = 0
    /\ Parses(Kind[k[1]], query[k][1])

\* One iteration of the loop over the query, a map: keys come in any order.
\* There is no case for enums; to set a repeated field to a scalar panics.
ApplyKey ==
    /\ phase = "query"
    /\ \E k \in todo :
         /\ todo' = todo \ {k}
         /\ \/ /\ Usable(k) => Kind[k[1]] = "enum"
               /\ UNCHANGED <<phase, bound>>
            \/ /\ Usable(k) /\ Kind[k[1]] \notin {"enum", "repeated"}
               /\ bound' = [bound EXCEPT ![k[1]] = query[k][1]]
               /\ UNCHANGED phase
            \/ /\ Usable(k) /\ Kind[k[1]] = "repeated"
               /\ phase' = "panicked" /\ UNCHANGED bound
    /\ UNCHANGED <<request, seen, outcome, wire, answer>>

QueryApplied ==
    /\ phase = "query" /\ todo = {}
    /\ phase' = "forward"
    /\ UNCHANGED <<request, todo, bound, seen, outcome, wire, answer>>

Refused == wire' = [status |-> 400, body |-> Text] /\ phase' = "sent"

\* Mutant: the body is merged into the path variables.
Merge_BodyWins(m, lit) == [f \in Fields |-> IF m[f] # 0 THEN m[f] ELSE lit[f]]

\* proto.Merge(reqMsg, pathVarsMsg).
Merge(m, lit) == [f \in Fields |-> IF lit[f] # 0 THEN lit[f] ELSE m[f]]

\* Forward and ForwardWithPathVars: read, unmarshal, merge.
BindBody ==
    /\ phase = "bind" /\ ~BindsQuery(caller)
    /\ \/ /\ ~IsMessage(body)
          /\ Refused /\ UNCHANGED bound
       \/ /\ IsMessage(body)
          /\ bound' = Merge(body.message, Literal)
          /\ phase' = "forward" /\ UNCHANGED wire
    /\ UNCHANGED <<request, todo, seen, outcome, answer>>

\* connect-go (external): the HTTP status of an error code.
StatusOf(code) ==
    CASE code \in {"invalid_argument", "failed_precondition", "out_of_range"} -> 400
      [] code = "unauthenticated"              -> 401
      [] code = "permission_denied"            -> 403
      [] code = "not_found"                    -> 404
      [] code \in {"already_exists", "aborted"} -> 409
      [] code = "resource_exhausted"           -> 429
      [] code = "canceled"                     -> 499
      [] code = "unimplemented"                -> 501
      [] code = "unavailable"                  -> 503
      [] code = "deadline_exceeded"            -> 504
      [] OTHER                                 -> 500

None      == [status |-> 0, body |-> Empty]
Replies   == {[status |-> 200, body |-> Message(m)] : m \in {0, 1}}
Failures  == {[status |-> StatusOf(c), body |-> Error(c)] : c \in Codes}
Strangers == {[status |-> s, body |-> Text] : s \in {200, 503}}

\* forward, up to and through handler.ServeHTTP: the RPC replies or fails, or
\* middleware answers in its place with something that is no message, or the
\* RPC panics behind the capture.
Serve ==
    /\ phase = "forward"
    /\ \/ /\ \E f \in Fields : bound[f] = NotUtf8
          /\ Refused /\ UNCHANGED <<seen, outcome>>
       \/ /\ \A f \in Fields : bound[f] # NotUtf8
          /\ seen' = <<bound>>
          /\ \/ outcome' \in Replies \cup Failures \cup Strangers /\ phase' = "relay"
             \/ phase' = "panicked" /\ UNCHANGED outcome
          /\ UNCHANGED wire
    /\ UNCHANGED <<request, todo, bound, answer>>

\* Mutant: the captured status of an error is not passed on.
Relayed_Implicit200(out) ==
    IF out.status >= 400 THEN [out EXCEPT !.status = 200]
    ELSE IF ~IsMessage(out.body) THEN [status |-> 500, body |-> Text] ELSE out

\* An error goes out as it came; anything else must be a message.
Relayed(out) ==
    IF out.status >= 400 THEN out
    ELSE IF ~IsMessage(out.body) THEN [status |-> 500, body |-> Text] ELSE out

Relay ==
    /\ phase = "relay"
    /\ wire' = Relayed(outcome)
    /\ phase' = "sent"
    /\ UNCHANGED <<request, todo, bound, seen, outcome, answer>>

\* A panic reaches the server, which drops the connection.
Dropped ==
    /\ phase = "panicked"
    /\ wire' = None
    /\ phase' = "sent"
    /\ UNCHANGED <<request, todo, bound, seen, outcome, answer>>

-----------------------------------------------------------------------------
\* The client reads the answer.

\* A proxy may answer in place of the server, and connections break.
Lost ==
    /\ phase = "sent"
    /\ wire' \in {[status |-> s, body |-> Text] : s \in {0, 502, 503} \ {wire.status}}
    /\ phase' = "parse"
    /\ UNCHANGED <<request, todo, bound, seen, outcome, answer>>

Arrives ==
    /\ phase = "sent" /\ phase' = "parse"
    /\ UNCHANGED <<request, todo, bound, seen, outcome, wire, answer>>

httpStatusToConnectCode(status) ==
    CASE status = 400 -> "invalid_argument"
      [] status = 401 -> "unauthenticated"
      [] status = 403 -> "permission_denied"
      [] status = 404 -> "not_found"
      [] status = 409 -> "already_exists"
      [] status = 412 -> "failed_precondition"
      [] status = 429 -> "resource_exhausted"
      [] status = 501 -> "unimplemented"
      [] status = 503 -> "unavailable"
      [] status = 504 -> "deadline_exceeded"
      [] OTHER        -> "internal"

connectCodes ==
    {"canceled", "unknown", "invalid_argument", "deadline_exceeded", "not_found",
     "already_exists", "permission_denied", "resource_exhausted", "failed_precondition",
     "aborted", "out_of_range", "unimplemented", "internal", "unavailable", "data_loss",
     "unauthenticated"}

\* The code of an error answer: the body's if it is known, else the status's.
parseErrorResponse(status, b) ==
    IF IsError(b) /\ b.error \in connectCodes THEN b.error ELSE httpStatusToConnectCode(status)

\* doHTTPCall.  The Go client discards unknown fields, so that an error object
\* under a status of success would decode to an empty message.
Parse ==
    /\ phase = "parse"
    /\ answer' = IF wire.status = 0 THEN Error("transport")
                 ELSE IF wire.status >= 300 THEN Error(parseErrorResponse(wire.status, wire.body))
                 ELSE IF IsMessage(wire.body) THEN wire.body
                 ELSE IF caller.client = "go" /\ IsError(wire.body) THEN Message(0)
                 ELSE Error("decoding")
    /\ phase' = "done"
    /\ UNCHANGED <<request, todo, bound, seen, outcome, wire>>

Done == phase = "done" /\ UNCHANGED vars

-----------------------------------------------------------------------------

Init ==
    /\ phase = "call" /\ caller \in Callers
    /\ msg = NoMessage /\ path = <<>> /\ query = <<>> /\ body = Empty
    /\ todo = {} /\ bound = NoMessage /\ seen = <<>>
    /\ outcome = None /\ wire = None /\ answer = Empty

Next ==
    \/ ClientCall \/ HttpCall
    \/ BindQuery \/ ApplyKey \/ QueryApplied \/ BindBody
    \/ Serve \/ Relay \/ Dropped \/ Lost \/ Arrives \/ Parse \/ Done

Spec == Init /\ [][Next]_vars

-----------------------------------------------------------------------------
\* Types of the message on its way: a number field of the request message that
\* applyQueryParams fills only ever holds a number.
TypeOK ==
    /\ phase \in {"call", "bind", "query", "forward", "relay", "panicked", "sent", "parse", "done"}
    /\ caller \in Callers /\ msg \in Messages
    /\ todo \subseteq Keys
    /\ bound \in [Fields -> 0 .. NotUtf8]
    /\ \A f \in Fields : Parses(Kind[f], bound[f])
    /\ Len(seen) <= 1

Ran == seen # <<>>

\* What a generated client puts into a message is what its RPC runs with, in
\* whatever part of the request each field travels: no field is lost, and the
\* request is neither refused nor does its handler panic.
FieldsArrive ==
    caller.client # "http" =>
        /\ Ran => seen[1] = msg
        /\ phase \in {"sent", "panicked"} => Ran

\* "Don't override fields already set (e.g., from path variables)": whatever
\* query and body say, in whatever order, the RPC runs with the resource the
\* path names.
PathVarsWin == Ran => \A f \in caller.path : path[f] # 0 => seen[1][f] = path[f]

\* What a query asks for: the value of the one key of the field, if it can be
\* used.
Asked(f) ==
    LET keys == {k \in DOMAIN query : k[1] = f /\ Len(query[k]) = 1 /\ Parses(Kind[f], query[k][1])}
    IN IF keys = {} THEN 0 ELSE query[CHOOSE k \in keys : TRUE][1]

Ambiguous(f) == {<<f, "json">>, <<f, "proto">>} \subseteq DOMAIN query

\* The loop over the query, a map, binds the same message in every order,
\* unless a field is named by both of its names or is an enum.
OrderDoesNotMatter ==
    Ran /\ BindsQuery(caller) =>
        \A f \in Fields :
            ~Ambiguous(f) /\ Kind[f] # "enum" =>
                seen[1][f] = IF Literal[f] # 0 THEN Literal[f] ELSE Asked(f)

\* What the client is told is true of the RPC: success only with the message
\* of an RPC that replied, and the code of an RPC that failed with a code of
\* Connect's whenever its answer comes through; a request that never ran is an
\* error.
AnswersAreHonest ==
    phase = "done" =>
        /\ IsMessage(answer) => Ran /\ outcome = [status |-> 200, body |-> answer]
        /\ ~Ran => IsError(answer)
        /\ outcome \in Failures /\ wire = outcome /\ outcome.body.error \in connectCodes =>
               answer = outcome.body
=============================================================================
