--------------------------- MODULE MCGeneratedFile ---------------------------
\* An instance of GeneratedFile for TLC.
EXTENDS GeneratedFile

\* The file of the services; a sibling of the same Go package; a well-known file
\* and two that share its base; one whose directories match in the second place.
Current == "acme/v1/svc"
Sibling == "acme/v1/types"
Empty_  == "google/protobuf/empty"
Mine    == "acme/v1/empty"
Theirs  == "beta/empty"
Other   == "beta/v1/types"

MCSources == {Current, Sibling, Empty_, Mine, Theirs, Other}
MCWellKnown == {Empty_}
MCBase == (Current :> "svc") @@ (Sibling :> "types") @@ (Empty_ :> "empty")
          @@ (Mine :> "empty") @@ (Theirs :> "empty") @@ (Other :> "types")
MCDir == (Current :> <<"acme", "v1">>) @@ (Sibling :> <<"acme", "v1">>)
         @@ (Empty_ :> <<"google", "protobuf">>) @@ (Mine :> <<"acme", "v1">>)
         @@ (Theirs :> <<"beta">>) @@ (Other :> <<"beta", "v1">>)
MCRank == (Mine :> 1) @@ (Current :> 2) @@ (Sibling :> 3) @@ (Theirs :> 4) @@ (Other :> 5)
          @@ (Empty_ :> 6)
MCGoPackage == (Current :> "acme") @@ (Sibling :> "acme") @@ (Empty_ :> "emptypb")
               @@ (Mine :> "acme") @@ (Theirs :> "beta") @@ (Other :> "beta")
MCLetters == ("/v1/a-b/{n}" :> "V1ABN") @@ ("/v1/a/b/{n}" :> "V1ABN") @@ ("/v1/c" :> "V1C") @@ ("/v1/w/{n}" :> "V1WN")

Rpc(name, http, path, variables) ==
    [rpc |-> name, usable |-> TRUE, http |-> http, body |-> IF http = "POST" THEN "*" ELSE "",
     stream |-> FALSE, path |-> path, vars |-> variables, verb |-> FALSE, kinds |-> {},
     in |-> Current, out |-> Current]

AB == "/v1/a-b/{n}"
Get     == Rpc("Get", "GET", AB, "prefixed")
GetVerb == [Rpc("Run", "GET", AB, "prefixed") EXCEPT !.verb = TRUE]
PutVerb == [Rpc("Put", "POST", AB, "plain") EXCEPT !.verb = TRUE]
SlashedVerb == [GetVerb EXCEPT !.rpc = "Walk", !.path = "/v1/a/b/{n}", !.vars = "multi"]
List    == [Rpc("List", "GET", "/v1/c", "none") EXCEPT !.kinds = {"number"}, !.out = Sibling]
Find    == [Rpc("Find", "POST", "/v1/c", "none") EXCEPT !.body = "", !.kinds = {"enum"}]
Watch   == [Rpc("Watch", "GET", "/v1/w/{n}", "prefixed") EXCEPT !.stream = TRUE, !.kinds = {"float", "string"}]
Tail_   == [Rpc("Get", "POST", AB, "plain") EXCEPT !.stream = TRUE, !.verb = TRUE]
Ping    == [Rpc("Ping", "GET", "/v1/c", "none") EXCEPT !.in = Empty_, !.out = Empty_]
Copy    == [Rpc("Copy", "POST", "/v1/c", "none") EXCEPT !.in = Theirs, !.out = Mine]
Move    == [Rpc("Move", "POST", "/v1/c", "none") EXCEPT !.in = Other, !.out = Empty_]
Upload  == [Rpc("Upload", "POST", AB, "plain") EXCEPT !.usable = FALSE, !.kinds = {"number"}]

MCMethods == {Get, GetVerb, PutVerb, SlashedVerb, List, Find, Watch, Tail_, Ping, Copy, Move, Upload}
=============================================================================
