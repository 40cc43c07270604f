---------------------------- MODULE MCRouteTable ----------------------------
\* Instances of RouteTable for TLC: pools of annotated RPCs.
EXTENDS RouteTable

L(t) == [field |-> <<>>, pat |-> <<t>>]
V(field, pat) == [field |-> field, pat |-> pat]

Rpc(name, http, tmpl, verb) ==
    [rpc |-> name, http |-> http, tmpl |-> tmpl, verb |-> verb,
     body |-> IF http = "POST" THEN "*" ELSE "", serverStream |-> FALSE,
     clientStream |-> FALSE, stringVars |-> TRUE]
Streaming(m) == [m EXCEPT !.serverStream = TRUE]

Agent(field) == <<L("v1"), V(field, <<"agents", "*">>)>>
Slo(field)   == <<L("v1"), V(field, <<"agents", "*", "slos", "*">>)>>

\* Shapes of the repository's own protos and of its comments: collections,
\* single and multiple wildcards, a nested field, rest of path, verbs with and
\* without a base route and under other variable names.
Get    == Rpc("Get", "GET", Agent(<<"name">>), "")
List   == Rpc("List", "GET", <<L("v1"), L("agents")>>, "")
Create == Rpc("Create", "POST", <<L("v1"), L("agents")>>, "")
Update == Rpc("Update", "PATCH", Agent(<<"agent", "name">>), "")
Peek   == Rpc("Peek", "GET", Agent(<<"agent">>), ":peek")
Scan   == Rpc("Scan", "GET", Agent(<<"session">>), ":scan")
Run    == Rpc("Run", "POST", Agent(<<"agent">>), ":run")
Watch  == Streaming(Rpc("Watch", "POST", Agent(<<"name">>), ":watch"))
Tail_  == Streaming(Rpc("Tail", "POST", <<L("v1"), L("agents")>>, ":tail"))
GetSlo == Rpc("GetSlo", "GET", Slo(<<"name">>), "")
Record == Rpc("Record", "GET", Slo(<<"slo">>), ":record")
Files  == Rpc("Files", "GET", <<L("v1"), V(<<"path">>, <<"agents", "*", "files">>)>>, "")
Mine   == Rpc("Mine", "GET", <<L("v1"), L("agents"), L("me")>>, "")
Upload == [Rpc("Upload", "POST", <<L("v1"), L("agents")>>, "") EXCEPT !.clientStream = TRUE]
Raw    == [Rpc("Raw", "GET", <<L("v1"), V(<<"raw">>, <<>>)>>, "") EXCEPT !.stringVars = FALSE]
Plain  == Rpc("Plain", "none", <<L("v1")>>, "")

UnaryPool == {Get, List, Create, Update, Peek, Scan, Run, Watch, Tail_, GetSlo, Record,
              Files, Mine}
SkippedPool == {Upload, Raw, Plain, [Create EXCEPT !.rpc = "Partial", !.body = "agent"]}
AllPool == UnaryPool \cup SkippedPool

\* Server-streaming RPCs annotated with a method other than POST.
GetStreamPool == {Streaming(Peek), Run, Get, Update}
=============================================================================
