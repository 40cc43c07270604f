----------------------------- MODULE RouteTable -----------------------------
(***************************************************************************)
(* From annotated RPCs to served requests, for one service: the server     *)
(* half of protoc-gen-aip-go and of the code it generates.                 *)
(*                                                                         *)
(*   collect    keep the usable RPCs and parse their URL patterns          *)
(*   group      one group per (HTTP method, path shape); a custom verb     *)
(*              does not make a group of its own                           *)
(*   remap      all routes of a group read the path variables under the    *)
(*              names the registered pattern captures                      *)
(*   construct  the (pattern, handler) pairs the constructor yields        *)
(*   define     the functions the generated file defines                   *)
(*   register   mux.Handle of every pair (connectaip.Handle)               *)
(*   serve      one request of the generated client, through the mux and   *)
(*              the dispatcher                                             *)
(*                                                                         *)
(* The value the client puts into its j-th variable is the number j, so    *)
(* that what a handler reads shows which variable it came from.            *)
(***************************************************************************)
EXTENDS ServeMux

CONSTANTS
    Methods,    \* annotated RPCs to choose a service from
    MaxMethods  \* bound: RPCs in the service

ASSUME MaxMethodsAssumption == MaxMethods \in Nat
ASSUME MethodsAssumption == \A m \in Methods : Annotated(m)

VARIABLES
    phase,      \* the loop being run
    i,          \* its cursor
    service,    \* the RPCs of the service, in declaration order
    routes,     \* usable routes (routeInfo)
    names,      \* names[r][j]: current name of pathVars[j] of route r
    groups,     \* routeGroup, in order of first appearance
    pairs,      \* (pattern, handler name) yielded by the constructor
    funcs,      \* names of the functions the file defines, in order
    mux,        \* pairs registered with the ServeMux
    request,    \* the request in flight: the route it was built for, or 0
    served      \* what became of it

vars == <<phase, i, service, routes, names, groups, pairs, funcs, mux, request, served>>

-----------------------------------------------------------------------------
\* The filters of generateServiceHandler and parseHTTPRule.

HasRule(m)    == ~m.clientStream /\ m.http # "none"
BodyPanics(m) == HasRule(m) /\ m.body \notin {"", "*"}
Usable(m)     == HasRule(m) /\ m.stringVars

Route(m) == [rpc |-> m.rpc, method |-> m.http, path |-> MuxPath(m.tmpl, m.verb),
             verb |-> IF VerbIsCut(m.tmpl) THEN m.verb ELSE "",
             streaming |-> m.serverStream]

Loop(len, next) ==
    IF i < len THEN i' = i + 1 /\ UNCHANGED phase ELSE i' = 1 /\ phase' = next

Collect ==
    /\ phase = "collect" /\ i <= Len(service)
    /\ LET m == service[i] IN
         \/ /\ BodyPanics(m)
            /\ phase' = "generatorPanic" /\ UNCHANGED <<i, routes, names>>
         \/ /\ ~BodyPanics(m) /\ Usable(m)
            /\ routes' = Append(routes, Route(m))
            /\ names' = Append(names, VarNamesOf(m.tmpl))
            /\ Loop(Len(service), "group")
         \/ /\ ~BodyPanics(m) /\ ~Usable(m)
            /\ Loop(Len(service), "group") /\ UNCHANGED <<routes, names>>
    /\ UNCHANGED <<service, groups, pairs, funcs, mux, request, served>>

\* No usable route: nothing is generated.
NothingToGenerate ==
    /\ phase = "group" /\ routes = <<>>
    /\ phase' = "nothing"
    /\ UNCHANGED <<i, service, routes, names, groups, pairs, funcs, mux, request, served>>

-----------------------------------------------------------------------------
\* groupRoutesByPattern.

Key(r) == <<r.method, Normalize(r.path)>>

NewGroup(r) == [key |-> Key(r), method |-> r.method, path |-> r.path,
                base |-> 0, verbs |-> <<>>]

\* Mutant: a verb route is recorded under the index after its own.
AddTo_OffByOne(g, k) ==
    IF routes[k].verb = "" THEN [g EXCEPT !.base = k, !.path = routes[k].path]
    ELSE [g EXCEPT !.verbs = Append(@, k + 1)]

\* A route without a verb owns the registered path; the last such route wins.
AddTo(g, k) ==
    IF routes[k].verb = "" THEN [g EXCEPT !.base = k, !.path = routes[k].path]
    ELSE [g EXCEPT !.verbs = Append(@, k)]

Group ==
    /\ phase = "group" /\ i <= Len(routes)
    /\ LET home == {h \in DOMAIN groups : groups[h].key = Key(routes[i])}
       IN IF home = {}
          THEN groups' = Append(groups, AddTo(NewGroup(routes[i]), i))
          ELSE groups' = [h \in DOMAIN groups |->
                            IF h \in home THEN AddTo(groups[h], i) ELSE groups[h]]
    /\ Loop(Len(routes), "remap")
    /\ UNCHANGED <<service, routes, names, pairs, funcs, mux, request, served>>

\* The route whose names the group's registered pattern carries.
NameOwner(g) == IF g.base # 0 THEN g.base ELSE g.verbs[1]

\* Mutant: a verb route keeps the names of its own annotation.
Renamed_Own(own, canon) == own

Renamed(own, canon) ==
    [j \in DOMAIN own |-> IF j <= Len(canon) THEN canon[j] ELSE own[j]]

Remap ==
    /\ phase = "remap" /\ i <= Len(groups)
    /\ LET g == groups[i]
           canon == names[NameOwner(g)]
           verbs == {g.verbs[k] : k \in DOMAIN g.verbs}
       IN names' = [r \in DOMAIN names |->
                      IF r \in verbs THEN Renamed(names[r], canon) ELSE names[r]]
    /\ Loop(Len(groups), "construct")
    /\ UNCHANGED <<service, routes, groups, pairs, funcs, mux, request, served>>

-----------------------------------------------------------------------------
\* The generated constructor and functions.

Members(g) == (IF g.base = 0 THEN {} ELSE {g.base}) \cup {g.verbs[k] : k \in DOMAIN g.verbs}

\* Mutant: one streaming route moves the whole service to POST.
RegisteredMethod_AnyStream(g) ==
    IF \E r \in DOMAIN routes : routes[r].streaming THEN "POST" ELSE g.method

\* Streaming clients always POST, so a group with a streaming route is
\* registered for POST whatever its annotation says.
RegisteredMethod(g) ==
    IF \E r \in Members(g) : routes[r].streaming THEN "POST" ELSE g.method

\* Mutant: the method is not part of the dispatcher's name.
DispatcherFuncName_NoMethod(method, path) ==
    <<"dispatch", [k \in DOMAIN path |-> <<path[k].text, path[k].tail>>]>>

\* dispatcherFuncName: the texts of the path, without its punctuation.
DispatcherFuncName(method, path) ==
    <<"dispatch", method, [k \in DOMAIN path |-> <<path[k].text, path[k].tail>>]>>
HandlerFuncName(r) == <<"handle", routes[r].rpc>>

Construct ==
    /\ phase = "construct" /\ i <= Len(groups)
    /\ LET g == groups[i]
           method == RegisteredMethod(g)
       IN pairs' = Append(pairs,
            [method |-> method, path |-> g.path,
             func |-> IF g.verbs = <<>> THEN HandlerFuncName(g.base)
                      ELSE DispatcherFuncName(method, g.path)])
    /\ Loop(Len(groups), "define")
    /\ UNCHANGED <<service, routes, names, groups, funcs, mux, request, served>>

\* generateDispatcherHandler names the function by the group's own method.
DispatcherDefined(g) == DispatcherFuncName(g.method, g.path)

\* generateStandaloneHandlers, then generateDispatcherHandlers for the groups
\* with verbs.
Define ==
    /\ phase = "define"
    /\ LET dispatching == {h \in DOMAIN groups : groups[h].verbs # <<>>}
       IN funcs' = [r \in DOMAIN routes |-> HandlerFuncName(r)]
                   \o FlattenSeq([h \in DOMAIN groups |->
                        IF h \in dispatching THEN <<DispatcherDefined(groups[h])>> ELSE <<>>])
    /\ phase' = "compile"
    /\ UNCHANGED <<i, service, routes, names, groups, pairs, mux, request, served>>

\* The Go compiler (external): a function is defined once, a used one exists.
Compile ==
    /\ phase = "compile"
    /\ LET Defined(f) == {k \in DOMAIN funcs : funcs[k] = f}
       IN phase' = IF /\ \A k \in DOMAIN funcs : Defined(funcs[k]) = {k}
                      /\ \A k \in DOMAIN pairs : Defined(pairs[k].func) # {}
                   THEN "register" ELSE "compileError"
    /\ UNCHANGED <<i, service, routes, names, groups, pairs, funcs, mux, request, served>>

-----------------------------------------------------------------------------
\* mux.Handle panics on a malformed or conflicting pattern.
Register ==
    /\ phase = "register" /\ i <= Len(pairs)
    /\ LET new == pairs[i]
           refused == \/ Malformed(new.path)
                      \/ \E k \in DOMAIN mux : /\ mux[k].method = new.method
                                               /\ Conflicts(mux[k].path, new.path)
       IN IF refused THEN phase' = "muxPanic" /\ UNCHANGED <<i, mux>>
          ELSE mux' = Append(mux, new) /\ Loop(Len(pairs), "serving")
    /\ UNCHANGED <<service, routes, names, groups, pairs, funcs, request, served>>

\* The concrete path the client of route r sends: variable j holds value j (and
\* the hidden literals, when it spans several segments); the verb comes last.
Sent(lit, id) == [lit |-> lit, id |-> id, verb |-> ""]
ClientPath(r) ==
    LET path == routes[r].path
        Nth(k) == Cardinality({h \in Wildcards(path) : h <= k})
        Segments(k) ==
            IF k \in Wildcards(path)
            THEN <<Sent(<<>>, Nth(k))>>
                 \o [h \in DOMAIN path[k].hidden |-> Sent(<<path[k].hidden[h]>>, 0)]
            ELSE <<[Sent(path[k].text, 0) EXCEPT !.verb = path[k].tail]>>
        all == FlattenSeq([k \in DOMAIN path |-> Segments(k)])
    IN IF routes[r].verb = "" THEN all ELSE [all EXCEPT ![Len(all)].verb = routes[r].verb]

ClientMethod(r) == IF routes[r].streaming THEN "POST" ELSE routes[r].method

MatchesPath(path, sent) ==
    /\ IF path[Len(path)].kind = "rest" THEN Len(sent) >= Len(path) ELSE Len(sent) = Len(path)
    /\ \A k \in DOMAIN path :
         path[k].kind = "lit" => sent[k].lit = path[k].text /\ sent[k].verb = path[k].tail

Candidates(method, sent) ==
    {k \in DOMAIN mux : mux[k].method = method /\ MatchesPath(mux[k].path, sent)}
BestMatches(method, sent) ==
    {k \in Candidates(method, sent) :
       \A h \in Candidates(method, sent) \ {k} : MoreSpecific(mux[k].path, mux[h].path)}

\* req.PathValue: the empty value for a name the pattern does not capture.
PathValue(path, sent, name) ==
    LET at == {k \in Wildcards(path) : path[k].text = name}
    IN IF at = {} THEN [id |-> 0, verb |-> ""]
       ELSE LET k == CHOOSE k \in at : TRUE
                last == IF path[k].kind = "rest" THEN Len(sent) ELSE k
            IN [id |-> sent[k].id, verb |-> sent[last].verb]

-----------------------------------------------------------------------------
\* Serving: the dispatcher and the standalone handler.

\* The path variable the dispatcher inspects: the last one of the base route,
\* else of the first verb route; none is <<>>.
DispatchedVar(g) ==
    LET vars_(r) == names[r]
        owner == IF g.base # 0 /\ names[g.base] # <<>> THEN g.base ELSE g.verbs[1]
    IN IF vars_(owner) = <<>> THEN <<>> ELSE vars_(owner)[Len(vars_(owner))]

\* The route the dispatcher of g hands the request to; 0 is http.NotFound.
Dispatch(g, path, sent) ==
    LET verb == PathValue(path, sent, DispatchedVar(g)).verb
        cases == {k \in DOMAIN g.verbs : routes[g.verbs[k]].verb = verb}
    IN IF DispatchedVar(g) = <<>> \/ cases = {} THEN g.base
       ELSE g.verbs[CHOOSE k \in cases : \A h \in cases : k <= h]

\* The handler a registered pair stands for.
Handling(pair, sent) ==
    LET dispatchers == {h \in DOMAIN groups :
                          groups[h].verbs # <<>> /\ DispatcherDefined(groups[h]) = pair.func}
    IN IF dispatchers # {} THEN Dispatch(groups[CHOOSE h \in dispatchers : TRUE], pair.path, sent)
       ELSE CHOOSE r \in DOMAIN routes : HandlerFuncName(r) = pair.func

\* What handler h reads: its variables' values, its own verb trimmed off.
ReadBy(h, path, sent) ==
    [j \in DOMAIN names[h] |->
       LET v == PathValue(path, sent, names[h][j])
       IN [v EXCEPT !.verb = IF @ = routes[h].verb THEN "" ELSE @]]

Nowhere == [route |-> 0, values |-> <<>>]

Serve ==
    /\ phase = "serving" /\ request = 0
    /\ \E r \in DOMAIN routes :
         LET sent == ClientPath(r)
             best == BestMatches(ClientMethod(r), sent)
         IN /\ request' = r
            /\ IF best = {} THEN served' = Nowhere
               ELSE LET pair == mux[CHOOSE k \in best : TRUE]
                        h == Handling(pair, sent)
                    IN served' = IF h = 0 THEN Nowhere
                                 ELSE [route |-> h, values |-> ReadBy(h, pair.path, sent)]
    /\ UNCHANGED <<phase, i, service, routes, names, groups, pairs, funcs, mux>>

\* The handler has answered; the next request may come.
Answered ==
    /\ phase = "serving" /\ request # 0
    /\ request' = 0 /\ served' = Nowhere
    /\ UNCHANGED <<phase, i, service, routes, names, groups, pairs, funcs, mux>>

-----------------------------------------------------------------------------

Services == UNION {{s \in [1 .. n -> Methods] : \A k, h \in 1 .. n : k # h => s[k].rpc # s[h].rpc}
                   : n \in 1 .. MaxMethods}

Init ==
    /\ phase = "collect" /\ i = 1
    /\ service \in Services
    /\ routes = <<>> /\ names = <<>> /\ groups = <<>> /\ pairs = <<>>
    /\ funcs = <<>> /\ mux = <<>>
    /\ request = 0 /\ served = Nowhere

Ended == {"nothing", "generatorPanic", "compileError", "muxPanic"}
Stopped == phase \in Ended /\ UNCHANGED vars

Next ==
    \/ Collect \/ NothingToGenerate \/ Group \/ Remap \/ Construct \/ Define
    \/ Compile \/ Register \/ Serve \/ Answered \/ Stopped

Spec == Init /\ [][Next]_vars

-----------------------------------------------------------------------------
\* Types: cursors, the indices groups keep into routes, and the phases.
TypeOK ==
    /\ phase \in {"collect", "group", "remap", "construct", "define", "compile",
                  "register", "serving"} \cup Ended
    /\ i \in Nat \ {0}
    /\ DOMAIN names = DOMAIN routes
    /\ \A k \in DOMAIN groups : Members(groups[k]) \subseteq DOMAIN routes
    /\ request \in {0} \cup DOMAIN routes
    /\ served.route \in {0} \cup DOMAIN routes

\* The pairs of the constructor can all be registered: grouping leaves no two
\* patterns that the ServeMux takes for the same one.
RegistrationSucceeds == phase # "muxPanic"

\* Every function the constructor names is defined, and none twice.
ReferencesResolve == phase # "compileError"

\* Every unary operation is registered for its own method: a pattern of the mux
\* matches what its client sends.
OperationsRegistered ==
    phase = "serving" =>
        \A r \in DOMAIN routes :
            ~routes[r].streaming => Candidates(routes[r].method, ClientPath(r)) # {}

\* A request of the generated client reaches the RPC it was made for, past a
\* sibling's verb or a more general pattern, and the handler reads each of its
\* path variables, under the names left by the remapping, with the value the
\* client put there.
RequestsReachTheirMethod ==
    request # 0 =>
        /\ served.route = request
        /\ ~routes[request].streaming =>
             served.values = [j \in DOMAIN names[request] |-> [id |-> j, verb |-> ""]]
=============================================================================
