-------------------------- MODULE RouteTableProofs --------------------------
(***************************************************************************)
(* What is proved of the routes of a service, for every service and every  *)
(* annotation.  RouteInv says how far each of the generator's loops is and *)
(* that what it has made is what the lists of the loops before it come to: *)
(* routes of RPCs, groups of routes with distinct keys, a pair per group,  *)
(* the functions and the registered patterns.                              *)
(***************************************************************************)
EXTENDS RouteTable, SharedFacts

\* What the parts of the state are made of.
RouteSet == {Route(m) : m \in Methods}
NameLists == {VarNamesOf(m.tmpl) : m \in Methods}
HttpMethods == {r.method : r \in RouteSet} \cup {"POST"}
Paths == {r.path : r \in RouteSet}
GroupSet == [key : {Key(r) : r \in RouteSet}, method : HttpMethods, path : Paths,
             base : Nat, verbs : Seq(Nat)]
FuncNames == {<<"handle", r.rpc>> : r \in RouteSet}
             \cup {DispatcherFuncName(x, p) : x \in HttpMethods, p \in Paths}
PairSet == [method : HttpMethods, path : Paths, func : FuncNames]

-----------------------------------------------------------------------------
\* How far the loops are.

Parsed == IF phase = "collect" THEN i - 1 ELSE Len(service)
Grouped == IF phase \in {"collect", "generatorPanic", "nothing"} THEN 0
           ELSE IF phase = "group" THEN i - 1 ELSE Len(routes)
Built == IF phase \in {"collect", "generatorPanic", "nothing", "group", "remap"} THEN 0
         ELSE IF phase = "construct" THEN i - 1 ELSE Len(groups)
Registered == IF phase \in {"register", "muxPanic"} THEN i - 1
              ELSE IF phase = "serving" THEN Len(pairs) ELSE 0

\* Each route is one of a usable RPC ahead of the cursor, and no two of one RPC.
RoutesInv ==
    /\ service \in Services /\ routes \in Seq(RouteSet)
    /\ \A r \in DOMAIN routes :
         \E k \in 1 .. Parsed : k \in DOMAIN service /\ Usable(service[k])
                                /\ routes[r] = Route(service[k])
    /\ \A q, r \in DOMAIN routes : routes[q].rpc = routes[r].rpc => q = r

\* A group's members have its key; it has a base route or a verb, the route that
\* owns its path is a member, and only the base has no verb.
GroupOf(g) ==
    /\ Members(g) \subseteq 1 .. Grouped
    /\ \A k \in Members(g) : Key(routes[k]) = g.key
    /\ g.method = g.key[1]
    /\ NameOwner(g) \in Members(g) /\ g.path = routes[NameOwner(g)].path
    /\ g.base # 0 => routes[g.base].verb = ""
    /\ \A k \in DOMAIN g.verbs : routes[g.verbs[k]].verb # ""

\* Route r is in g, unless a later base route has taken its place.
Holds(g, r) ==
    /\ g.key = Key(routes[r])
    /\ routes[r].verb = "" => g.base # 0
    /\ routes[r].verb # "" => \E k \in DOMAIN g.verbs : g.verbs[k] = r

\* Groups have distinct keys, and each route has a group.
GroupsInv ==
    /\ groups \in Seq(GroupSet)
    /\ \A h \in DOMAIN groups : GroupOf(groups[h])
    /\ \A g, h \in DOMAIN groups : groups[g].key = groups[h].key => g = h
    /\ \A r \in 1 .. Grouped : \E h \in DOMAIN groups : Holds(groups[h], r)

\* The pair the constructor yields for a group.
PairOf(g) ==
    [method |-> RegisteredMethod(g), path |-> g.path,
     func |-> IF g.verbs = <<>> THEN HandlerFuncName(g.base)
              ELSE DispatcherFuncName(RegisteredMethod(g), g.path)]

PairsInv ==
    /\ pairs \in Seq(PairSet) /\ Len(pairs) = Built /\ Built <= Len(groups)
    /\ \A k \in DOMAIN pairs : pairs[k] = PairOf(groups[k])

\* The functions of the file.
Dispatching == {h \in DOMAIN groups : groups[h].verbs # <<>>}
Handlers == [r \in DOMAIN routes |-> HandlerFuncName(r)]
Dispatchers ==
    [h \in DOMAIN groups |-> IF h \in Dispatching THEN <<DispatcherDefined(groups[h])>> ELSE <<>>]

FuncsInv ==
    /\ phase \in {"compile", "compileError", "register", "muxPanic", "serving"} =>
          funcs = Handlers \o FlattenSeq(Dispatchers)
    /\ phase \in {"register", "muxPanic", "serving"} =>
          \A k \in DOMAIN pairs : \E h \in DOMAIN funcs : funcs[h] = pairs[k].func

\* The mux has the pairs ahead of the cursor.
MuxInv ==
    /\ mux \in Seq(PairSet) /\ Len(mux) = Registered /\ Registered <= Len(pairs)
    /\ \A k \in DOMAIN mux : mux[k] = pairs[k]

NamesInv ==
    /\ DOMAIN names = DOMAIN routes
    /\ phase = "collect" => names \in Seq(NameLists)

RequestInv ==
    /\ phase # "serving" => request = 0 /\ served = Nowhere
    /\ request \in {0} \cup DOMAIN routes
    /\ served.route \in {0} \cup DOMAIN routes

PhaseInv ==
    /\ phase \in {"collect", "group", "remap", "construct", "define", "compile",
                  "register", "serving"} \cup Ended
    /\ i \in Nat \ {0}
    /\ phase = "group" => i <= Len(routes) + 1
    /\ phase \in {"define", "compile"} => i = 1

RouteInv ==
    /\ PhaseInv /\ RoutesInv /\ GroupsInv /\ PairsInv /\ FuncsInv /\ MuxInv /\ NamesInv /\ RequestInv

-----------------------------------------------------------------------------
\* What a service may be.

\* A server-streaming RPC is annotated with the method streaming clients use.
StreamsArePosted ==
    \A k \in DOMAIN service :
        Usable(service[k]) /\ service[k].serverStream => service[k].http = "POST"

PathAt(k) == MuxPath(service[k].tmpl, service[k].verb)

\* No annotation yields a path that the ServeMux refuses, and no two of one method
\* and different shapes overlap without one of them being the more specific.
PathsAreAccepted ==
    \A k \in DOMAIN service : Usable(service[k]) =>
        /\ ~Malformed(PathAt(k))
        /\ \A j \in DOMAIN service :
             /\ Usable(service[j]) /\ service[j].http = service[k].http
             /\ Normalize(PathAt(j)) # Normalize(PathAt(k))
             => ~Conflicts(PathAt(j), PathAt(k))

\* Two paths of one method and different shapes differ in their texts.
Texts(path) == [k \in DOMAIN path |-> <<path[k].text, path[k].tail>>]
TextsDiffer ==
    \A j, k \in DOMAIN service :
        /\ Usable(service[j]) /\ Usable(service[k]) /\ service[j].http = service[k].http
        /\ Normalize(PathAt(j)) # Normalize(PathAt(k))
        => Texts(PathAt(j)) # Texts(PathAt(k))

-----------------------------------------------------------------------------
\* What the invariant says of a state.

\* A service is a sequence of RPCs with distinct names.
LEMMA ServiceFacts ==
    ASSUME service \in Services
    PROVE  /\ Len(service) \in Nat \ {0} /\ DOMAIN service = 1 .. Len(service)
           /\ \A k \in 1 .. Len(service) : service[k] \in Methods
           /\ \A k, h \in 1 .. Len(service) : service[k].rpc = service[h].rpc => k = h
<1>1. PICK n \in 1 .. MaxMethods :
        service \in {s \in [1 .. n -> Methods] : \A k, h \in 1 .. n : k # h => s[k].rpc # s[h].rpc}
  BY MaxMethodsAssumption DEF Services
<1>2. service \in [1 .. n -> Methods] /\ n \in Nat \ {0}
  BY <1>1, MaxMethodsAssumption
<1>3. Len(service) = n
  BY <1>2
<1> QED
  BY <1>1, <1>2, <1>3

\* The fields of a route.
LEMMA RouteFields ==
    ASSUME NEW m
    PROVE  /\ Route(m).rpc = m.rpc /\ Route(m).method = m.http
           /\ Route(m).path = MuxPath(m.tmpl, m.verb) /\ Route(m).streaming = m.serverStream
BY DEF Route

\* One iteration: the next element, or the next loop.
LEMMA Looped ==
    ASSUME i \in Nat \ {0}, NEW len \in Nat, i <= len, NEW next, Loop(len, next)
    PROVE  /\ i' \in Nat \ {0}
           /\ \/ phase' = phase /\ i' = i + 1 /\ i < len
              \/ phase' = next /\ i' = 1 /\ i = len
BY DEF Loop

\* No loop has made anything before it runs.
LEMMA NothingYet ==
    ASSUME RouteInv
    PROVE  /\ Grouped = 0 => groups = <<>>
           /\ Built = 0 => pairs = <<>>
           /\ Registered = 0 => mux = <<>>
<1>1. ASSUME Grouped = 0 PROVE groups = <<>>
  <2>1. groups \in Seq(GroupSet) /\ \A h \in DOMAIN groups : GroupOf(groups[h])
    BY DEF RouteInv, GroupsInv
  <2>2. ASSUME NEW h \in DOMAIN groups PROVE FALSE
    <3>1. Members(groups[h]) \subseteq 1 .. Grouped /\ NameOwner(groups[h]) \in Members(groups[h])
      BY <2>1, Zenon DEF GroupOf
    <3> QED
      BY <1>1, <3>1
  <2> QED
    BY <2>1, <2>2
<1>2. pairs \in Seq(PairSet) /\ Len(pairs) = Built
  BY DEF RouteInv, PairsInv
<1>3. mux \in Seq(PairSet) /\ Len(mux) = Registered
  BY DEF RouteInv, MuxInv
<1> QED
  BY <1>1, <1>2, <1>3

\* What a step leaves alone.
LEMMA RoutesKept ==
    ASSUME RoutesInv, UNCHANGED <<service, routes>>, Parsed \in Nat, Parsed' \in Nat, Parsed <= Parsed'
    PROVE  RoutesInv'
<1>1. service' = service /\ routes' = routes /\ 1 .. Parsed \subseteq 1 .. Parsed'
  OBVIOUS
<1>2. service' \in Services /\ routes' \in Seq(RouteSet)
  BY <1>1 DEF RoutesInv
<1>3. \A r \in DOMAIN routes :
         \E k \in 1 .. Parsed' : k \in DOMAIN service /\ Usable(service[k])
                                 /\ routes[r] = Route(service[k])
  BY <1>1, Zenon DEF RoutesInv
<1>4. \A q, r \in DOMAIN routes : routes[q].rpc = routes[r].rpc => q = r
  BY DEF RoutesInv
<1> QED
  BY <1>1, <1>2, <1>3, <1>4, Zenon DEF RoutesInv

LEMMA GroupsKept ==
    ASSUME GroupsInv, UNCHANGED <<routes, groups>>, Grouped' = Grouped
    PROVE  GroupsInv'
<1>1. \A g : GroupOf(g) => GroupOf(g)'
  BY DEF GroupOf, Members, Key, NameOwner
<1>2. \A g, r : Holds(g, r) => Holds(g, r)'
  BY DEF Holds, Key
<1> QED
  BY <1>1, <1>2, Zenon DEF GroupsInv

LEMMA PairsKept ==
    ASSUME PairsInv, UNCHANGED <<routes, groups, pairs>>, Built' = Built
    PROVE  PairsInv'
<1>1. \A g : PairOf(g)' = PairOf(g)
  BY DEF PairOf, RegisteredMethod, Members, HandlerFuncName, DispatcherFuncName
<1> QED
  BY <1>1 DEF PairsInv

Compiled == {"register", "muxPanic", "serving"}
LEMMA FuncsKept ==
    ASSUME FuncsInv, UNCHANGED <<routes, groups, pairs, funcs>>,
           phase' \in {"compile", "compileError"} \cup Compiled
              => phase \in {"compile", "compileError"} \cup Compiled,
           phase' \in Compiled => phase \in Compiled
    PROVE  FuncsInv'
<1>1. Handlers' = Handlers /\ Dispatchers' = Dispatchers
  BY DEF Handlers, Dispatchers, Dispatching, HandlerFuncName, DispatcherDefined, DispatcherFuncName
<1> QED
  BY <1>1 DEF FuncsInv, Compiled

LEMMA MuxKept ==
    ASSUME MuxInv, UNCHANGED <<pairs, mux>>, Registered' = Registered
    PROVE  MuxInv'
BY DEF MuxInv

LEMMA RequestKept ==
    ASSUME RequestInv, phase # "serving", UNCHANGED <<request, served>>
    PROVE  RequestInv'
BY DEF RequestInv, Nowhere

-----------------------------------------------------------------------------
\* Each step keeps the invariant.

LEMMA CollectKeeps ==
    ASSUME RouteInv, Collect
    PROVE  RouteInv'
<1> DEFINE m == service[i]
<1>1. /\ phase = "collect" /\ i \in Nat \ {0} /\ i <= Len(service)
      /\ Len(service) \in Nat \ {0} /\ DOMAIN service = 1 .. Len(service)
      /\ \A k, h \in 1 .. Len(service) : service[k].rpc = service[h].rpc => k = h
      /\ Parsed = i - 1
  BY ServiceFacts DEF RouteInv, PhaseInv, RoutesInv, Collect, Parsed
<1>2. groups = <<>> /\ pairs = <<>> /\ mux = <<>>
  BY <1>1, NothingYet DEF Grouped, Built, Registered
<1>3. UNCHANGED <<service, groups, pairs, funcs, mux, request, served>> /\ RequestInv'
  <2>1. UNCHANGED <<service, groups, pairs, funcs, mux, request, served>>
    BY DEF Collect
  <2> QED
    BY <1>1, <2>1, RequestKept DEF RouteInv
<1>4. ASSUME i' \in Nat \ {0}, phase' \in {"collect", "group", "generatorPanic"},
             phase' = "group" => i' = 1, Len(routes') \in Nat
      PROVE  PhaseInv' /\ GroupsInv' /\ PairsInv' /\ FuncsInv' /\ MuxInv'
  <2>1. Grouped' = 0 /\ Built' = 0 /\ Registered' = 0
    BY <1>4 DEF Grouped, Built, Registered
  <2>2. groups' = <<>> /\ pairs' = <<>> /\ mux' = <<>>
    BY <1>2, <1>3
  <2>3. PhaseInv'
    <3>1. phase' = "group" => i' <= Len(routes') + 1
      BY <1>4
    <3> QED
      BY <1>4, <3>1 DEF PhaseInv, Ended
  <2>4. GroupsInv'
    BY <2>1, <2>2 DEF GroupsInv
  <2>5. PairsInv'
    BY <2>1, <2>2 DEF PairsInv
  <2>6. FuncsInv'
    BY <1>4 DEF FuncsInv
  <2>7. MuxInv'
    BY <2>1, <2>2 DEF MuxInv
  <2> QED
    BY <2>3, <2>4, <2>5, <2>6, <2>7
<1>r. Len(routes) \in Nat /\ (UNCHANGED routes => Len(routes') \in Nat)
  BY DEF RouteInv, RoutesInv
<1>5. CASE BodyPanics(m) /\ phase' = "generatorPanic" /\ UNCHANGED <<i, routes, names>>
  <2>1. PhaseInv' /\ GroupsInv' /\ PairsInv' /\ FuncsInv' /\ MuxInv'
    BY <1>1, <1>4, <1>5, <1>r
  <2>2. Parsed' = Len(service)
    BY <1>3, <1>5 DEF Parsed
  <2>3. RoutesInv'
    BY <1>1, <1>3, <1>5, <2>2, RoutesKept DEF RouteInv
  <2>4. NamesInv'
    BY <1>5 DEF RouteInv, NamesInv
  <2> QED
    BY <1>3, <2>1, <2>3, <2>4 DEF RouteInv
<1>6. ASSUME Loop(Len(service), "group"), Len(routes') \in Nat
      PROVE  /\ PhaseInv' /\ GroupsInv' /\ PairsInv' /\ FuncsInv' /\ MuxInv'
             /\ Parsed' = i
  <2>1. /\ i' \in Nat \ {0}
        /\ \/ phase' = phase /\ i' = i + 1 /\ i < Len(service)
           \/ phase' = "group" /\ i' = 1 /\ i = Len(service)
    BY <1>1, <1>6, Looped
  <2>2. Parsed' = i
    <3>1. CASE phase' = phase /\ i' = i + 1
      BY <1>1, <3>1 DEF Parsed
    <3>2. CASE phase' = "group" /\ i = Len(service)
      <4>1. Len(service') = i
        BY <1>3, <3>2
      <4> QED
        BY <3>2, <4>1 DEF Parsed
    <3> QED
      BY <2>1, <3>1, <3>2
  <2> QED
    BY <1>1, <1>4, <1>6, <2>1, <2>2
<1>7. CASE ~Usable(m) /\ Loop(Len(service), "group") /\ UNCHANGED <<routes, names>>
  <2>1. RoutesInv'
    BY <1>1, <1>3, <1>6, <1>7, <1>r, RoutesKept DEF RouteInv
  <2>2. NamesInv'
    BY <1>1, <1>7 DEF RouteInv, NamesInv
  <2> QED
    BY <1>3, <1>6, <1>7, <1>r, <2>1, <2>2 DEF RouteInv
<1>8. CASE /\ Usable(m) /\ routes' = Append(routes, Route(m))
           /\ names' = Append(names, VarNamesOf(m.tmpl))
           /\ Loop(Len(service), "group")
  <2>1. m \in Methods /\ Route(m) \in RouteSet /\ VarNamesOf(m.tmpl) \in NameLists
    BY <1>1, ServiceFacts DEF RouteInv, RoutesInv, RouteSet, NameLists
  <2>2. /\ routes \in Seq(RouteSet) /\ names \in Seq(NameLists) /\ Len(names) = Len(routes)
        /\ Len(routes) \in Nat
    <3>1. routes \in Seq(RouteSet) /\ names \in Seq(NameLists) /\ DOMAIN names = DOMAIN routes
      BY <1>1 DEF RouteInv, RoutesInv, NamesInv
    <3> QED
      BY <3>1
  <2> DEFINE n == Len(routes)
  <2>3. /\ routes' \in Seq(RouteSet) /\ DOMAIN routes' = 1 .. n + 1
        /\ routes'[n + 1] = Route(m) /\ \A r \in 1 .. n : routes'[r] = routes[r]
    BY <1>8, <2>1, <2>2
  <2>4. names' \in Seq(NameLists) /\ DOMAIN names' = 1 .. n + 1
    BY <1>8, <2>1, <2>2
  <2>e. Len(routes') \in Nat
    BY <2>3
  <2>5. Parsed' = i
    BY <1>6, <1>8, <2>e
  <2>6. \A r \in 1 .. n : \E k \in 1 .. i - 1 :
           k \in DOMAIN service /\ Usable(service[k]) /\ routes[r] = Route(service[k])
    BY <1>1, <2>2 DEF RouteInv, RoutesInv
  <2>7. /\ \A r \in 1 .. n : \E k \in 1 .. i - 1 :
             k \in DOMAIN service /\ Usable(service[k]) /\ routes'[r] = Route(service[k])
        /\ i \in DOMAIN service /\ Usable(service[i]) /\ routes'[n + 1] = Route(service[i])
    BY <1>1, <1>8, <2>3, <2>6
  <2>8. \A r \in DOMAIN routes' : \E k \in 1 .. i :
           k \in DOMAIN service /\ Usable(service[k]) /\ routes'[r] = Route(service[k])
    <3> SUFFICES ASSUME NEW r \in 1 .. n + 1
                 PROVE  \E k \in 1 .. i : k \in DOMAIN service /\ Usable(service[k])
                                          /\ routes'[r] = Route(service[k])
      BY <2>3
    <3>1. CASE r = n + 1
      BY <1>1, <2>7, <3>1
    <3>2. CASE r # n + 1
      <4>1. r \in 1 .. n
        BY <2>2, <3>2
      <4>2. PICK k \in 1 .. i - 1 : k \in DOMAIN service /\ Usable(service[k])
                                    /\ routes'[r] = Route(service[k])
        BY <2>7, <4>1
      <4>3. k \in 1 .. i
        BY <1>1
      <4> QED
        BY <4>2, <4>3
    <3> QED
      BY <3>1, <3>2
  <2>9. \A q, r \in DOMAIN routes' : routes'[q].rpc = routes'[r].rpc => q = r
    <3>1. \A r \in 1 .. n : routes'[r].rpc # routes'[n + 1].rpc
      <4> SUFFICES ASSUME NEW r \in 1 .. n PROVE routes'[r].rpc # routes'[n + 1].rpc
        OBVIOUS
      <4>1. PICK k \in 1 .. i - 1 : k \in DOMAIN service /\ routes'[r] = Route(service[k])
        BY <2>7
      <4>2. k \in 1 .. Len(service) /\ i \in 1 .. Len(service) /\ k # i
        BY <1>1
      <4>3. routes'[r].rpc = service[k].rpc /\ routes'[n + 1].rpc = service[i].rpc
        BY <2>7, <4>1, RouteFields
      <4> QED
        BY <1>1, <4>2, <4>3
    <3>2. \A q, r \in 1 .. n : routes'[q].rpc = routes'[r].rpc => q = r
      <4>1. \A q, r \in 1 .. n : routes[q].rpc = routes[r].rpc => q = r
        BY <2>2 DEF RouteInv, RoutesInv
      <4> QED
        BY <2>3, <4>1
    <3>3. \A q \in 1 .. n + 1 : q = n + 1 \/ q \in 1 .. n
      BY <2>2
    <3> QED
      BY <2>3, <3>1, <3>2, <3>3
  <2>10. RoutesInv'
    <3>1. service' = service /\ service \in Services
      BY <1>3 DEF RouteInv, RoutesInv
    <3> QED
      BY <2>3, <2>5, <2>8, <2>9, <3>1, Zenon DEF RoutesInv
  <2>11. NamesInv'
    BY <2>3, <2>4 DEF NamesInv
  <2> QED
    BY <1>3, <1>6, <1>8, <2>e, <2>10, <2>11 DEF RouteInv
<1>9. \/ BodyPanics(m) /\ phase' = "generatorPanic" /\ UNCHANGED <<i, routes, names>>
      \/ ~Usable(m) /\ Loop(Len(service), "group") /\ UNCHANGED <<routes, names>>
      \/ /\ Usable(m) /\ routes' = Append(routes, Route(m))
         /\ names' = Append(names, VarNamesOf(m.tmpl))
         /\ Loop(Len(service), "group")
  BY Zenon DEF Collect
<1> QED
  BY <1>5, <1>7, <1>8, <1>9

LEMMA NothingToGenerateKeeps ==
    ASSUME RouteInv, NothingToGenerate
    PROVE  RouteInv'
<1>1. /\ phase = "group" /\ phase' = "nothing" /\ i' = i /\ i \in Nat \ {0}
      /\ routes = <<>> /\ Len(routes) = 0
      /\ UNCHANGED <<i, service, routes, names, groups, pairs, funcs, mux, request, served>>
  BY DEF NothingToGenerate, RouteInv, PhaseInv
<1>2. Grouped = 0 /\ Built = 0 /\ Registered = 0 /\ Grouped' = 0 /\ Built' = 0 /\ Registered' = 0
  <2>1. i <= Len(routes) + 1
    BY <1>1 DEF RouteInv, PhaseInv
  <2> QED
    BY <1>1, <2>1 DEF Grouped, Built, Registered
<1>3. PhaseInv'
  BY <1>1 DEF PhaseInv, Ended
<1>4. RoutesInv'
  <2>1. Parsed' = Parsed /\ Parsed \in Nat
    BY <1>1, ServiceFacts DEF Parsed, RouteInv, RoutesInv
  <2> QED
    BY <1>1, <2>1, RoutesKept DEF RouteInv
<1>5. GroupsInv' /\ PairsInv' /\ MuxInv' /\ RequestInv'
  BY <1>1, <1>2, GroupsKept, PairsKept, MuxKept, RequestKept DEF RouteInv
<1>6. FuncsInv'
  BY <1>1 DEF FuncsInv
<1>7. NamesInv'
  BY <1>1 DEF RouteInv, NamesInv
<1> QED
  BY <1>3, <1>4, <1>5, <1>6, <1>7 DEF RouteInv

\* A group with one route more.
LEMMA AddedTo ==
    ASSUME routes \in Seq(RouteSet), NEW k \in DOMAIN routes, NEW g \in GroupSet,
           g.key = Key(routes[k]), g.method = g.key[1]
    PROVE  /\ AddTo(g, k) \in GroupSet
           /\ AddTo(g, k).key = g.key /\ AddTo(g, k).method = g.method
           /\ routes[k].verb = "" =>
                 AddTo(g, k).base = k /\ AddTo(g, k).path = routes[k].path
                 /\ AddTo(g, k).verbs = g.verbs
           /\ routes[k].verb # "" =>
                 AddTo(g, k).base = g.base /\ AddTo(g, k).path = g.path
                 /\ AddTo(g, k).verbs = Append(g.verbs, k)
<1>1. k \in Nat /\ routes[k] \in RouteSet /\ routes[k].path \in Paths
  BY DEF Paths
<1>2. /\ g = [key |-> g.key, method |-> g.method, path |-> g.path, base |-> g.base, verbs |-> g.verbs]
      /\ g.key \in {Key(r) : r \in RouteSet} /\ g.method \in HttpMethods /\ g.path \in Paths
      /\ g.base \in Nat /\ g.verbs \in Seq(Nat)
  BY DEF GroupSet
<1>3. CASE routes[k].verb = ""
  <2>1. AddTo(g, k) = [key |-> g.key, method |-> g.method, path |-> routes[k].path,
                       base |-> k, verbs |-> g.verbs]
    BY <1>2, <1>3 DEF AddTo
  <2>2. AddTo(g, k) \in GroupSet
    BY <1>1, <1>2, <2>1 DEF GroupSet
  <2>3. /\ AddTo(g, k).key = g.key /\ AddTo(g, k).method = g.method
        /\ AddTo(g, k).base = k /\ AddTo(g, k).path = routes[k].path /\ AddTo(g, k).verbs = g.verbs
    BY <2>1
  <2> QED
    BY <1>3, <2>2, <2>3, Zenon
<1>4. CASE routes[k].verb # ""
  <2>1. AddTo(g, k) = [key |-> g.key, method |-> g.method, path |-> g.path,
                       base |-> g.base, verbs |-> Append(g.verbs, k)]
    BY <1>2, <1>4 DEF AddTo
  <2>2. Append(g.verbs, k) \in Seq(Nat)
    BY <1>1, <1>2
  <2>3. AddTo(g, k) \in GroupSet
    BY <1>1, <1>2, <2>1, <2>2 DEF GroupSet
  <2>4. /\ AddTo(g, k).key = g.key /\ AddTo(g, k).method = g.method
        /\ AddTo(g, k).base = g.base /\ AddTo(g, k).path = g.path
        /\ AddTo(g, k).verbs = Append(g.verbs, k)
    BY <2>1
  <2> QED
    BY <1>4, <2>3, <2>4, Zenon
<1> QED
  BY <1>3, <1>4

\* What GroupOf says, of a group of the first n routes.
GroupUpTo(g, n) ==
    /\ Members(g) \subseteq 1 .. n
    /\ \A k \in Members(g) : Key(routes[k]) = g.key
    /\ g.method = g.key[1]
    /\ NameOwner(g) \in Members(g) /\ g.path = routes[NameOwner(g)].path
    /\ g.base # 0 => routes[g.base].verb = ""
    /\ \A k \in DOMAIN g.verbs : routes[g.verbs[k]].verb # ""

\* A group keeps what GroupOf says when the next route is added, and holds it.
LEMMA AddedIsGroup ==
    ASSUME routes \in Seq(RouteSet), NEW k \in DOMAIN routes, NEW g \in GroupSet,
           g.key = Key(routes[k]), g.method = g.key[1],
           GroupUpTo(g, k - 1) \/ g = NewGroup(routes[k])
    PROVE  GroupUpTo(AddTo(g, k), k) /\ Holds(AddTo(g, k), k)
<1> DEFINE a == AddTo(g, k)
<1>1. /\ a \in GroupSet /\ a.key = g.key /\ a.method = g.method
      /\ routes[k].verb = "" => a.base = k /\ a.path = routes[k].path /\ a.verbs = g.verbs
      /\ routes[k].verb # "" => a.base = g.base /\ a.path = g.path /\ a.verbs = Append(g.verbs, k)
  BY AddedTo
<1>2. k \in Nat /\ k # 0 /\ g.base \in Nat /\ g.verbs \in Seq(Nat) /\ Len(g.verbs) \in Nat
  BY DEF GroupSet
<1>3. /\ g = NewGroup(routes[k]) => g.base = 0 /\ g.verbs = <<>> /\ g.path = routes[k].path
  BY DEF NewGroup
<1>k. k \in 1 .. k /\ \A q \in 1 .. k - 1 : q \in 1 .. k
  <2>1. k \in Nat /\ k # 0
    BY <1>2
  <2> HIDE DEF a
  <2> QED
    BY <2>1
<1>4. /\ \A q \in Members(g) : q \in 1 .. k - 1 /\ Key(routes[q]) = g.key
      /\ g.base # 0 => routes[g.base].verb = ""
      /\ \A q \in DOMAIN g.verbs : routes[g.verbs[q]].verb # ""
  <2>1. CASE GroupUpTo(g, k - 1)
    BY <2>1, Zenon DEF GroupUpTo
  <2>2. CASE g = NewGroup(routes[k])
    <3>1. g.base = 0 /\ g.verbs = <<>>
      BY <1>3, <2>2
    <3>2. DOMAIN g.verbs = {}
      BY <3>1
    <3>3. Members(g) = {}
      BY <3>1, <3>2 DEF Members
    <3> QED
      BY <3>1, <3>2, <3>3, Zenon
  <2> QED
    BY <2>1, <2>2
<1>5. CASE routes[k].verb = ""
  <2>1. a.base = k /\ a.verbs = g.verbs /\ a.path = routes[k].path
    BY <1>1, <1>5
  <2>2. Members(a) \subseteq Members(g) \cup {k} /\ k \in Members(a) /\ NameOwner(a) = k
    BY <1>2, <2>1 DEF Members, NameOwner
  <2>3. \A q \in Members(a) : q \in 1 .. k /\ Key(routes[q]) = a.key
    <3> SUFFICES ASSUME NEW q \in Members(a) PROVE q \in 1 .. k /\ Key(routes[q]) = a.key
      OBVIOUS
    <3>1. a.key = g.key /\ Key(routes[k]) = g.key
      BY <1>1, Zenon
    <3>2. q = k \/ q \in Members(g)
      BY <2>2
    <3> QED
      BY <1>4, <1>k, <3>1, <3>2, Zenon
  <2>4. GroupUpTo(a, k)
    BY <1>1, <1>4, <1>5, <2>1, <2>2, <2>3 DEF GroupUpTo
  <2>5. Holds(a, k)
    BY <1>1, <1>2, <1>5, <2>1 DEF Holds
  <2> QED
    BY <2>4, <2>5
<1>6. CASE routes[k].verb # ""
  <2>1. a.base = g.base /\ a.verbs = Append(g.verbs, k) /\ a.path = g.path
    BY <1>1, <1>6
  <2>2. /\ DOMAIN a.verbs = 1 .. Len(g.verbs) + 1 /\ DOMAIN g.verbs = 1 .. Len(g.verbs)
        /\ a.verbs[Len(g.verbs) + 1] = k
        /\ \A h \in 1 .. Len(g.verbs) : a.verbs[h] = g.verbs[h]
        /\ g.verbs = <<>> <=> Len(g.verbs) = 0
    BY <1>2, <2>1
  <2> DEFINE l == Len(g.verbs)
  <2> l \in Nat
    BY <1>2
  <2>a. /\ \A h \in 1 .. l + 1 : h = l + 1 \/ h \in 1 .. l
        /\ l + 1 \in 1 .. l + 1 /\ 1 .. l \subseteq 1 .. l + 1
    OBVIOUS
  <2> HIDE DEF l
  <2>3. Members(a) \subseteq Members(g) \cup {k}
    <3> SUFFICES ASSUME NEW q \in Members(a), q # k PROVE q \in Members(g)
      OBVIOUS
    <3>1. CASE q = a.base /\ a.base # 0
      BY <2>1, <3>1 DEF Members
    <3>2. CASE \E h \in DOMAIN a.verbs : q = a.verbs[h]
      <4>1. PICK h \in 1 .. l + 1 : q = a.verbs[h]
        BY <2>2, <3>2 DEF l
      <4>2. h \in DOMAIN g.verbs /\ q = g.verbs[h]
        BY <2>2, <2>a, <4>1 DEF l
      <4> QED
        BY <4>2 DEF Members
    <3> QED
      BY <3>1, <3>2 DEF Members
  <2>4. k \in Members(a)
    BY <2>2, <2>a DEF Members, l
  <2>5. \A q \in Members(a) : q \in 1 .. k /\ Key(routes[q]) = a.key
    <3> SUFFICES ASSUME NEW q \in Members(a) PROVE q \in 1 .. k /\ Key(routes[q]) = a.key
      OBVIOUS
    <3>1. a.key = g.key /\ Key(routes[k]) = g.key
      BY <1>1, Zenon
    <3>2. q = k \/ q \in Members(g)
      BY <2>3
    <3> QED
      BY <1>4, <1>k, <3>1, <3>2, Zenon
  <2>6. NameOwner(a) \in Members(a) /\ a.path = routes[NameOwner(a)].path
    <3>1. CASE g = NewGroup(routes[k])
      <4>1. l = 0 /\ a.base = 0 /\ a.verbs[1] = k /\ a.path = routes[k].path
        BY <1>3, <2>1, <2>2, <3>1 DEF l
      <4> QED
        BY <2>4, <4>1 DEF NameOwner
    <3>2. CASE GroupUpTo(g, k - 1)
      <4>1. NameOwner(g) \in Members(g) /\ g.path = routes[NameOwner(g)].path
        BY <3>2, Zenon DEF GroupUpTo
      <4>2. CASE g.base # 0
        <5>1. NameOwner(a) = a.base /\ NameOwner(g) = g.base
          BY <2>1, <4>2 DEF NameOwner
        <5>2. a.base \in Members(a)
          BY <2>1, <4>2 DEF Members
        <5> QED
          BY <2>1, <4>1, <5>1, <5>2
      <4>3. CASE g.base = 0
        <5>1. l # 0
          <6>1. ASSUME l = 0 PROVE FALSE
            <7>1. Members(g) = {}
              BY <2>2, <4>3, <6>1 DEF Members, l
            <7> QED
              BY <4>1, <7>1
          <6> QED
            BY <6>1
        <5>2. 1 \in 1 .. l
          BY <5>1
        <5>3. a.verbs[1] = g.verbs[1] /\ 1 \in DOMAIN a.verbs
          BY <2>2, <2>a, <5>2 DEF l
        <5>4. NameOwner(a) = a.verbs[1] /\ NameOwner(g) = a.verbs[1]
          BY <2>1, <4>3, <5>3 DEF NameOwner
        <5>5. a.verbs[1] \in Members(a)
          BY <5>3 DEF Members
        <5> QED
          BY <2>1, <4>1, <5>4, <5>5
      <4> QED
        BY <4>2, <4>3
    <3> QED
      BY <3>1, <3>2
  <2>7. \A h \in DOMAIN a.verbs : routes[a.verbs[h]].verb # ""
    BY <1>4, <1>6, <2>2, <2>a DEF l
  <2>8. a.base # 0 => routes[a.base].verb = ""
    BY <1>4, <2>1
  <2>9. GroupUpTo(a, k)
    <3>1. Members(a) \subseteq 1 .. k /\ (\A q \in Members(a) : Key(routes[q]) = a.key)
      BY <2>5
    <3>2. a.method = a.key[1]
      BY <1>1
    <3> HIDE DEF a
    <3> QED
      BY <2>6, <2>7, <2>8, <3>1, <3>2, Zenon DEF GroupUpTo
  <2>10. Holds(a, k)
    <3>1. a.key = Key(routes[k]) /\ \E h \in DOMAIN a.verbs : a.verbs[h] = k
      BY <1>1, <2>2, <2>a DEF l
    <3> HIDE DEF a
    <3> QED
      BY <1>6, <3>1, Zenon DEF Holds
  <2> QED
    BY <2>9, <2>10
<1> QED
  BY <1>5, <1>6

\* A group holds what it held.
LEMMA StillHolds ==
    ASSUME routes \in Seq(RouteSet), NEW k \in DOMAIN routes, NEW g \in GroupSet,
           g.key = Key(routes[k]), g.method = g.key[1], NEW r, Holds(g, r)
    PROVE  Holds(AddTo(g, k), r)
<1> DEFINE a == AddTo(g, k)
<1>1. /\ a \in GroupSet /\ a.key = g.key /\ a.method = g.method
      /\ routes[k].verb = "" => a.base = k /\ a.path = routes[k].path /\ a.verbs = g.verbs
      /\ routes[k].verb # "" => a.base = g.base /\ a.path = g.path /\ a.verbs = Append(g.verbs, k)
  BY AddedTo
<1>2. k \in Nat /\ k # 0 /\ g.verbs \in Seq(Nat)
  BY DEF GroupSet
<1>3. \A h \in DOMAIN g.verbs : h \in DOMAIN a.verbs /\ a.verbs[h] = g.verbs[h]
  <2>1. /\ DOMAIN g.verbs \subseteq DOMAIN Append(g.verbs, k)
        /\ \A h \in DOMAIN g.verbs : Append(g.verbs, k)[h] = g.verbs[h]
    BY <1>2
  <2>2. a.verbs = g.verbs \/ a.verbs = Append(g.verbs, k)
    BY <1>1, Zenon
  <2> QED
    BY <2>1, <2>2, Zenon
<1>4. g.base # 0 => a.base # 0
  BY <1>1, <1>2
<1>5. a.key = g.key
  BY <1>1
<1> HIDE DEF a
<1> QED
  BY <1>3, <1>4, <1>5, Zenon DEF Holds, a

LEMMA GroupKeeps ==
    ASSUME RouteInv, Group
    PROVE  RouteInv'
<1> DEFINE home == {h \in DOMAIN groups : groups[h].key = Key(routes[i])}
<1>1. /\ phase = "group" /\ i \in Nat \ {0} /\ i <= Len(routes) /\ Grouped = i - 1
      /\ routes \in Seq(RouteSet) /\ Len(routes) \in Nat /\ DOMAIN routes = 1 .. Len(routes)
  <2>1. phase = "group" /\ i <= Len(routes) /\ i \in Nat \ {0} /\ routes \in Seq(RouteSet)
    BY DEF Group, RouteInv, PhaseInv, RoutesInv
  <2> QED
    BY <2>1 DEF Grouped
<1>2. UNCHANGED <<service, routes, names, pairs, funcs, mux, request, served>>
  BY DEF Group
<1>3. /\ i' \in Nat \ {0}
      /\ \/ phase' = "group" /\ i' = i + 1 /\ i < Len(routes)
         \/ phase' = "remap" /\ i' = 1 /\ i = Len(routes)
  BY <1>1, Looped DEF Group
<1>4. Grouped' = i /\ Built = 0 /\ Built' = 0 /\ Registered = 0 /\ Registered' = 0
  <2>1. Len(routes)' = Len(routes)
    BY <1>2
  <2> QED
    <3>1. CASE phase' = "group" /\ i' = i + 1
      BY <1>1, <3>1 DEF Grouped, Built, Registered
    <3>2. CASE phase' = "remap" /\ i = Len(routes)
      BY <1>1, <2>1, <3>2 DEF Grouped, Built, Registered
    <3> QED
      BY <1>3, <3>1, <3>2
<1>5. PhaseInv'
  <2>1. phase' = "group" => i' <= Len(routes') + 1
    <3>1. Len(routes') = Len(routes)
      BY <1>2
    <3> QED
      BY <1>1, <1>3, <3>1
  <2> QED
    BY <1>3, <2>1, Zenon DEF PhaseInv
<1>6. RoutesInv'
  <2>1. Parsed' = Parsed /\ Parsed \in Nat
    <3>1. Len(service') = Len(service) /\ Len(service) \in Nat
      BY <1>2, ServiceFacts DEF RouteInv, RoutesInv
    <3>2. phase # "collect" /\ phase' # "collect"
      BY <1>1, <1>3
    <3> QED
      BY <3>1, <3>2 DEF Parsed
  <2> QED
    BY <1>2, <2>1, RoutesKept DEF RouteInv
<1>7. MuxInv' /\ RequestInv' /\ FuncsInv' /\ NamesInv'
  <2>1. MuxInv' /\ RequestInv'
    BY <1>1, <1>2, <1>4, MuxKept, RequestKept DEF RouteInv
  <2>2. FuncsInv'
    BY <1>3 DEF FuncsInv
  <2>3. NamesInv'
    BY <1>2, <1>3 DEF RouteInv, NamesInv
  <2> QED
    BY <2>1, <2>2, <2>3
<1>8. /\ groups \in Seq(GroupSet) /\ Len(groups) \in Nat /\ DOMAIN groups = 1 .. Len(groups)
      /\ \A h \in DOMAIN groups : GroupUpTo(groups[h], i - 1)
      /\ \A g, h \in DOMAIN groups : groups[g].key = groups[h].key => g = h
      /\ \A r \in 1 .. i - 1 : \E h \in DOMAIN groups : Holds(groups[h], r)
  <2>1. groups \in Seq(GroupSet)
    BY DEF RouteInv, GroupsInv
  <2>2. \A h \in DOMAIN groups : GroupUpTo(groups[h], i - 1)
    BY <1>1 DEF RouteInv, GroupsInv, GroupOf, GroupUpTo
  <2> QED
    BY <1>1, <2>1, <2>2 DEF RouteInv, GroupsInv
<1>9. i \in DOMAIN routes /\ routes[i] \in RouteSet
  BY <1>1
<1>10. ASSUME NEW g, GroupUpTo(g, i - 1) PROVE GroupUpTo(g, i)
  <2>1. 1 .. i - 1 \subseteq 1 .. i
    BY <1>1
  <2> QED
    BY <1>10, <2>1 DEF GroupUpTo
<1>11. ASSUME groups' \in Seq(GroupSet),
              \A h \in DOMAIN groups' : GroupUpTo(groups'[h], i),
              \A g, h \in DOMAIN groups' : groups'[g].key = groups'[h].key => g = h,
              \A r \in 1 .. i : \E h \in DOMAIN groups' : Holds(groups'[h], r)
       PROVE  RouteInv'
  <2>3. ASSUME NEW h \in DOMAIN groups' PROVE GroupOf(groups[h])'
    <3>1. GroupUpTo(groups'[h], i) /\ routes' = routes
      BY <1>2, <1>11
    <3>2. /\ Members(groups[h])' = Members(groups'[h])
          /\ NameOwner(groups[h])' = NameOwner(groups'[h])
      BY DEF Members, NameOwner
    <3> QED
      BY <1>4, <3>1, <3>2, Zenon DEF GroupUpTo, GroupOf, Key
  <2>4. ASSUME NEW r \in 1 .. Grouped' PROVE \E h \in DOMAIN groups' : Holds(groups[h], r)'
    <3>1. PICK h \in DOMAIN groups' : Holds(groups'[h], r)
      BY <1>4, <1>11
    <3>2. Holds(groups[h], r)'
      BY <1>2, <3>1 DEF Holds, Key
    <3> QED
      BY <3>2
  <2>5. GroupsInv'
    BY <1>11, <2>3, <2>4, Zenon DEF GroupsInv
  <2>6. PairsInv'
    <3>1. pairs = <<>> /\ pairs' = <<>>
      BY <1>2, <1>4, NothingYet
    <3>2. Len(groups') \in Nat
      BY <1>11
    <3> QED
      BY <1>4, <3>1, <3>2 DEF PairsInv
  <2> QED
    BY <1>5, <1>6, <1>7, <2>5, <2>6 DEF RouteInv
<1>12. CASE home = {} /\ groups' = Append(groups, AddTo(NewGroup(routes[i]), i))
  <2> DEFINE g == NewGroup(routes[i])
             n == Len(groups)
             a == AddTo(g, i)
  <2>1. g \in GroupSet /\ g.key = Key(routes[i]) /\ g.method = g.key[1]
    <3>1. g = [key |-> Key(routes[i]), method |-> routes[i].method, path |-> routes[i].path,
               base |-> 0, verbs |-> <<>>]
      BY DEF NewGroup
    <3>2. /\ Key(routes[i]) \in {Key(r) : r \in RouteSet} /\ routes[i].method \in HttpMethods
          /\ routes[i].path \in Paths /\ <<>> \in Seq(Nat) /\ 0 \in Nat
      BY <1>9 DEF HttpMethods, Paths
    <3>3. g \in GroupSet
      BY <3>1, <3>2 DEF GroupSet
    <3>4. g.key = Key(routes[i]) /\ g.method = routes[i].method
      BY <3>1
    <3>5. Key(routes[i])[1] = routes[i].method
      BY DEF Key
    <3> QED
      BY <3>3, <3>4, <3>5
  <2>2. /\ a \in GroupSet /\ a.key = Key(routes[i]) /\ GroupUpTo(a, i) /\ Holds(a, i)
    BY <1>1, <1>9, <2>1, AddedTo, AddedIsGroup
  <2> HIDE DEF a, g
  <2>3. /\ groups' \in Seq(GroupSet) /\ DOMAIN groups' = 1 .. n + 1 /\ groups'[n + 1] = a
        /\ \A h \in 1 .. n : groups'[h] = groups[h]
    BY <1>8, <1>12, <2>2 DEF a, g
  <2>4. n \in Nat /\ \A h \in 1 .. n + 1 : h = n + 1 \/ h \in 1 .. n
    BY <1>8
  <2>5. /\ n + 1 \in 1 .. n + 1 /\ 1 .. n \subseteq 1 .. n + 1 /\ DOMAIN groups = 1 .. n
        /\ \A r \in 1 .. i : r = i \/ r \in 1 .. i - 1
    BY <1>1, <1>8
  <2> HIDE DEF n
  <2>6. \A h \in DOMAIN groups' : GroupUpTo(groups'[h], i)
    BY <1>8, <1>10, <2>2, <2>3, <2>4, <2>5
  <2>7. \A h \in 1 .. n : groups[h].key # Key(routes[i])
    BY <1>12, <2>5
  <2>8. \A f, h \in DOMAIN groups' : groups'[f].key = groups'[h].key => f = h
    BY <1>8, <2>2, <2>3, <2>4, <2>5, <2>7
  <2>9. \A r \in 1 .. i : \E h \in DOMAIN groups' : Holds(groups'[h], r)
    <3> SUFFICES ASSUME NEW r \in 1 .. i PROVE \E h \in DOMAIN groups' : Holds(groups'[h], r)
      OBVIOUS
    <3>1. CASE r = i
      BY <2>2, <2>3, <2>5, <3>1
    <3>2. CASE r # i
      <4>1. PICK h \in 1 .. n : Holds(groups[h], r)
        BY <1>8, <2>5, <3>2
      <4> QED
        BY <2>3, <2>5, <4>1
    <3> QED
      BY <3>1, <3>2
  <2> QED
    BY <1>11, <2>3, <2>6, <2>8, <2>9
<1>13. CASE /\ home # {}
            /\ groups' = [h \in DOMAIN groups |->
                            IF h \in home THEN AddTo(groups[h], i) ELSE groups[h]]
  <2> DEFINE n == Len(groups)
  <2>1. /\ DOMAIN groups' = 1 .. n /\ DOMAIN groups = 1 .. n
        /\ \A h \in home : groups'[h] = AddTo(groups[h], i)
        /\ \A h \in (1 .. n) \ home : groups'[h] = groups[h]
    BY <1>8, <1>13
  <2>2. \A h \in 1 .. n : groups[h] \in GroupSet /\ groups[h].method = groups[h].key[1]
    <3>1. \A h \in 1 .. n : groups[h] \in GroupSet
      BY <1>8
    <3>2. \A h \in 1 .. n : groups[h].method = groups[h].key[1]
      BY <1>8, <2>1, Zenon DEF GroupUpTo
    <3> QED
      BY <3>1, <3>2
  <2>3. home \subseteq 1 .. n /\ \A h \in home : groups[h].key = Key(routes[i])
    BY <2>1
  <2>d. groups' \in [1 .. n -> {groups'[h] : h \in 1 .. n}] /\ n \in Nat
    BY <1>8, <1>13, <2>1
  <2> HIDE DEF n, home
  <2>4. ASSUME NEW h \in home
        PROVE  /\ groups'[h] \in GroupSet /\ groups'[h].key = groups[h].key
               /\ GroupUpTo(groups'[h], i) /\ Holds(groups'[h], i)
               /\ \A r : Holds(groups[h], r) => Holds(groups'[h], r)
    <3>1. /\ groups[h] \in GroupSet /\ groups[h].method = groups[h].key[1]
          /\ groups[h].key = Key(routes[i]) /\ GroupUpTo(groups[h], i - 1)
      BY <1>8, <2>1, <2>2, <2>3
    <3>2. AddTo(groups[h], i) \in GroupSet /\ AddTo(groups[h], i).key = groups[h].key
      BY <1>1, <1>9, <3>1, AddedTo
    <3>3. GroupUpTo(AddTo(groups[h], i), i) /\ Holds(AddTo(groups[h], i), i)
      BY <1>1, <1>9, <3>1, AddedIsGroup
    <3>4. \A r : Holds(groups[h], r) => Holds(AddTo(groups[h], i), r)
      BY <1>1, <1>9, <3>1, StillHolds
    <3> QED
      BY <2>1, <3>2, <3>3, <3>4
  <2>5. ASSUME NEW h \in (1 .. n) \ home
        PROVE  /\ groups'[h] \in GroupSet /\ groups'[h].key = groups[h].key
               /\ GroupUpTo(groups'[h], i)
               /\ \A r : Holds(groups[h], r) => Holds(groups'[h], r)
    BY <1>8, <1>10, <2>1, <2>2
  <2>6. \A h \in 1 .. n :
          /\ groups'[h] \in GroupSet /\ groups'[h].key = groups[h].key
          /\ GroupUpTo(groups'[h], i)
          /\ \A r : Holds(groups[h], r) => Holds(groups'[h], r)
    BY <2>4, <2>5
  <2>7. groups' \in Seq(GroupSet)
    <3>1. groups' \in [1 .. n -> GroupSet] /\ n \in Nat
      BY <2>6, <2>d
    <3> QED
      BY <3>1
  <2>8. \A f, h \in DOMAIN groups' : groups'[f].key = groups'[h].key => f = h
    BY <1>8, <2>1, <2>6
  <2>9. \A r \in 1 .. i : \E h \in DOMAIN groups' : Holds(groups'[h], r)
    <3> SUFFICES ASSUME NEW r \in 1 .. i PROVE \E h \in DOMAIN groups' : Holds(groups'[h], r)
      OBVIOUS
    <3>1. CASE r = i
      BY <1>13, <2>1, <2>3, <2>4, <3>1 DEF home
    <3>2. CASE r # i
      <4>0. r \in 1 .. i - 1
        BY <1>1, <3>2
      <4>1. PICK h \in 1 .. n : Holds(groups[h], r)
        BY <1>8, <2>1, <4>0
      <4> QED
        BY <2>1, <2>6, <4>1
    <3> QED
      BY <3>1, <3>2
  <2> QED
    BY <1>11, <2>1, <2>6, <2>7, <2>8, <2>9
<1> QED
  BY <1>12, <1>13, Zenon DEF Group

\* The loops behind the grouping leave routes and groups alone.
Later == {"remap", "construct", "define", "compile", "compileError", "register", "muxPanic", "serving"}

LEMMA LaterKept ==
    ASSUME RouteInv, phase \in Later, phase' \in Later, i' \in Nat \ {0},
           phase' \in {"define", "compile"} => i' = 1, UNCHANGED <<service, routes, groups>>
    PROVE  PhaseInv' /\ RoutesInv' /\ GroupsInv'
<1>1. phase \notin {"collect", "group"} /\ phase' \notin {"collect", "group"}
      /\ phase \notin {"generatorPanic", "nothing"} /\ phase' \notin {"generatorPanic", "nothing"}
  BY DEF Later
<1>2. Len(service) \in Nat /\ Len(service') = Len(service) /\ Len(routes') = Len(routes)
  BY ServiceFacts DEF RouteInv, RoutesInv
<1>3. PhaseInv'
  <2>1. phase' \in {"collect", "group", "remap", "construct", "define", "compile",
                    "register", "serving"} \cup Ended
    BY DEF Later, Ended
  <2> QED
    BY <1>1, <2>1 DEF PhaseInv
<1>4. RoutesInv'
  <2>1. Parsed' = Parsed /\ Parsed \in Nat
    BY <1>1, <1>2 DEF Parsed
  <2> QED
    BY <2>1, RoutesKept DEF RouteInv
<1>5. GroupsInv'
  <2>1. Grouped' = Grouped
    BY <1>1, <1>2 DEF Grouped
  <2> QED
    BY <2>1, GroupsKept DEF RouteInv
<1> QED
  BY <1>3, <1>4, <1>5

\* The groups, once they are made.
LEMMA GroupFacts ==
    ASSUME RouteInv, phase \in Later
    PROVE  /\ groups \in Seq(GroupSet) /\ Len(groups) \in Nat /\ DOMAIN groups = 1 .. Len(groups)
           /\ routes \in Seq(RouteSet) /\ Len(routes) \in Nat /\ DOMAIN routes = 1 .. Len(routes)
           /\ Grouped = Len(routes)
           /\ \A h \in DOMAIN groups : groups[h] \in GroupSet /\ GroupOf(groups[h])
<1>1. groups \in Seq(GroupSet) /\ \A h \in DOMAIN groups : GroupOf(groups[h])
  BY DEF RouteInv, GroupsInv
<1>2. routes \in Seq(RouteSet)
  BY DEF RouteInv, RoutesInv
<1>3. Grouped = Len(routes)
  BY DEF Later, Grouped
<1> QED
  BY <1>1, <1>2, <1>3

LEMMA RemapKeeps ==
    ASSUME RouteInv, Remap
    PROVE  RouteInv'
<1>1. /\ phase = "remap" /\ i \in Nat \ {0} /\ i <= Len(groups)
      /\ UNCHANGED <<service, routes, groups, pairs, funcs, mux, request, served>>
      /\ Loop(Len(groups), "construct") /\ DOMAIN names' = DOMAIN names
  BY DEF Remap, RouteInv, PhaseInv
<1>2. Len(groups) \in Nat
  BY <1>1, GroupFacts DEF Later
<1>3. i' \in Nat \ {0} /\ (phase' = "remap" \/ (phase' = "construct" /\ i' = 1))
  <2>1. /\ i' \in Nat \ {0}
        /\ \/ phase' = phase /\ i' = i + 1 /\ i < Len(groups)
           \/ phase' = "construct" /\ i' = 1 /\ i = Len(groups)
    <3>1. i \in Nat \ {0} /\ i <= Len(groups) /\ Loop(Len(groups), "construct")
      BY <1>1
    <3> QED
      BY <1>2, <3>1, Looped
  <2> QED
    BY <1>1, <2>1
<1>4. phase \in Later /\ phase' \in Later
  BY <1>1, <1>3 DEF Later
<1>5. PhaseInv' /\ RoutesInv' /\ GroupsInv'
  BY <1>1, <1>3, <1>4, LaterKept
<1>6. PairsInv' /\ MuxInv' /\ RequestInv'
  <2>1. Built' = Built /\ Registered' = Registered
    BY <1>1, <1>3 DEF Built, Registered
  <2> QED
    BY <1>1, <2>1, PairsKept, MuxKept, RequestKept DEF RouteInv
<1>7. FuncsInv'
  BY <1>3 DEF FuncsInv
<1>8. NamesInv'
  BY <1>1, <1>3 DEF RouteInv, NamesInv
<1> QED
  BY <1>5, <1>6, <1>7, <1>8 DEF RouteInv

\* A group that is made has a pair.
LEMMA PairIsPair ==
    ASSUME RouteInv, phase \in Later, NEW h \in DOMAIN groups
    PROVE  PairOf(groups[h]) \in PairSet
<1> DEFINE g == groups[h]
<1>1. g \in GroupSet /\ GroupOf(g) /\ routes \in Seq(RouteSet) /\ Grouped = Len(routes)
      /\ DOMAIN routes = 1 .. Len(routes)
  BY GroupFacts
<1> HIDE DEF g
<1>2. g.method \in HttpMethods /\ g.path \in Paths
  BY <1>1 DEF GroupSet
<1>3. RegisteredMethod(g) \in HttpMethods
  BY <1>2 DEF RegisteredMethod, HttpMethods
<1>4. ASSUME g.verbs = <<>> PROVE HandlerFuncName(g.base) \in FuncNames
  <2>1. NameOwner(g) \in Members(g) /\ Members(g) \subseteq 1 .. Len(routes)
    BY <1>1, Zenon DEF GroupOf
  <2>2. DOMAIN g.verbs = {}
    BY <1>4
  <2>3. g.base # 0 /\ g.base \in Members(g)
    BY <2>1, <2>2 DEF Members
  <2>4. routes[g.base] \in RouteSet
    BY <1>1, <2>1, <2>3
  <2> QED
    BY <2>4 DEF FuncNames, HandlerFuncName
<1>5. DispatcherFuncName(RegisteredMethod(g), g.path) \in FuncNames
  BY <1>2, <1>3 DEF FuncNames
<1>6. (IF g.verbs = <<>> THEN HandlerFuncName(g.base)
       ELSE DispatcherFuncName(RegisteredMethod(g), g.path)) \in FuncNames
  BY <1>4, <1>5
<1>7. PairOf(g) \in PairSet
  BY <1>2, <1>3, <1>6 DEF PairOf, PairSet
<1> QED
  BY <1>7 DEF g

LEMMA ConstructKeeps ==
    ASSUME RouteInv, Construct
    PROVE  RouteInv'
<1>1. /\ phase = "construct" /\ i \in Nat \ {0} /\ i <= Len(groups)
      /\ UNCHANGED <<service, routes, names, groups, funcs, mux, request, served>>
      /\ Loop(Len(groups), "define") /\ pairs' = Append(pairs, PairOf(groups[i]))
  BY DEF Construct, RouteInv, PhaseInv, PairOf
<1>2. Len(groups) \in Nat /\ DOMAIN groups = 1 .. Len(groups)
  BY <1>1, GroupFacts DEF Later
<1>3. /\ i' \in Nat \ {0}
      /\ \/ phase' = phase /\ i' = i + 1 /\ i < Len(groups)
         \/ phase' = "define" /\ i' = 1 /\ i = Len(groups)
  BY <1>1, <1>2, Looped
<1>4. phase \in Later /\ phase' \in Later
  BY <1>1, <1>3 DEF Later
<1>5. PhaseInv' /\ RoutesInv' /\ GroupsInv'
  BY <1>1, <1>3, <1>4, LaterKept
<1>6. pairs \in Seq(PairSet) /\ Len(pairs) = i - 1 /\ \A k \in DOMAIN pairs : pairs[k] = PairOf(groups[k])
  BY <1>1 DEF RouteInv, PairsInv, Built
<1>7. Built' = i
  <2>1. Len(groups') = Len(groups)
    BY <1>1
  <2>2. CASE phase' = phase /\ i' = i + 1
    BY <1>1, <2>2 DEF Built
  <2>3. CASE phase' = "define" /\ i = Len(groups)
    BY <2>1, <2>3 DEF Built
  <2> QED
    BY <1>3, <2>2, <2>3
<1>8. PairsInv'
  <2>1. PairOf(groups[i]) \in PairSet
    BY <1>1, <1>2, <1>4, PairIsPair
  <2>2. /\ pairs' \in Seq(PairSet) /\ Len(pairs') = i /\ DOMAIN pairs' = 1 .. i
        /\ pairs'[i] = PairOf(groups[i]) /\ \A k \in 1 .. i - 1 : pairs'[k] = pairs[k]
        /\ DOMAIN pairs = 1 .. i - 1
    BY <1>1, <1>6, <2>1
  <2>3. \A k \in 1 .. i : pairs'[k] = PairOf(groups[k])
    <3>1. \A k \in 1 .. i : k = i \/ k \in 1 .. i - 1
      BY <1>1
    <3> QED
      BY <1>6, <2>2, <3>1
  <2>4. ASSUME NEW k \in DOMAIN pairs' PROVE (pairs[k] = PairOf(groups[k]))'
    <3>1. pairs'[k] = PairOf(groups[k])
      BY <2>2, <2>3
    <3>2. PairOf(groups[k])' = PairOf(groups[k])
      BY <1>1 DEF PairOf, RegisteredMethod, Members, HandlerFuncName, DispatcherFuncName
    <3> QED
      BY <3>1, <3>2
  <2>5. Len(groups') = Len(groups)
    BY <1>1
  <2> QED
    BY <1>1, <1>7, <2>2, <2>4, <2>5 DEF PairsInv
<1>9. MuxInv' /\ RequestInv' /\ NamesInv' /\ FuncsInv'
  <2>1. Registered' = 0 /\ Registered = 0
    BY <1>1, <1>3 DEF Registered
  <2>2. mux = <<>> /\ mux' = <<>> /\ Len(pairs') \in Nat
    BY <1>1, <1>8, <2>1, NothingYet DEF PairsInv
  <2>3. MuxInv'
    BY <2>1, <2>2 DEF MuxInv
  <2>4. RequestInv'
    BY <1>1, RequestKept DEF RouteInv
  <2>5. NamesInv'
    BY <1>1, <1>3 DEF RouteInv, NamesInv
  <2>6. FuncsInv'
    BY <1>1, <1>3 DEF FuncsInv
  <2> QED
    BY <2>3, <2>4, <2>5, <2>6
<1> QED
  BY <1>5, <1>8, <1>9 DEF RouteInv

LEMMA DefineKeeps ==
    ASSUME RouteInv, Define
    PROVE  RouteInv'
<1>1. /\ phase = "define" /\ phase' = "compile" /\ i = 1 /\ i' = i
      /\ UNCHANGED <<i, service, routes, names, groups, pairs, mux, request, served>>
  BY DEF Define, RouteInv, PhaseInv
<1>2. funcs' = Handlers \o FlattenSeq(Dispatchers)
  BY DEF Define, Handlers, Dispatchers, Dispatching
<1>3. PhaseInv' /\ RoutesInv' /\ GroupsInv'
  BY <1>1, LaterKept DEF Later
<1>4. FuncsInv'
  <2>1. Handlers' = Handlers /\ Dispatchers' = Dispatchers
    BY <1>1 DEF Handlers, Dispatchers, Dispatching, HandlerFuncName, DispatcherDefined, DispatcherFuncName
  <2> QED
    BY <1>1, <1>2, <2>1 DEF FuncsInv
<1>5. PairsInv' /\ MuxInv' /\ RequestInv'
  <2>1. Built' = Built /\ Registered' = Registered
    BY <1>1 DEF Built, Registered
  <2> QED
    BY <1>1, <2>1, PairsKept, MuxKept, RequestKept DEF RouteInv
<1>6. NamesInv'
  BY <1>1 DEF RouteInv, NamesInv
<1> QED
  BY <1>3, <1>4, <1>5, <1>6 DEF RouteInv

LEMMA CompileKeeps ==
    ASSUME RouteInv, Compile
    PROVE  RouteInv'
<1>1. /\ phase = "compile" /\ phase' \in {"register", "compileError"} /\ i = 1
      /\ UNCHANGED <<i, service, routes, names, groups, pairs, funcs, mux, request, served>>
  BY DEF Compile, RouteInv, PhaseInv
<1>2. phase' = "register" => \A k \in DOMAIN pairs : \E h \in DOMAIN funcs : funcs[h] = pairs[k].func
  BY DEF Compile
<1>3. PhaseInv' /\ RoutesInv' /\ GroupsInv'
  BY <1>1, LaterKept DEF Later
<1>4. FuncsInv'
  <2>1. Handlers' = Handlers /\ Dispatchers' = Dispatchers
    BY <1>1 DEF Handlers, Dispatchers, Dispatching, HandlerFuncName, DispatcherDefined, DispatcherFuncName
  <2>2. funcs' = Handlers \o FlattenSeq(Dispatchers)
    BY <1>1 DEF RouteInv, FuncsInv
  <2> QED
    BY <1>1, <1>2, <2>1, <2>2 DEF FuncsInv
<1>5. PairsInv' /\ MuxInv' /\ RequestInv'
  <2>1. Built' = Built /\ Registered' = Registered
    BY <1>1 DEF Built, Registered
  <2> QED
    BY <1>1, <2>1, PairsKept, MuxKept, RequestKept DEF RouteInv
<1>6. NamesInv'
  BY <1>1 DEF RouteInv, NamesInv
<1> QED
  BY <1>3, <1>4, <1>5, <1>6 DEF RouteInv

LEMMA RegisterKeeps ==
    ASSUME RouteInv, Register
    PROVE  RouteInv'
<1>1. /\ phase = "register" /\ i \in Nat \ {0} /\ i <= Len(pairs)
      /\ UNCHANGED <<service, routes, names, groups, pairs, funcs, request, served>>
      /\ \/ phase' = "muxPanic" /\ UNCHANGED <<i, mux>>
         \/ mux' = Append(mux, pairs[i]) /\ Loop(Len(pairs), "serving")
  BY DEF Register, RouteInv, PhaseInv
<1>2. pairs \in Seq(PairSet) /\ Len(pairs) \in Nat /\ DOMAIN pairs = 1 .. Len(pairs)
  <2>1. pairs \in Seq(PairSet)
    BY DEF RouteInv, PairsInv
  <2> QED
    BY <2>1
<1>3. \/ phase' = "muxPanic" /\ UNCHANGED <<i, mux>>
      \/ mux' = Append(mux, pairs[i]) /\ phase' = phase /\ i' = i + 1 /\ i < Len(pairs)
      \/ mux' = Append(mux, pairs[i]) /\ phase' = "serving" /\ i' = 1 /\ i = Len(pairs)
  BY <1>1, <1>2, Looped
<1>4. i' \in Nat \ {0} /\ phase \in Later /\ phase' \in Later
      /\ phase' \notin {"define", "compile"}
  BY <1>1, <1>3 DEF Later
<1>5. PhaseInv' /\ RoutesInv' /\ GroupsInv'
  BY <1>1, <1>4, LaterKept
<1>6. PairsInv' /\ FuncsInv' /\ NamesInv' /\ RequestInv'
  <2>1. Built' = Built
    <3>1. Len(groups') = Len(groups)
      BY <1>1
    <3> QED
      BY <1>1, <1>3, <3>1 DEF Built
  <2>2. PairsInv'
    BY <1>1, <2>1, PairsKept DEF RouteInv
  <2>3. FuncsInv'
    BY <1>1, FuncsKept DEF RouteInv, Compiled
  <2>4. NamesInv'
    BY <1>1, <1>3 DEF RouteInv, NamesInv
  <2>5. RequestInv'
    BY <1>1, RequestKept DEF RouteInv
  <2> QED
    BY <2>2, <2>3, <2>4, <2>5
<1>7. MuxInv'
  <2>1. mux \in Seq(PairSet) /\ Len(mux) = i - 1 /\ DOMAIN mux = 1 .. i - 1
        /\ \A k \in DOMAIN mux : mux[k] = pairs[k]
    <3>1. mux \in Seq(PairSet) /\ Len(mux) = i - 1 /\ \A k \in DOMAIN mux : mux[k] = pairs[k]
      BY <1>1 DEF RouteInv, MuxInv, Registered
    <3> QED
      BY <3>1
  <2>2. CASE phase' = "muxPanic" /\ UNCHANGED <<i, mux>>
    <3>1. Registered' = Registered
      BY <1>1, <2>2 DEF Registered
    <3> QED
      BY <1>1, <2>2, <3>1, MuxKept DEF RouteInv
  <2>3. CASE /\ mux' = Append(mux, pairs[i])
             /\ \/ phase' = phase /\ i' = i + 1
                \/ phase' = "serving" /\ i = Len(pairs)
    <3>1. Registered' = i
      <4>1. Len(pairs') = Len(pairs)
        BY <1>1
      <4> QED
        BY <1>1, <2>3, <4>1 DEF Registered
    <3>2. pairs[i] \in PairSet
      BY <1>1, <1>2
    <3>3. /\ mux' \in Seq(PairSet) /\ Len(mux') = i /\ DOMAIN mux' = 1 .. i
          /\ mux'[i] = pairs[i] /\ \A k \in 1 .. i - 1 : mux'[k] = mux[k]
      BY <1>1, <2>1, <2>3, <3>2
    <3>4. \A k \in 1 .. i : k = i \/ k \in 1 .. i - 1
      BY <1>1
    <3>5. \A k \in DOMAIN mux' : mux'[k] = pairs'[k]
      BY <1>1, <2>1, <3>3, <3>4
    <3>6. Registered' <= Len(pairs')
      BY <1>1, <3>1
    <3> QED
      BY <3>1, <3>3, <3>5, <3>6, Zenon DEF MuxInv
  <2> QED
    BY <1>3, <2>2, <2>3
<1> QED
  BY <1>5, <1>6, <1>7 DEF RouteInv

\* The group a route is in; a pair of the mux is that of a group.
LEMMA MuxFacts ==
    ASSUME RouteInv, phase = "serving"
    PROVE  /\ mux \in Seq(PairSet) /\ DOMAIN mux = 1 .. Len(groups) /\ Len(groups) \in Nat
           /\ DOMAIN groups = 1 .. Len(groups)
           /\ \A k \in DOMAIN mux : mux[k] = PairOf(groups[k]) /\ mux[k] = pairs[k]
           /\ DOMAIN pairs = 1 .. Len(groups)
<1>1. Len(groups) \in Nat /\ DOMAIN groups = 1 .. Len(groups)
  BY GroupFacts DEF Later
<1>2. pairs \in Seq(PairSet) /\ Len(pairs) = Len(groups) /\ \A k \in DOMAIN pairs : pairs[k] = PairOf(groups[k])
  BY DEF RouteInv, PairsInv, Built
<1>3. mux \in Seq(PairSet) /\ Len(mux) = Len(pairs) /\ \A k \in DOMAIN mux : mux[k] = pairs[k]
  BY DEF RouteInv, MuxInv, Registered
<1> QED
  BY <1>1, <1>2, <1>3

\* A function of the file is the handler of a route or the dispatcher of a group.
LEMMA FuncsAre ==
    ASSUME RouteInv, phase \in {"compile", "compileError", "register", "muxPanic", "serving"}
    PROVE  /\ \A f : (\E k \in DOMAIN funcs : funcs[k] = f) <=>
                \/ \E r \in DOMAIN routes : f = HandlerFuncName(r)
                \/ \E h \in Dispatching : f = DispatcherDefined(groups[h])
           /\ IsInjective(funcs) <=>
                /\ \A q, r \in DOMAIN routes : HandlerFuncName(q) = HandlerFuncName(r) => q = r
                /\ \A g, h \in Dispatching :
                     DispatcherDefined(groups[g]) = DispatcherDefined(groups[h]) => g = h
<1> DEFINE n == Len(groups)
           l == Len(routes)
           names_ == [h \in 1 .. n |-> DispatcherDefined(groups[h])]
<1>1. /\ groups \in Seq(GroupSet) /\ n \in Nat /\ DOMAIN groups = 1 .. n
      /\ routes \in Seq(RouteSet) /\ l \in Nat /\ DOMAIN routes = 1 .. l
      /\ \A h \in DOMAIN groups : groups[h] \in GroupSet
  BY GroupFacts DEF Later
<1>2. funcs = Handlers \o FlattenSeq(Dispatchers)
  BY DEF RouteInv, FuncsInv
<1>3. Handlers \in Seq(FuncNames) /\ DOMAIN Handlers = 1 .. l
      /\ \A r \in 1 .. l : Handlers[r] = HandlerFuncName(r)
  <2>1. \A r \in 1 .. l : HandlerFuncName(r) \in FuncNames
    BY <1>1 DEF HandlerFuncName, FuncNames
  <2> QED
    BY <1>1, <2>1 DEF Handlers
<1>4. \A h \in 1 .. n : DispatcherDefined(groups[h]) \in FuncNames
  <2> SUFFICES ASSUME NEW h \in 1 .. n PROVE DispatcherDefined(groups[h]) \in FuncNames
    OBVIOUS
  <2>1. groups[h].method \in HttpMethods /\ groups[h].path \in Paths
    BY <1>1 DEF GroupSet
  <2> QED
    BY <2>1 DEF DispatcherDefined, FuncNames
<1>5. Dispatching \subseteq 1 .. n
  BY <1>1 DEF Dispatching
<1>6. Picks(Dispatchers, names_, Dispatching, n, FuncNames)
  <2>1. names_ \in [1 .. n -> FuncNames]
    BY <1>4
  <2>2. \A h \in 1 .. n : Dispatchers[h] = IF h \in Dispatching THEN <<names_[h]>> ELSE <<>>
    BY <1>1 DEF Dispatchers
  <2>3. DOMAIN Dispatchers = 1 .. n /\ \A h \in 1 .. n : Dispatchers[h] \in Seq(FuncNames)
    <3>1. DOMAIN Dispatchers = 1 .. n
      BY <1>1 DEF Dispatchers
    <3>2. ASSUME NEW h \in 1 .. n PROVE Dispatchers[h] \in Seq(FuncNames)
      <4>1. names_[h] \in FuncNames
        BY <2>1
      <4>2. <<names_[h]>> \in Seq(FuncNames) /\ <<>> \in Seq(FuncNames)
        BY <4>1
      <4> QED
        BY <2>2, <4>2
    <3> QED
      BY <3>1, <3>2
  <2>4. Dispatchers \in [1 .. n -> Seq(FuncNames)]
    <3>1. Dispatchers = [h \in 1 .. n |-> Dispatchers[h]]
      BY <2>3 DEF Dispatchers
    <3> QED
      BY <2>3, <3>1
  <2> HIDE DEF names_
  <2> QED
    BY <1>1, <1>5, <2>1, <2>2, <2>4 DEF Picks
<1>7. /\ FlattenSeq(Dispatchers) \in Seq(FuncNames)
      /\ \A x : x \in Range(FlattenSeq(Dispatchers)) <=> \E h \in Dispatching : x = names_[h]
      /\ IsInjective(FlattenSeq(Dispatchers)) <=>
            \A g, h \in Dispatching : names_[g] = names_[h] => g = h
  <2> HIDE DEF names_, n
  <2> QED
    BY <1>6, Picked
<1>8. \A h \in Dispatching : names_[h] = DispatcherDefined(groups[h])
  BY <1>5
<1> HIDE DEF names_, n, l
<1>9. /\ Range(Handlers) = {HandlerFuncName(r) : r \in 1 .. l}
      /\ IsInjective(Handlers) <=> \A q, r \in 1 .. l : HandlerFuncName(q) = HandlerFuncName(r) => q = r
  BY <1>3 DEF Range, IsInjective
<1>10. Range(Handlers) \cap Range(FlattenSeq(Dispatchers)) = {}
  <2> SUFFICES ASSUME NEW r \in 1 .. l, NEW h \in Dispatching,
                      HandlerFuncName(r) = DispatcherDefined(groups[h])
               PROVE  FALSE
    BY <1>7, <1>8, <1>9
  <2>1. HandlerFuncName(r)[1] = "handle"
    BY DEF HandlerFuncName
  <2>2. DispatcherDefined(groups[h])[1] = "dispatch"
    BY DEF DispatcherDefined, DispatcherFuncName
  <2> QED
    BY <2>1, <2>2
<1>11. /\ funcs \in Seq(FuncNames)
       /\ Range(funcs) = Range(Handlers) \cup Range(FlattenSeq(Dispatchers))
       /\ IsInjective(funcs) <=> IsInjective(Handlers) /\ IsInjective(FlattenSeq(Dispatchers))
  <2>1. Apart(Handlers, FlattenSeq(Dispatchers), FuncNames)
    BY <1>3, <1>7, <1>10 DEF Apart
  <2> QED
    BY <1>2, <2>1, DisjointJoined
<1>12. \A f : (\E k \in DOMAIN funcs : funcs[k] = f) <=> f \in Range(funcs)
  BY DEF Range
<1>13. \A f : f \in Range(funcs) <=>
                \/ \E r \in DOMAIN routes : f = HandlerFuncName(r)
                \/ \E h \in Dispatching : f = DispatcherDefined(groups[h])
  BY <1>1, <1>7, <1>8, <1>9, <1>11
<1>14. IsInjective(funcs) <=>
                /\ \A q, r \in DOMAIN routes : HandlerFuncName(q) = HandlerFuncName(r) => q = r
                /\ \A g, h \in Dispatching :
                     DispatcherDefined(groups[g]) = DispatcherDefined(groups[h]) => g = h
  <2>1. IsInjective(Handlers) <=>
          \A q, r \in DOMAIN routes : HandlerFuncName(q) = HandlerFuncName(r) => q = r
    BY <1>1, <1>9
  <2>2. IsInjective(FlattenSeq(Dispatchers)) <=>
          \A g, h \in Dispatching :
            DispatcherDefined(groups[g]) = DispatcherDefined(groups[h]) => g = h
    BY <1>7, <1>8
  <2> QED
    BY <1>11, <2>1, <2>2, Zenon
<1> QED
  BY <1>12, <1>13, <1>14

\* A dispatcher hands a request to a route of its group, or to none.
LEMMA DispatchTo ==
    ASSUME NEW g, g.base \in Nat, g.verbs \in Seq(Nat), NEW path, NEW sent
    PROVE  Dispatch(g, path, sent) \in Members(g) \cup {0}
<1> DEFINE cases == {k \in DOMAIN g.verbs :
                       routes[g.verbs[k]].verb = PathValue(path, sent, DispatchedVar(g)).verb}
<1>1. CASE DispatchedVar(g) = <<>> \/ cases = {}
  <2>1. Dispatch(g, path, sent) = g.base
    BY <1>1 DEF Dispatch
  <2> QED
    BY <2>1 DEF Members
<1>2. CASE DispatchedVar(g) # <<>> /\ cases # {}
  <2> DEFINE first == CHOOSE k \in cases : \A h \in cases : k <= h
  <2>1. Dispatch(g, path, sent) = g.verbs[first]
    BY <1>2 DEF Dispatch
  <2>2. first \in cases
    <3>1. cases \subseteq Nat
      OBVIOUS
    <3>2. PICK k \in cases : \A h \in cases : ~(<<h, k>> \in OpToRel(<, Nat))
      BY <1>2, <3>1, NatLessThanWellFounded, WFMin, cases \in SUBSET Nat
    <3> HIDE DEF cases
    <3>3. k \in Nat /\ \A h \in cases : h \in Nat /\ ~(h < k)
      BY <3>1, <3>2 DEF OpToRel
    <3>4. \A h \in cases : k <= h
      BY <3>3
    <3> QED
      BY <3>4
  <2> QED
    BY <2>1, <2>2 DEF Members
<1> QED
  BY <1>1, <1>2

\* Whoever handles a request of a registered pair is a route, or nobody.
LEMMA HandlingBy ==
    ASSUME RouteInv, phase = "serving", NEW k \in DOMAIN mux, NEW sent
    PROVE  Handling(mux[k], sent) \in DOMAIN routes \cup {0}
<1> DEFINE dispatchers == {h \in DOMAIN groups :
                     groups[h].verbs # <<>> /\ DispatcherDefined(groups[h]) = mux[k].func}
<1>1. /\ DOMAIN routes = 1 .. Len(routes) /\ Grouped = Len(routes)
      /\ \A h \in DOMAIN groups : groups[h] \in GroupSet /\ GroupOf(groups[h])
  BY GroupFacts DEF Later
<1>2. CASE dispatchers # {}
  <2> DEFINE h == CHOOSE h \in dispatchers : TRUE
  <2>1. h \in dispatchers
    BY <1>2
  <2>2. Handling(mux[k], sent) = Dispatch(groups[h], mux[k].path, sent)
    BY <1>2 DEF Handling
  <2>3. groups[h] \in GroupSet /\ GroupOf(groups[h])
    BY <1>1, <2>1
  <2> HIDE DEF h
  <2>4. groups[h].base \in Nat /\ groups[h].verbs \in Seq(Nat)
    BY <2>3 DEF GroupSet
  <2>5. Handling(mux[k], sent) \in Members(groups[h]) \cup {0}
    BY <2>2, <2>4, DispatchTo
  <2> QED
    BY <1>1, <2>3, <2>5 DEF GroupOf
<1>3. CASE dispatchers = {}
  <2>1. PICK f \in DOMAIN funcs : funcs[f] = mux[k].func
    <3>1. mux[k] = pairs[k] /\ k \in DOMAIN pairs
      BY MuxFacts
    <3> QED
      BY <3>1 DEF RouteInv, FuncsInv
  <2>2. \E r \in DOMAIN routes : mux[k].func = HandlerFuncName(r)
    <3>1. \A h \in Dispatching : mux[k].func # DispatcherDefined(groups[h])
      BY <1>3 DEF Dispatching
    <3> QED
      BY <2>1, <3>1, FuncsAre
  <2>3. Handling(mux[k], sent) = CHOOSE r \in DOMAIN routes : HandlerFuncName(r) = mux[k].func
    BY <1>3 DEF Handling
  <2> QED
    BY <2>2, <2>3
<1> QED
  BY <1>2, <1>3

LEMMA ServeKeeps ==
    ASSUME RouteInv, Serve
    PROVE  RouteInv'
<1>1. /\ phase = "serving" /\ phase' = phase /\ i' = i /\ i \in Nat \ {0}
      /\ UNCHANGED <<phase, i, service, routes, names, groups, pairs, funcs, mux>>
  BY DEF Serve, RouteInv, PhaseInv
<1>2. PICK r \in DOMAIN routes :
        /\ request' = r
        /\ \/ served' = Nowhere
           \/ \E k \in BestMatches(ClientMethod(r), ClientPath(r)) :
                LET h == Handling(mux[k], ClientPath(r))
                IN h # 0 /\ served' = [route |-> h, values |-> ReadBy(h, mux[k].path, ClientPath(r))]
  BY Zenon DEF Serve
<1>3. RequestInv'
  <2>1. CASE served' = Nowhere
    BY <1>1, <1>2, <2>1 DEF RequestInv, Nowhere
  <2>2. CASE served' # Nowhere
    <3>1. PICK k \in BestMatches(ClientMethod(r), ClientPath(r)) :
             /\ Handling(mux[k], ClientPath(r)) # 0
             /\ served'.route = Handling(mux[k], ClientPath(r))
      BY <1>2, <2>2
    <3>2. k \in DOMAIN mux
      BY <3>1 DEF BestMatches, Candidates
    <3>3. served'.route \in DOMAIN routes
      BY <1>1, <3>1, <3>2, HandlingBy
    <3> QED
      BY <1>1, <1>2, <3>3 DEF RequestInv
  <2> QED
    BY <2>1, <2>2
<1>4. PhaseInv' /\ RoutesInv' /\ GroupsInv'
  BY <1>1, LaterKept DEF Later
<1>5. PairsInv' /\ MuxInv' /\ FuncsInv' /\ NamesInv'
  <2>1. Built' = Built /\ Registered' = Registered
    BY <1>1 DEF Built, Registered
  <2>2. NamesInv'
    BY <1>1 DEF RouteInv, NamesInv
  <2> QED
    BY <1>1, <2>1, <2>2, PairsKept, MuxKept, FuncsKept DEF RouteInv, Compiled
<1> QED
  BY <1>3, <1>4, <1>5 DEF RouteInv

LEMMA AnsweredKeeps ==
    ASSUME RouteInv, Answered
    PROVE  RouteInv'
<1>1. /\ phase = "serving" /\ phase' = phase /\ i' = i /\ i \in Nat \ {0}
      /\ UNCHANGED <<phase, i, service, routes, names, groups, pairs, funcs, mux>>
      /\ request' = 0 /\ served' = Nowhere
  BY DEF Answered, RouteInv, PhaseInv
<1>2. RequestInv'
  BY <1>1 DEF RequestInv, Nowhere
<1>4. PhaseInv' /\ RoutesInv' /\ GroupsInv'
  BY <1>1, LaterKept DEF Later
<1>5. PairsInv' /\ MuxInv' /\ FuncsInv' /\ NamesInv'
  <2>1. Built' = Built /\ Registered' = Registered
    BY <1>1 DEF Built, Registered
  <2>2. NamesInv'
    BY <1>1 DEF RouteInv, NamesInv
  <2> QED
    BY <1>1, <2>1, <2>2, PairsKept, MuxKept, FuncsKept DEF RouteInv, Compiled
<1> QED
  BY <1>2, <1>4, <1>5 DEF RouteInv

LEMMA UnchangedKeeps ==
    ASSUME RouteInv, UNCHANGED vars
    PROVE  RouteInv'
<1>1. UNCHANGED <<phase, i, service, routes, names, groups, pairs, funcs, mux, request, served>>
  BY DEF vars
<1>2. /\ Parsed' = Parsed /\ Grouped' = Grouped /\ Built' = Built /\ Registered' = Registered
      /\ Parsed \in Nat
  BY <1>1, ServiceFacts DEF Parsed, Grouped, Built, Registered, RouteInv, RoutesInv, PhaseInv
<1>3. PhaseInv' /\ RequestInv' /\ NamesInv'
  BY <1>1 DEF RouteInv, PhaseInv, RequestInv, NamesInv
<1> QED
  BY <1>1, <1>2, <1>3, RoutesKept, GroupsKept, PairsKept, FuncsKept, MuxKept DEF RouteInv

\* Each loop of the generator leaves what its input comes to: a route per usable
\* RPC, groups with distinct keys that hold every route, a pair per group, and so
\* on to the patterns registered so far.
THEOREM RouteInvariant == Spec => []RouteInv
<1>1. Init => RouteInv
  <2> SUFFICES ASSUME Init PROVE RouteInv
    OBVIOUS
  <2>1. /\ phase = "collect" /\ i = 1 /\ service \in Services
        /\ routes = <<>> /\ names = <<>> /\ groups = <<>> /\ pairs = <<>>
        /\ funcs = <<>> /\ mux = <<>> /\ request = 0 /\ served = Nowhere
    BY DEF Init
  <2>2. Grouped = 0 /\ Built = 0 /\ Registered = 0
    BY <2>1 DEF Grouped, Built, Registered
  <2>3. PhaseInv /\ RoutesInv /\ NamesInv
    BY <2>1 DEF PhaseInv, RoutesInv, NamesInv
  <2>4. GroupsInv /\ PairsInv /\ MuxInv
    BY <2>1, <2>2 DEF GroupsInv, PairsInv, MuxInv
  <2>5. FuncsInv /\ RequestInv
    BY <2>1 DEF FuncsInv, RequestInv, Nowhere
  <2> QED
    BY <2>3, <2>4, <2>5 DEF RouteInv
<1>2. RouteInv /\ [Next]_vars => RouteInv'
  BY CollectKeeps, NothingToGenerateKeeps, GroupKeeps, RemapKeeps, ConstructKeeps, DefineKeeps,
     CompileKeeps, RegisterKeeps, ServeKeeps, AnsweredKeeps, UnchangedKeeps DEF Next, Stopped
<1> QED
  BY <1>1, <1>2, PTL DEF Spec

\* Cursors are positive, and the indices that groups, requests and answers keep
\* are those of routes.
THEOREM RoutesAreTyped == Spec => []TypeOK
<1>1. RouteInv => TypeOK
  <2> SUFFICES ASSUME RouteInv PROVE TypeOK
    OBVIOUS
  <2>1. \A k \in DOMAIN groups : Members(groups[k]) \subseteq DOMAIN routes
    <3> SUFFICES ASSUME NEW k \in DOMAIN groups PROVE Members(groups[k]) \subseteq DOMAIN routes
      OBVIOUS
    <3>1. Members(groups[k]) \subseteq 1 .. Grouped /\ routes \in Seq(RouteSet)
      BY DEF RouteInv, GroupsInv, GroupOf, RoutesInv
    <3>2. 1 .. Grouped \subseteq 1 .. Len(routes)
      BY <3>1 DEF Grouped, RouteInv, PhaseInv
    <3> QED
      BY <3>1, <3>2
  <2> QED
    BY <2>1 DEF TypeOK, RouteInv, PhaseInv, NamesInv, RequestInv
<1> QED
  BY <1>1, RouteInvariant, PTL

-----------------------------------------------------------------------------
\* Registration and compilation.

\* A group's path is one that an RPC of its method is annotated with.
LEMMA GroupPath ==
    ASSUME RouteInv, phase \in Later, NEW h \in DOMAIN groups
    PROVE  /\ \E k \in DOMAIN service :
                 /\ Usable(service[k]) /\ service[k].http = groups[h].method
                 /\ PathAt(k) = groups[h].path
           /\ groups[h].key = <<groups[h].method, Normalize(groups[h].path)>>
<1> DEFINE r == NameOwner(groups[h])
<1>1. /\ GroupOf(groups[h]) /\ Grouped = Len(routes) /\ DOMAIN routes = 1 .. Len(routes)
  BY GroupFacts
<1>2. /\ r \in DOMAIN routes /\ Key(routes[r]) = groups[h].key /\ groups[h].method = groups[h].key[1]
      /\ groups[h].path = routes[r].path
  BY <1>1 DEF GroupOf
<1> HIDE DEF r
<1>3. PICK k \in DOMAIN service : Usable(service[k]) /\ routes[r] = Route(service[k])
  BY <1>2 DEF RouteInv, RoutesInv
<1>4. groups[h].key = <<routes[r].method, Normalize(routes[r].path)>>
  BY <1>2 DEF Key
<1>5. groups[h].method = routes[r].method
  BY <1>2, <1>4
<1>6. service[k].http = groups[h].method /\ PathAt(k) = groups[h].path
  BY <1>2, <1>3, <1>5, RouteFields DEF PathAt
<1> QED
  BY <1>2, <1>3, <1>4, <1>5, <1>6

\* A group whose streaming RPCs are annotated POST is registered for its method.
LEMMA GroupMethod ==
    ASSUME RouteInv, phase \in Later, StreamsArePosted, NEW h \in DOMAIN groups
    PROVE  RegisteredMethod(groups[h]) = groups[h].method
<1> SUFFICES ASSUME NEW r \in Members(groups[h]), routes[r].streaming
             PROVE  groups[h].method = "POST"
  BY DEF RegisteredMethod
<1>1. /\ GroupOf(groups[h]) /\ Grouped = Len(routes) /\ DOMAIN routes = 1 .. Len(routes)
  BY GroupFacts
<1>2. r \in DOMAIN routes /\ Key(routes[r]) = groups[h].key /\ groups[h].method = groups[h].key[1]
  BY <1>1 DEF GroupOf
<1>3. PICK k \in DOMAIN service : Usable(service[k]) /\ routes[r] = Route(service[k])
  BY <1>2 DEF RouteInv, RoutesInv
<1>4. service[k].serverStream /\ routes[r].method = service[k].http
  BY <1>3, RouteFields
<1>5. routes[r].method = "POST"
  BY <1>3, <1>4 DEF StreamsArePosted
<1>6. Key(routes[r])[1] = routes[r].method
  BY DEF Key
<1> QED
  BY <1>2, <1>5, <1>6

\* No pattern is refused by the ServeMux.
LEMMA NoneRefused ==
    ASSUME RouteInv, StreamsArePosted, PathsAreAccepted, Register
    PROVE  phase' # "muxPanic"
<1>1. phase = "register" /\ phase \in Later /\ i \in Nat \ {0} /\ i <= Len(pairs)
  BY DEF Register, RouteInv, PhaseInv, Later
<1>2. /\ pairs \in Seq(PairSet) /\ Len(pairs) <= Len(groups)
      /\ \A k \in DOMAIN pairs : pairs[k] = PairOf(groups[k])
      /\ mux \in Seq(PairSet) /\ Len(mux) = i - 1 /\ \A k \in DOMAIN mux : mux[k] = pairs[k]
  BY <1>1 DEF RouteInv, PairsInv, MuxInv, Registered
<1>3. DOMAIN groups = 1 .. Len(groups) /\ Len(groups) \in Nat
  BY <1>1, GroupFacts
<1>4. /\ i \in DOMAIN pairs /\ i \in DOMAIN groups
      /\ \A k \in DOMAIN mux : k \in DOMAIN pairs /\ k \in DOMAIN groups /\ k # i
  BY <1>1, <1>2, <1>3
<1>5. PICK q \in DOMAIN service : /\ Usable(service[q]) /\ service[q].http = groups[i].method
                                  /\ PathAt(q) = groups[i].path
  BY <1>1, <1>4, GroupPath
<1>6. pairs[i].path = groups[i].path /\ pairs[i].method = groups[i].method
  BY <1>1, <1>2, <1>4, GroupMethod DEF PairOf
<1>7. ~Malformed(pairs[i].path)
  BY <1>5, <1>6 DEF PathsAreAccepted
<1>8. ASSUME NEW k \in DOMAIN mux, mux[k].method = pairs[i].method
      PROVE  ~Conflicts(mux[k].path, pairs[i].path)
  <2>1. mux[k].path = groups[k].path /\ mux[k].method = groups[k].method
    BY <1>1, <1>2, <1>4, GroupMethod DEF PairOf
  <2>2. PICK p \in DOMAIN service : /\ Usable(service[p]) /\ service[p].http = groups[k].method
                                    /\ PathAt(p) = groups[k].path
    BY <1>1, <1>4, GroupPath
  <2>3. groups[k].key # groups[i].key
    BY <1>4 DEF RouteInv, GroupsInv
  <2>4. Normalize(groups[k].path) # Normalize(groups[i].path)
    BY <1>1, <1>4, <1>6, <1>8, <2>1, <2>3, GroupPath
  <2> QED
    BY <1>5, <1>6, <1>8, <2>1, <2>2, <2>4 DEF PathsAreAccepted
<1> QED
  BY <1>1, <1>7, <1>8 DEF Register, Loop

\* What a service may be does not change.
LEMMA SameService ==
    ASSUME [Next]_vars
    PROVE  service' = service
BY DEF Next, vars, Collect, NothingToGenerate, Group, Remap, Construct, Define, Compile, Register,
       Serve, Answered, Stopped

LEMMA OnlyThere ==
    ASSUME [Next]_vars
    PROVE  /\ phase' = "muxPanic" => phase = "muxPanic" \/ Register
           /\ phase' = "compileError" => phase = "compileError" \/ Compile
BY DEF Next, vars, Collect, NothingToGenerate, Group, Remap, Construct, Define, Compile, Register,
       Serve, Answered, Stopped, Loop

\* The patterns of a service can all be registered: grouping leaves no two of one
\* method and shape, if streaming RPCs are annotated POST and no two annotations
\* of different shapes overlap.
THEOREM RoutesRegister ==
    Spec => [](StreamsArePosted /\ PathsAreAccepted => RegistrationSucceeds)
<1> DEFINE Ordinary == StreamsArePosted /\ PathsAreAccepted
           Fine == Ordinary => phase # "muxPanic"
<1>1. Init => Fine
  BY DEF Init
<1>2. RouteInv /\ Fine /\ [Next]_vars => Fine'
  <2> SUFFICES ASSUME RouteInv, Fine, [Next]_vars PROVE Fine'
    OBVIOUS
  <2>1. Ordinary' <=> Ordinary
    BY SameService DEF StreamsArePosted, PathsAreAccepted, PathAt
  <2>2. Ordinary /\ phase' = "muxPanic" => FALSE
    BY OnlyThere, NoneRefused
  <2> QED
    BY <2>1, <2>2
<1>3. Fine => (Ordinary => RegistrationSucceeds)
  BY DEF RegistrationSucceeds
<1> HIDE DEF Fine
<1> QED
  BY <1>1, <1>2, <1>3, RouteInvariant, PTL DEF Spec

\* Every function the file names is defined once.
LEMMA NoneMissing ==
    ASSUME RouteInv, StreamsArePosted, TextsDiffer, Compile
    PROVE  phase' # "compileError"
<1>1. phase = "compile" /\ phase \in Later
  BY DEF Compile, Later
<1>2. /\ pairs \in Seq(PairSet) /\ Len(pairs) = Len(groups)
      /\ \A k \in DOMAIN pairs : pairs[k] = PairOf(groups[k])
  BY <1>1 DEF RouteInv, PairsInv, Built
<1>3. /\ DOMAIN groups = 1 .. Len(groups) /\ Len(groups) \in Nat
      /\ Grouped = Len(routes) /\ DOMAIN routes = 1 .. Len(routes)
      /\ \A h \in DOMAIN groups : GroupOf(groups[h])
  BY <1>1, GroupFacts
<1>4. IsInjective(funcs)
  <2>1. ASSUME NEW q \in DOMAIN routes, NEW r \in DOMAIN routes,
               HandlerFuncName(q) = HandlerFuncName(r)
        PROVE  q = r
    <3>1. routes[q].rpc = routes[r].rpc
      BY <2>1 DEF HandlerFuncName
    <3> QED
      BY <3>1 DEF RouteInv, RoutesInv
  <2>2. ASSUME NEW g \in Dispatching, NEW h \in Dispatching,
               DispatcherDefined(groups[g]) = DispatcherDefined(groups[h])
        PROVE  g = h
    <3>1. g \in DOMAIN groups /\ h \in DOMAIN groups
      BY DEF Dispatching
    <3>2. groups[g].method = groups[h].method /\ Texts(groups[g].path) = Texts(groups[h].path)
      <4>1. <<"dispatch", groups[g].method, Texts(groups[g].path)>>
              = <<"dispatch", groups[h].method, Texts(groups[h].path)>>
        BY <2>2 DEF DispatcherDefined, DispatcherFuncName, Texts
      <4> QED
        BY <4>1
    <3>3. Normalize(groups[g].path) = Normalize(groups[h].path)
      <4>1. PICK j \in DOMAIN service : /\ Usable(service[j]) /\ service[j].http = groups[g].method
                                        /\ PathAt(j) = groups[g].path
        BY <1>1, <3>1, GroupPath
      <4>2. PICK k \in DOMAIN service : /\ Usable(service[k]) /\ service[k].http = groups[h].method
                                        /\ PathAt(k) = groups[h].path
        BY <1>1, <3>1, GroupPath
      <4> QED
        BY <3>2, <4>1, <4>2 DEF TextsDiffer
    <3>4. groups[g].key = groups[h].key
      BY <1>1, <3>1, <3>2, <3>3, GroupPath
    <3> QED
      BY <3>1, <3>4 DEF RouteInv, GroupsInv
  <2> QED
    BY <1>1, <2>1, <2>2, FuncsAre
<1>5. ASSUME NEW k \in DOMAIN pairs PROVE \E h \in DOMAIN funcs : funcs[h] = pairs[k].func
  <2>1. k \in DOMAIN groups /\ pairs[k] = PairOf(groups[k])
    BY <1>2, <1>3
  <2>2. CASE groups[k].verbs = <<>>
    <3>1. groups[k].base \in DOMAIN routes
      <4>1. NameOwner(groups[k]) \in Members(groups[k]) /\ Members(groups[k]) \subseteq DOMAIN routes
        BY <1>3, <2>1, Zenon DEF GroupOf
      <4>2. DOMAIN groups[k].verbs = {}
        BY <2>2
      <4>3. groups[k].base \in Members(groups[k])
        BY <4>1, <4>2 DEF Members
      <4> QED
        BY <4>1, <4>3
    <3>2. pairs[k].func = HandlerFuncName(groups[k].base)
      BY <2>1, <2>2 DEF PairOf
    <3> QED
      BY <1>1, <3>1, <3>2, FuncsAre
  <2>3. CASE groups[k].verbs # <<>>
    <3>1. pairs[k].func = DispatcherDefined(groups[k])
      BY <1>1, <2>1, <2>3, GroupMethod DEF PairOf, DispatcherDefined
    <3>2. k \in Dispatching
      BY <2>1, <2>3 DEF Dispatching
    <3> QED
      BY <1>1, <3>1, <3>2, FuncsAre
  <2> QED
    BY <2>2, <2>3
<1>6. \A k \in DOMAIN funcs : {h \in DOMAIN funcs : funcs[h] = funcs[k]} = {k}
  BY <1>4 DEF IsInjective
<1>7. \A k \in DOMAIN pairs : {h \in DOMAIN funcs : funcs[h] = pairs[k].func} # {}
  BY <1>5
<1> QED
  BY <1>6, <1>7, Zenon DEF Compile

\* The generated file compiles, as far as functions go: each one named by the
\* constructor is defined, and none twice, if streaming RPCs are annotated POST and
\* paths of different shapes differ in their texts.
THEOREM FunctionsResolve ==
    Spec => [](StreamsArePosted /\ TextsDiffer => ReferencesResolve)
<1> DEFINE Ordinary == StreamsArePosted /\ TextsDiffer
           Fine == Ordinary => phase # "compileError"
<1>1. Init => Fine
  BY DEF Init
<1>2. RouteInv /\ Fine /\ [Next]_vars => Fine'
  <2> SUFFICES ASSUME RouteInv, Fine, [Next]_vars PROVE Fine'
    OBVIOUS
  <2>1. Ordinary' <=> Ordinary
    BY SameService DEF StreamsArePosted, TextsDiffer, PathAt
  <2>2. Ordinary /\ phase' = "compileError" => FALSE
    BY OnlyThere, NoneMissing
  <2> QED
    BY <2>1, <2>2
<1>3. Fine => (Ordinary => ReferencesResolve)
  BY DEF ReferencesResolve
<1> HIDE DEF Fine
<1> QED
  BY <1>1, <1>2, <1>3, RouteInvariant, PTL DEF Spec

-----------------------------------------------------------------------------
(***************************************************************************)
(* Requests.  The n-th wildcard of a path carries the name of the n-th     *)
(* path variable, before the remapping in the route's own path and after   *)
(* it in its group's; the client's path has a segment for each; and of the *)
(* patterns that match it, the one of the route's group is the most        *)
(* specific.                                                               *)
(***************************************************************************)

\* A cut verb follows a wildcard of the path: behind an expanded variable that
\* ends in a literal the ServeMux compares it.
VerbsBehindWildcards ==
    \A k \in DOMAIN service :
        Usable(service[k]) /\ VerbIsCut(service[k].tmpl) /\ service[k].verb # ""
        => PathAt(k)[Len(PathAt(k))].kind # "lit"

VerbAt(k) == IF VerbIsCut(service[k].tmpl) THEN service[k].verb ELSE ""

\* No two RPCs share method, shape of the path and verb.
RoutesDiffer ==
    \A j, k \in DOMAIN service :
        /\ Usable(service[j]) /\ Usable(service[k]) /\ service[j].http = service[k].http
        /\ Normalize(PathAt(j)) = Normalize(PathAt(k)) /\ VerbAt(j) = VerbAt(k)
        => j = k

\* A path of n segments may match.
HasLength(path, n) ==
    IF path[Len(path)].kind = "rest" THEN n >= Len(path) ELSE n = Len(path)

\* No RPC with a more specific path takes what a client puts into a rest-of-path
\* wildcard, a value and the literals behind it.
RestIsFree ==
    \A j, k \in DOMAIN service :
        /\ Usable(service[j]) /\ Usable(service[k]) /\ service[j].http = service[k].http
        /\ PathAt(k)[Len(PathAt(k))].kind = "rest" /\ MoreSpecific(PathAt(j), PathAt(k))
        => ~HasLength(PathAt(j), Len(PathAt(k)) + Len(PathAt(k)[Len(PathAt(k))].hidden))

-----------------------------------------------------------------------------
\* What is so in every state.

Remapped == IF phase \in {"collect", "generatorPanic", "nothing", "group"} THEN 0
            ELSE IF phase = "remap" THEN i - 1 ELSE Len(groups)
AlignedInv ==
    /\ Remapped <= Len(groups)
    /\ \A r \in DOMAIN routes :
         (\A h \in 1 .. Remapped : r \notin Members(groups[h])) => Aligned(routes[r].path, names[r])
    /\ \A h \in 1 .. Remapped : \A r \in Members(groups[h]) : Aligned(groups[h].path, names[r])

\* The file compiled, so no function is defined twice.
CompiledInv == phase \in Compiled => IsInjective(funcs)

\* What the ServeMux has accepted.
Accepted ==
    /\ \A k \in DOMAIN mux : ~Malformed(mux[k].path)
    /\ \A j, k \in DOMAIN mux :
         j < k /\ mux[j].method = mux[k].method => ~Conflicts(mux[j].path, mux[k].path)
ReachInv == RouteInv /\ AlignedInv /\ CompiledInv /\ Accepted

-----------------------------------------------------------------------------
\* The names of the path variables, route by route.

\* A route is that of an RPC.
LEMMA RouteOf ==
    ASSUME RouteInv, NEW r \in DOMAIN routes
    PROVE  \E k \in DOMAIN service :
             /\ Usable(service[k]) /\ Annotated(service[k]) /\ routes[r] = Route(service[k])
             /\ routes[r].path = PathAt(k) /\ routes[r].verb = VerbAt(k)
             /\ routes[r].method = service[k].http /\ routes[r].rpc = service[k].rpc
             /\ routes[r].streaming = service[k].serverStream
             /\ PathAt(k) \in Seq(SegSet) /\ PathAt(k) # <<>>
             /\ Aligned(PathAt(k), VarNamesOf(service[k].tmpl))
<1>1. service \in Services
  BY DEF RouteInv, RoutesInv
<1>2. PICK k \in DOMAIN service : Usable(service[k]) /\ routes[r] = Route(service[k])
  BY DEF RouteInv, RoutesInv
<1>3. Annotated(service[k])
  BY <1>1, ServiceFacts, MethodsAssumption
<1>4. /\ PathAt(k) \in Seq(SegSet) /\ PathAt(k) # <<>>
      /\ Aligned(PathAt(k), VarNamesOf(service[k].tmpl))
  BY <1>3, MuxPathAligned DEF PathAt
<1>5. /\ routes[r].path = PathAt(k) /\ routes[r].verb = VerbAt(k)
      /\ routes[r].method = service[k].http /\ routes[r].rpc = service[k].rpc
      /\ routes[r].streaming = service[k].serverStream
  <2>1. \A m : Route(m).verb = IF VerbIsCut(m.tmpl) THEN m.verb ELSE ""
    BY DEF Route
  <2> QED
    BY <1>2, <2>1, RouteFields DEF PathAt, VerbAt
<1> QED
  BY <1>2, <1>3, <1>4, <1>5

LEMMA RoutePath ==
    ASSUME RouteInv, NEW r \in DOMAIN routes
    PROVE  routes[r].path \in Seq(SegSet) /\ routes[r].path # <<>>
BY RouteOf

LEMMA CollectAligns ==
    ASSUME RouteInv, AlignedInv, Collect
    PROVE  AlignedInv'
<1> DEFINE m == service[i]
<1>1. /\ phase = "collect" /\ i \in DOMAIN service /\ m \in Methods
      /\ Remapped = 0 /\ 1 .. Remapped = {}
  BY ServiceFacts DEF RouteInv, PhaseInv, RoutesInv, Collect, Remapped
<1>2. groups = <<>> /\ groups' = <<>>
  BY <1>1, NothingYet DEF Grouped, Collect
<1>3. Remapped' = 0 /\ 1 .. Remapped' = {} /\ Remapped' <= Len(groups')
  <2>1. phase' \in {"collect", "group", "generatorPanic"}
    BY <1>1 DEF Collect, Loop
  <2>2. Remapped' = 0
    BY <2>1 DEF Remapped
  <2> QED
    BY <1>2, <2>2
<1>4. \A r \in DOMAIN routes : Aligned(routes[r].path, names[r])
  BY <1>1, Zenon DEF AlignedInv
<1>5. ASSUME UNCHANGED <<routes, names>>
      PROVE  \A r \in DOMAIN routes' : Aligned(routes'[r].path, names'[r])
  BY <1>4, <1>5
<1>6. ASSUME routes' = Append(routes, Route(m)), names' = Append(names, VarNamesOf(m.tmpl))
      PROVE  \A r \in DOMAIN routes' : Aligned(routes'[r].path, names'[r])
  <2>1. /\ routes \in Seq(RouteSet) /\ names \in Seq(NameLists) /\ Len(names) = Len(routes)
        /\ Len(routes) \in Nat
    <3>1. routes \in Seq(RouteSet) /\ names \in Seq(NameLists) /\ DOMAIN names = DOMAIN routes
      BY <1>1 DEF RouteInv, RoutesInv, NamesInv
    <3> QED
      BY <3>1
  <2>2. Route(m) \in RouteSet /\ VarNamesOf(m.tmpl) \in NameLists
    BY <1>1 DEF RouteSet, NameLists
  <2> DEFINE n == Len(routes)
  <2> HIDE DEF m
  <2>3. /\ DOMAIN routes' = 1 .. n + 1 /\ DOMAIN routes = 1 .. n
        /\ routes'[n + 1] = Route(m) /\ \A r \in 1 .. n : routes'[r] = routes[r]
    BY <1>6, <2>1, <2>2
  <2>4. names'[n + 1] = VarNamesOf(m.tmpl) /\ \A r \in 1 .. n : names'[r] = names[r]
    BY <1>6, <2>1, <2>2
  <2>5. Aligned(Route(m).path, VarNamesOf(m.tmpl))
    <3>1. Annotated(m)
      BY <1>1, MethodsAssumption
    <3> QED
      BY <3>1, MuxPathAligned, RouteFields
  <2>6. \A r \in 1 .. n + 1 : r \in 1 .. n \/ r = n + 1
    BY <2>1
  <2> HIDE DEF n
  <2> QED
    BY <1>4, <2>3, <2>4, <2>5, <2>6
<1>7. \A r \in DOMAIN routes' : Aligned(routes'[r].path, names'[r])
  <2>1. \/ UNCHANGED <<routes, names>>
        \/ routes' = Append(routes, Route(m)) /\ names' = Append(names, VarNamesOf(m.tmpl))
    BY DEF Collect
  <2> QED
    BY <1>5, <1>6, <2>1
<1> QED
  BY <1>3, <1>7 DEF AlignedInv, Aligned, Named, Well, Wildcards

\* A step that leaves the names and what they are compared with alone.
LEMMA NamesKept ==
    ASSUME AlignedInv, UNCHANGED <<routes, names>>, Remapped' <= Len(groups'),
           \/ Remapped' = 0 /\ Remapped = 0
           \/ Remapped' = Remapped /\ UNCHANGED groups
    PROVE  AlignedInv'
<1>1. CASE Remapped' = 0 /\ Remapped = 0
  <2>1. 1 .. Remapped = {} /\ 1 .. Remapped' = {}
    BY <1>1
  <2>2. \A r \in DOMAIN routes : Aligned(routes[r].path, names[r])
    BY <2>1, Zenon DEF AlignedInv
  <2>3. \A r \in DOMAIN routes' : Aligned(routes'[r].path, names'[r])
    BY <2>2
  <2> QED
    BY <2>1, <2>3 DEF AlignedInv, Aligned, Named, Well, Wildcards
<1>2. CASE Remapped' = Remapped /\ UNCHANGED groups
  <2>1. \A r \in DOMAIN routes' :
          (\A h \in 1 .. Remapped' : r \notin Members(groups'[h])) => Aligned(routes'[r].path, names'[r])
    BY <1>2 DEF AlignedInv
  <2>2. \A h \in 1 .. Remapped' : \A r \in Members(groups'[h]) : Aligned(groups'[h].path, names'[r])
    BY <1>2 DEF AlignedInv
  <2> QED
    BY <2>1, <2>2 DEF AlignedInv, Aligned, Named, Well, Wildcards, Members
<1> QED
  BY <1>1, <1>2

\* No route is in two groups.
LEMMA InOneGroup ==
    ASSUME RouteInv, phase \in Later, NEW g \in DOMAIN groups, NEW h \in DOMAIN groups,
           NEW r, r \in Members(groups[g]), r \in Members(groups[h])
    PROVE  g = h
<1>1. GroupOf(groups[g]) /\ GroupOf(groups[h])
  BY GroupFacts
<1>2. groups[g].key = groups[h].key
  BY <1>1 DEF GroupOf
<1> QED
  BY <1>2 DEF RouteInv, GroupsInv

\* The names of the group's path, one for each of a route's own.
LEMMA RenamedIs ==
    ASSUME NEW p \in Seq(SegSet), NEW q \in Seq(SegSet), Normalize(p) = Normalize(q),
           NEW own, NEW canon, Aligned(p, own), Aligned(q, canon)
    PROVE  Aligned(q, Renamed(own, canon))
<1>1. own \in Seq(VarTexts) /\ canon \in Seq(VarTexts)
  BY DEF Aligned
<1>2. Renamed(own, canon) \in Seq(VarTexts)
  BY <1>1 DEF Renamed
<1>3. ASSUME Well(q) PROVE Renamed(own, canon) = canon
  <2>1. Well(p) /\ Wildcards(p) = Wildcards(q)
    BY <1>3, SameShape
  <2>2. Len(own) = Len(canon)
    BY <1>3, <2>1 DEF Aligned, Named
  <2> QED
    BY <1>1, <2>2 DEF Renamed
<1> QED
  BY <1>2, <1>3, Zenon DEF Aligned

LEMMA RemapAligns ==
    ASSUME RouteInv, AlignedInv, Remap
    PROVE  AlignedInv'
<1> DEFINE g == groups[i]
           canon == names[NameOwner(g)]
           verbs == {g.verbs[k] : k \in DOMAIN g.verbs}
<1>1. /\ phase = "remap" /\ phase \in Later /\ i \in Nat \ {0} /\ i <= Len(groups)
      /\ UNCHANGED <<service, routes, groups>>
      /\ names' = [r \in DOMAIN names |-> IF r \in verbs THEN Renamed(names[r], canon) ELSE names[r]]
      /\ Loop(Len(groups), "construct")
  BY DEF Remap, RouteInv, PhaseInv, Later
<1>2. /\ Len(groups) \in Nat /\ DOMAIN groups = 1 .. Len(groups) /\ i \in DOMAIN groups
      /\ \A h \in DOMAIN groups : GroupOf(groups[h])
      /\ Grouped = Len(routes) /\ DOMAIN routes = 1 .. Len(routes)
      /\ DOMAIN names = DOMAIN routes
  BY <1>1, GroupFacts DEF RouteInv, NamesInv
<1>3. Remapped = i - 1 /\ Remapped' = i
  <2>1. \/ phase' = phase /\ i' = i + 1 /\ i < Len(groups)
        \/ phase' = "construct" /\ i' = 1 /\ i = Len(groups)
    <3>1. i \in Nat \ {0} /\ i <= Len(groups) /\ Loop(Len(groups), "construct")
      BY <1>1
    <3> QED
      BY <1>2, <3>1, Looped
  <2> QED
    BY <1>1, <2>1 DEF Remapped
<1>4. /\ \A h \in 1 .. i : h \in DOMAIN groups /\ (h \in 1 .. i - 1 \/ h = i)
      /\ \A h \in 1 .. i - 1 : h \in 1 .. i /\ h # i
  BY <1>1, <1>2
<1>5. verbs \subseteq Members(g) /\ NameOwner(g) \in Members(g) /\ Members(g) \subseteq DOMAIN routes
  <2>1. GroupOf(g)
    BY <1>2
  <2> QED
    BY <1>2, <2>1 DEF GroupOf, Members
<1>6. ASSUME NEW r \in DOMAIN routes, \A h \in 1 .. i - 1 : r \notin Members(groups[h])
      PROVE  Aligned(routes[r].path, names[r])
  BY <1>3, <1>6, Zenon DEF AlignedInv
<1>7. ASSUME NEW r \in Members(g)
      PROVE  /\ \A h \in 1 .. i - 1 : r \notin Members(groups[h])
             /\ Aligned(routes[r].path, names[r])
             /\ Normalize(routes[r].path) = Normalize(g.path)
  <2>1. \A h \in 1 .. i - 1 : r \notin Members(groups[h])
    BY <1>1, <1>2, <1>4, InOneGroup
  <2>2. r \in DOMAIN routes
    BY <1>5
  <2>3. Key(routes[r]) = g.key /\ Key(routes[NameOwner(g)]) = g.key /\ g.path = routes[NameOwner(g)].path
    BY <1>2 DEF GroupOf
  <2>4. Normalize(routes[r].path) = Normalize(g.path)
    BY <2>3 DEF Key
  <2> QED
    BY <1>6, <2>1, <2>2, <2>4
<1>8. Aligned(g.path, canon)
  <2>1. g.path = routes[NameOwner(g)].path
    BY <1>2 DEF GroupOf
  <2> QED
    BY <1>5, <1>7, <2>1
<1>9. ASSUME NEW r \in Members(g) PROVE Aligned(g.path, names'[r])
  <2>1. r \in DOMAIN names
    BY <1>2, <1>5
  <2>2. CASE r \in verbs
    <3>1. names'[r] = Renamed(names[r], canon)
      BY <1>1, <2>1, <2>2
    <3>2. routes[r].path \in Seq(SegSet) /\ g.path \in Seq(SegSet)
      <4>1. r \in DOMAIN routes /\ NameOwner(g) \in DOMAIN routes
        BY <1>5
      <4>2. g.path = routes[NameOwner(g)].path
        BY <1>2 DEF GroupOf
      <4> QED
        BY <4>1, <4>2, RoutePath
    <3>3. Aligned(routes[r].path, names[r]) /\ Normalize(routes[r].path) = Normalize(g.path)
      BY <1>7
    <3> HIDE DEF g, canon
    <3>4. Aligned(g.path, Renamed(names[r], canon))
      BY <1>8, <3>2, <3>3, RenamedIs
    <3> QED
      BY <3>1, <3>4
  <2>3. CASE r \notin verbs
    <3>1. r = NameOwner(g)
      BY <2>3 DEF Members, NameOwner
    <3>2. names'[r] = canon
      BY <1>1, <2>1, <2>3, <3>1
    <3> QED
      BY <1>8, <3>2
  <2> QED
    BY <2>2, <2>3
<1>10. ASSUME NEW r \in DOMAIN routes, r \notin Members(g) PROVE names'[r] = names[r]
  BY <1>1, <1>2, <1>5, <1>10
<1>11. ASSUME NEW r \in DOMAIN routes, \A h \in 1 .. i : r \notin Members(groups[h])
       PROVE  Aligned(routes[r].path, names'[r])
  <2>1. i \in 1 .. i
    BY <1>1
  <2>2. r \notin Members(g)
    BY <1>11, <2>1
  <2> QED
    BY <1>4, <1>6, <1>10, <1>11, <2>2
<1>12. ASSUME NEW h \in 1 .. i, NEW r \in Members(groups[h])
       PROVE  Aligned(groups[h].path, names'[r])
  <2>1. CASE h = i
    BY <1>9, <2>1
  <2>2. CASE h \in 1 .. i - 1
    <3>1. r \notin Members(g)
      BY <1>7, <2>2
    <3>2. r \in DOMAIN routes
      <4>1. h \in DOMAIN groups
        BY <1>4
      <4> QED
        BY <1>2, <4>1 DEF GroupOf
    <3>3. Aligned(groups[h].path, names[r])
      BY <1>3, <2>2 DEF AlignedInv
    <3> QED
      BY <1>10, <3>1, <3>2, <3>3
  <2> QED
    BY <1>4, <2>1, <2>2
<1>13. Remapped' <= Len(groups') /\ routes' = routes /\ groups' = groups
  BY <1>1, <1>3
<1> HIDE DEF g, canon, verbs
<1>14. \A r \in DOMAIN routes' :
          (\A h \in 1 .. Remapped' : r \notin Members(groups'[h])) => Aligned(routes'[r].path, names'[r])
  BY <1>3, <1>11, <1>13, Zenon
<1>15. \A h \in 1 .. Remapped' : \A r \in Members(groups'[h]) : Aligned(groups'[h].path, names'[r])
  BY <1>3, <1>12, <1>13, Zenon
<1> QED
  BY <1>13, <1>14, <1>15 DEF AlignedInv, Aligned, Named, Well, Wildcards, Members

LEMMA OthersAlign ==
    ASSUME RouteInv, AlignedInv, [Next]_vars, ~Collect, ~Remap
    PROVE  AlignedInv'
<1>0. RouteInv'
  BY CollectKeeps, NothingToGenerateKeeps, GroupKeeps, RemapKeeps, ConstructKeeps, DefineKeeps,
     CompileKeeps, RegisterKeeps, ServeKeeps, AnsweredKeeps, UnchangedKeeps DEF Next, Stopped
<1>1. Remapped <= Len(groups)
  BY DEF AlignedInv
<1>2. CASE NothingToGenerate
  <2>1. Remapped = 0 /\ Remapped' = 0 /\ UNCHANGED <<routes, names, groups>>
    BY <1>2 DEF NothingToGenerate, Remapped
  <2> QED
    BY <1>1, <2>1, NamesKept
<1>3. CASE Group
  <2>1. phase = "group" /\ UNCHANGED <<routes, names>>
    BY <1>3 DEF Group
  <2>2. phase' = "group" \/ (phase' = "remap" /\ i' = 1)
    BY <1>3, <2>1 DEF Group, Loop
  <2>3. Remapped = 0 /\ Remapped' = 0
    BY <2>1, <2>2 DEF Remapped
  <2>4. Len(groups') \in Nat
    <3>1. groups' \in Seq(GroupSet)'
      BY <1>0 DEF RouteInv, GroupsInv
    <3> QED
      BY <3>1
  <2> QED
    BY <2>1, <2>3, <2>4, NamesKept
<1>4. CASE Construct \/ Define \/ Compile \/ Register \/ Serve \/ Answered
  <2>1. UNCHANGED <<routes, names, groups>>
    BY <1>4 DEF Construct, Define, Compile, Register, Serve, Answered
  <2>2. /\ phase \in Later /\ phase # "remap" /\ phase' \in Later /\ phase' # "remap"
    BY <1>4 DEF Construct, Define, Compile, Register, Serve, Answered, Loop, Later
  <2>3. Remapped = Len(groups) /\ Remapped' = Len(groups')
    BY <2>2 DEF Remapped, Later
  <2>4. Remapped' <= Len(groups') /\ Remapped' = Remapped
    BY <1>1, <2>1, <2>3
  <2> QED
    BY <2>1, <2>4, NamesKept
<1>5. CASE UNCHANGED vars
  <2>1. UNCHANGED <<routes, names, groups>> /\ Remapped' = Remapped
    BY <1>5 DEF vars, Remapped
  <2> QED
    BY <1>1, <2>1, NamesKept
<1> QED
  BY <1>2, <1>3, <1>4, <1>5, Zenon DEF Next, Stopped

\* A file that compiles defines no function twice.
LEMMA CompiledOnce ==
    ASSUME CompiledInv, [Next]_vars
    PROVE  CompiledInv'
<1>1. CASE Compile
  <2>1. UNCHANGED funcs
    BY <1>1 DEF Compile
  <2>2. phase' \in Compiled => \A k \in DOMAIN funcs : {h \in DOMAIN funcs : funcs[h] = funcs[k]} = {k}
    BY <1>1 DEF Compile, Compiled
  <2>3. phase' \in Compiled => IsInjective(funcs)
    <3> SUFFICES ASSUME phase' \in Compiled, NEW h \in DOMAIN funcs, NEW k \in DOMAIN funcs,
                        funcs[h] = funcs[k]
                 PROVE  h = k
      BY DEF IsInjective
    <3>1. {x \in DOMAIN funcs : funcs[x] = funcs[k]} = {k}
      BY <2>2
    <3>2. h \in {x \in DOMAIN funcs : funcs[x] = funcs[k]}
      OBVIOUS
    <3> QED
      BY <3>1, <3>2
  <2> QED
    BY <2>1, <2>3 DEF CompiledInv, IsInjective
<1>2. CASE ~Compile
  <2>1. phase' \in Compiled => phase \in Compiled /\ UNCHANGED funcs
    BY <1>2 DEF Next, vars, Collect, NothingToGenerate, Group, Remap, Construct, Define, Register,
                Serve, Answered, Stopped, Loop, Compiled
  <2> QED
    BY <2>1 DEF CompiledInv, IsInjective
<1> QED
  BY <1>1, <1>2

\* The ServeMux compares a new pattern with each it has.
LEMMA StillAccepted ==
    ASSUME RouteInv, Accepted, [Next]_vars
    PROVE  Accepted'
<1>1. ASSUME UNCHANGED mux PROVE Accepted'
  <2> DEFINE A(m) == /\ \A k \in DOMAIN m : ~Malformed(m[k].path)
                     /\ \A j, k \in DOMAIN m :
                          j < k /\ m[j].method = m[k].method => ~Conflicts(m[j].path, m[k].path)
  <2>1. A(mux)
    BY Zenon DEF Accepted
  <2>2. A(mux')
    BY <1>1, <2>1, Zenon
  <2>3. Accepted' <=> A(mux')
    BY Zenon DEF Accepted, Malformed, Conflicts, Disjoint, MoreSpecific, Wildcards, Longer, At, Width, Seg
  <2> QED
    BY <2>2, <2>3
<1>2. CASE Register
  <2> DEFINE new == pairs[i]
  <2>1. CASE UNCHANGED mux
    BY <1>1, <2>1
  <2>2. CASE mux' # mux
    <3>1. /\ mux' = Append(mux, new) /\ ~Malformed(new.path)
          /\ \A k \in DOMAIN mux : mux[k].method = new.method => ~Conflicts(mux[k].path, new.path)
      BY <1>2, <2>2, Zenon DEF Register
    <3>2. /\ mux \in Seq(PairSet) /\ pairs \in Seq(PairSet) /\ i \in 1 .. Len(pairs)
      BY <1>2 DEF Register, RouteInv, MuxInv, PairsInv, PhaseInv
    <3>3. new \in PairSet
      BY <3>2
    <3> HIDE DEF new
    <3> DEFINE n == Len(mux)
    <3>4. /\ n \in Nat /\ DOMAIN mux = 1 .. n /\ DOMAIN mux' = 1 .. n + 1
          /\ mux'[n + 1] = new /\ \A k \in 1 .. n : mux'[k] = mux[k]
      BY <3>1, <3>2, <3>3
    <3>5. \A k \in 1 .. n + 1 : k \in 1 .. n \/ k = n + 1
      BY <3>4
    <3>6. \A j, k \in 1 .. n + 1 : j < k => j \in 1 .. n
      BY <3>4
    <3>7. \A k \in DOMAIN mux' : ~Malformed(mux'[k].path)
      BY <3>1, <3>4, <3>5, Zenon DEF Accepted
    <3>8. ASSUME NEW j \in 1 .. n + 1, NEW k \in 1 .. n + 1, j < k, mux'[j].method = mux'[k].method
          PROVE  ~Conflicts(mux'[j].path, mux'[k].path)
      <4>1. j \in 1 .. n /\ mux'[j] = mux[j]
        BY <3>4, <3>6, <3>8
      <4>2. CASE k \in 1 .. n
        <5>1. mux'[k] = mux[k]
          BY <3>4, <4>2
        <5> QED
          BY <3>4, <3>8, <4>1, <4>2, <5>1, Zenon DEF Accepted
      <4>3. CASE k = n + 1
        <5>1. mux'[k] = new
          BY <3>4, <4>3
        <5> QED
          BY <3>1, <3>4, <3>8, <4>1, <5>1, Zenon
      <4> QED
        BY <3>5, <4>2, <4>3
    <3>9. /\ \A k \in DOMAIN mux' : ~Malformed(mux'[k].path)
          /\ \A j, k \in DOMAIN mux' :
               j < k /\ mux'[j].method = mux'[k].method => ~Conflicts(mux'[j].path, mux'[k].path)
      BY <3>4, <3>7, <3>8, Zenon
    <3> QED
      BY <3>9, Zenon DEF Accepted, Malformed, Conflicts, Disjoint, MoreSpecific, Wildcards, Longer, At, Width, Seg
  <2> QED
    BY <2>1, <2>2
<1>3. CASE ~Register
  <2>1. UNCHANGED mux
    BY <1>3 DEF Next, vars, Collect, NothingToGenerate, Group, Remap, Construct, Define, Compile,
                Serve, Answered, Stopped
  <2> QED
    BY <1>1, <2>1
<1> QED
  BY <1>2, <1>3

\* The path variables are named as the wildcards of the path that is registered
\* for them; a file that compiles defines each function once; the registered
\* patterns are well-formed and pairwise comparable or disjoint.
THEOREM ReachInvariant == Spec => []ReachInv
<1> DEFINE More == AlignedInv /\ CompiledInv /\ Accepted
<1>1. Init => More
  <2> SUFFICES ASSUME Init PROVE More
    OBVIOUS
  <2>1. phase = "collect" /\ routes = <<>> /\ groups = <<>> /\ mux = <<>>
    BY DEF Init
  <2>2. Remapped = 0 /\ DOMAIN routes = {} /\ DOMAIN mux = {} /\ Len(groups) = 0 /\ 1 .. 0 = {}
    BY <2>1 DEF Remapped
  <2>3. AlignedInv
    BY <2>2 DEF AlignedInv
  <2>4. CompiledInv
    BY <2>1 DEF CompiledInv, Compiled
  <2>5. Accepted
    BY <2>2 DEF Accepted
  <2> QED
    BY <2>3, <2>4, <2>5
<1>2. RouteInv /\ More /\ [Next]_vars => More'
  BY CollectAligns, RemapAligns, OthersAlign, CompiledOnce, StillAccepted
<1>3. RouteInv /\ More => ReachInv
  BY DEF ReachInv
<1> QED
  BY <1>1, <1>2, <1>3, RouteInvariant, PTL DEF Spec

-----------------------------------------------------------------------------
\* What the client sends.

\* The parts of the client's path, one for each segment of the route's.
SentSet == [lit : VarTexts \cup {<<>>}, id : Nat, verb : STRING \cup {""}]
SegmentsOf(path, k) ==
    IF k \in Wildcards(path)
    THEN <<Sent(<<>>, NthOf(Wildcards(path), k))>>
         \o [h \in DOMAIN path[k].hidden |-> Sent(<<path[k].hidden[h]>>, 0)]
    ELSE <<[Sent(path[k].text, 0) EXCEPT !.verb = path[k].tail]>>
SentFor(path) == FlattenSeq([k \in DOMAIN path |-> SegmentsOf(path, k)])
RestAtEnd(path) == \A k \in DOMAIN path : path[k].kind = "rest" => k = Len(path)

\* What a client path says: a value per wildcard, in order, the literals, and the
\* verb at its end.
Carries(path, verb, sent) ==
    /\ sent \in Seq(SentSet) /\ Len(sent) = Len(path) + Len(path[Len(path)].hidden)
    /\ \A k \in DOMAIN path :
         /\ k \in Wildcards(path) =>
              /\ sent[k].lit = <<>> /\ sent[k].id = NthOf(Wildcards(path), k)
              /\ sent[k].verb = IF k = Len(sent) THEN verb ELSE ""
         /\ path[k].kind = "lit" => sent[k].lit = path[k].text /\ sent[k].verb = path[k].tail
    /\ path[Len(path)].kind # "lit" => sent[Len(sent)].verb = verb

LEMMA SegmentsAre ==
    ASSUME NEW p \in Seq(SegSet), Well(p), NEW k \in DOMAIN p
    PROVE  /\ SegmentsOf(p, k) \in Seq(SentSet) /\ Len(SegmentsOf(p, k)) = 1 + Len(p[k].hidden)
           /\ Len(p[k].hidden) \in Nat /\ (p[k].kind # "rest" => Len(p[k].hidden) = 0)
           /\ k \in Wildcards(p) =>
                /\ SegmentsOf(p, k)[1].lit = <<>> /\ SegmentsOf(p, k)[1].id = NthOf(Wildcards(p), k)
                /\ \A j \in 1 .. 1 + Len(p[k].hidden) : SegmentsOf(p, k)[j].verb = ""
           /\ p[k].kind = "lit" => SegmentsOf(p, k)[1].lit = p[k].text /\ SegmentsOf(p, k)[1].verb = p[k].tail
<1> DEFINE x == p[k]
           n == NthOf(Wildcards(p), k)
<1>1. /\ x.kind \in {"lit", "var", "rest"} /\ x.tail \in STRING \cup {""} /\ x.hidden \in Seq(STRING)
      /\ x.text \in VarTexts /\ (x.kind # "rest" => x.hidden = <<>>)
  <2>1. x \in SegSet /\ x.kind # "bad"
    BY DEF Well
  <2> HIDE DEF x
  <2> QED
    BY <2>1, SegFields
<1>2. n \in Nat
  <2>1. k \in Nat /\ Len(p) \in Nat
    OBVIOUS
  <2>2. Below(Wildcards(p), Len(p))
    BY WildcardsBelow
  <2> QED
    BY <2>1, <2>2, UpToFacts
<1>3. k \in Wildcards(p) <=> x.kind # "lit"
  BY <1>1 DEF Wildcards
<1>4. /\ SegmentsOf(p, k) = IF k \in Wildcards(p)
             THEN <<Sent(<<>>, n)>> \o [h \in DOMAIN x.hidden |-> Sent(<<x.hidden[h]>>, 0)]
             ELSE <<[Sent(x.text, 0) EXCEPT !.verb = x.tail]>>
  BY Zenon DEF SegmentsOf
<1> HIDE DEF x, n
<1>5. /\ \A t \in VarTexts \cup {<<>>} : \A j \in Nat :
           Sent(t, j) \in SentSet /\ Sent(t, j).lit = t /\ Sent(t, j).id = j /\ Sent(t, j).verb = ""
  BY DEF Sent, SentSet
<1>6. CASE k \in Wildcards(p)
  <2> DEFINE a == Sent(<<>>, n)
             l == [h \in DOMAIN x.hidden |-> Sent(<<x.hidden[h]>>, 0)]
             m == Len(x.hidden)
  <2>1. a \in SentSet /\ a.lit = <<>> /\ a.id = n /\ a.verb = ""
    <3>1. <<>> \in VarTexts \cup {<<>>}
      OBVIOUS
    <3> QED
      BY <1>2, <1>5, <3>1, Zenon
  <2>2. m \in Nat /\ DOMAIN x.hidden = 1 .. m /\ \A h \in 1 .. m : x.hidden[h] \in STRING
    <3>1. x.hidden \in Seq(STRING)
      BY <1>1
    <3> QED
      BY <3>1, ElementOf
  <2>3. \A h \in 1 .. m : Sent(<<x.hidden[h]>>, 0) \in SentSet /\ Sent(<<x.hidden[h]>>, 0).verb = ""
    <3>1. \A f \in STRING : <<f>> \in VarTexts
      BY DEF VarTexts
    <3> QED
      BY <1>5, <2>2, <3>1
  <2>4. l \in [1 .. m -> SentSet] /\ \A h \in 1 .. m : l[h].verb = ""
    BY <2>2, <2>3
  <2>5. l \in Seq(SentSet) /\ Len(l) = m
    <3>1. \A c \in Nat : \A s \in [1 .. c -> SentSet] : s \in Seq(SentSet) /\ Len(s) = c
      OBVIOUS
    <3> QED
      BY <2>2, <2>4, <3>1, Zenon
  <2>6. SegmentsOf(p, k) = <<a>> \o l
    BY <1>4, <1>6
  <2> HIDE DEF a, l, m
  <2>7. /\ <<a>> \o l \in Seq(SentSet) /\ Len(<<a>> \o l) = 1 + m /\ (<<a>> \o l)[1] = a
        /\ \A h \in 1 .. m : (<<a>> \o l)[1 + h] = l[h]
    <3>1. <<a>> \in Seq(SentSet) /\ Len(<<a>>) = 1
      BY <2>1, OneOf
    <3>2. <<a>>[1] = a
      OBVIOUS
    <3> QED
      BY <2>5, <3>1, <3>2
  <2>8. \A j \in 1 .. 1 + m : j = 1 \/ (j - 1 \in 1 .. m /\ j = 1 + (j - 1))
    BY <2>2
  <2>9. ASSUME NEW j \in 1 .. 1 + m PROVE (<<a>> \o l)[j].verb = ""
    <3>1. CASE j = 1
      BY <2>1, <2>7, <3>1
    <3>2. CASE j - 1 \in 1 .. m /\ j = 1 + (j - 1)
      BY <2>4, <2>7, <3>2
    <3> QED
      BY <2>8, <3>1, <3>2
  <2>10. x.kind # "lit" /\ (x.kind # "rest" => m = 0)
    BY <1>1, <1>3, <1>6 DEF m
  <2> QED
    BY <2>1, <2>2, <2>6, <2>7, <2>9, <2>10, Zenon DEF x, n, m
<1>7. CASE k \notin Wildcards(p)
  <2> DEFINE y == [Sent(x.text, 0) EXCEPT !.verb = x.tail]
  <2>1. y \in SentSet /\ y.lit = x.text /\ y.verb = x.tail
    BY <1>1 DEF Sent, SentSet
  <2>2. SegmentsOf(p, k) = <<y>>
    BY <1>4, <1>7
  <2> HIDE DEF y
  <2>3. <<y>> \in Seq(SentSet) /\ Len(<<y>>) = 1 /\ <<y>>[1] = y
    BY <2>1
  <2>4. x.kind = "lit" /\ Len(x.hidden) = 0
    BY <1>1, <1>3, <1>7
  <2>5. /\ SegmentsOf(p, k) \in Seq(SentSet) /\ Len(SegmentsOf(p, k)) = 1 + Len(x.hidden)
        /\ Len(x.hidden) \in Nat /\ Len(x.hidden) = 0
        /\ SegmentsOf(p, k)[1].lit = x.text /\ SegmentsOf(p, k)[1].verb = x.tail
    BY <2>1, <2>2, <2>3, <2>4
  <2> QED
    BY <1>7, <2>5, Zenon DEF x
<1> QED
  BY <1>6, <1>7

WithVerb(all, verb) == IF verb = "" THEN all ELSE [all EXCEPT ![Len(all)].verb = verb]

\* A path and a verb that may go behind it.
Sendable(path, verb) ==
    /\ Well(path) /\ RestAtEnd(path)
    /\ verb \in STRING \cup {""} /\ (verb # "" => path[Len(path)].kind # "lit")

LEMMA ClientSends ==
    ASSUME NEW p \in Seq(SegSet), p # <<>>, NEW v, Sendable(p, v)
    PROVE  Carries(p, v, WithVerb(SentFor(p), v))
<1>0. Well(p) /\ RestAtEnd(p) /\ v \in STRING \cup {""} /\ (v # "" => p[Len(p)].kind # "lit")
  BY DEF Sendable
<1>a. \A m \in Nat \ {0} : m \in 1 .. m /\ \A k \in 1 .. m - 1 : k \in 1 .. m /\ k # m
  OBVIOUS
<1>b. \A j \in Nat : \A m \in Nat \ {0} :
        /\ 1 \in 1 .. 1 + j /\ 1 + j \in 1 .. 1 + j /\ 1 + j # 0 /\ (j = 0 => 1 + j = 1)
        /\ m - 1 + (1 + j) = m + j /\ m <= m + j /\ m + j \in 1 .. m + j
  OBVIOUS
<1>n. PICK n \in Nat \ {0} : n = Len(p) /\ DOMAIN p = 1 .. n
  OBVIOUS
<1>s. PICK s : s = [k \in DOMAIN p |-> SegmentsOf(p, k)]
  OBVIOUS
<1>h. \A k \in DOMAIN p : Len(p[k].hidden) \in Nat
  BY <1>0, SegmentsAre
<1>1. n \in 1 .. n
  BY <1>a
<1>i. PICK h \in Nat : h = Len(p[n].hidden)
  BY <1>n, <1>1, <1>h
<1>p. PICK all : all = SentFor(p)
  OBVIOUS
<1>2. all = FlattenSeq(s)
  BY <1>s, <1>p, Zenon DEF SentFor
<1>3. ASSUME NEW k \in 1 .. n
      PROVE  /\ s[k] \in Seq(SentSet) /\ Len(s[k]) = 1 + Len(p[k].hidden)
             /\ Len(s[k]) # 0 /\ (k # n => Len(s[k]) = 1) /\ 1 \in 1 .. 1 + Len(p[k].hidden)
             /\ k \in Wildcards(p) =>
                  /\ s[k][1].lit = <<>> /\ s[k][1].id = NthOf(Wildcards(p), k)
                  /\ \A j \in 1 .. 1 + Len(p[k].hidden) : s[k][j].verb = ""
             /\ p[k].kind = "lit" => s[k][1].lit = p[k].text /\ s[k][1].verb = p[k].tail
  <2>1. k \in DOMAIN p /\ s[k] = SegmentsOf(p, k)
    BY <1>n, <1>s
  <2>2. k # n => p[k].kind # "rest"
    BY <1>0, <1>n, <2>1, Zenon DEF RestAtEnd
  <2>3. /\ SegmentsOf(p, k) \in Seq(SentSet) /\ Len(SegmentsOf(p, k)) = 1 + Len(p[k].hidden)
        /\ p[k].kind # "rest" => Len(p[k].hidden) = 0
        /\ k \in Wildcards(p) =>
              /\ SegmentsOf(p, k)[1].lit = <<>> /\ SegmentsOf(p, k)[1].id = NthOf(Wildcards(p), k)
              /\ \A j \in 1 .. 1 + Len(p[k].hidden) : SegmentsOf(p, k)[j].verb = ""
        /\ p[k].kind = "lit" => SegmentsOf(p, k)[1].lit = p[k].text /\ SegmentsOf(p, k)[1].verb = p[k].tail
    <3>1. p \in Seq(SegSet) /\ Well(p) /\ k \in DOMAIN p
      BY <1>0, <2>1
    <3> QED
      BY <3>1, SegmentsAre, Zenon
  <2>4. Len(p[k].hidden) \in Nat
    BY <1>h, <2>1
  <2>5. /\ 1 \in 1 .. 1 + Len(p[k].hidden) /\ 1 + Len(p[k].hidden) # 0
        /\ Len(p[k].hidden) = 0 => 1 + Len(p[k].hidden) = 1
    BY <1>b, <2>4, Zenon
  <2> QED
    BY <2>1, <2>2, <2>3, <2>5, Zenon
<1>4. s \in [1 .. n -> Seq(SentSet)] /\ \A k \in 1 .. n - 1 : Len(s[k]) = 1
  <2>1. DOMAIN s = 1 .. n /\ s = [k \in 1 .. n |-> s[k]]
    BY <1>n, <1>s
  <2>2. s \in [1 .. n -> Seq(SentSet)]
    BY <1>3, <2>1
  <2> QED
    BY <1>3, <1>a, <2>2, Zenon
<1>5. /\ all \in Seq(SentSet) /\ Len(all) = n - 1 + Len(s[n])
      /\ \A k \in 1 .. n : all[k] = s[k][1]
      /\ all[n - 1 + Len(s[n])] = s[n][Len(s[n])]
  <2>1. /\ FlattenSeq(s) \in Seq(SentSet) /\ Len(FlattenSeq(s)) = n - 1 + Len(s[n])
        /\ \A k \in 1 .. n : Len(s[k]) # 0 => FlattenSeq(s)[k] = s[k][1]
        /\ Len(s[n]) # 0 => FlattenSeq(s)[n - 1 + Len(s[n])] = s[n][Len(s[n])]
    BY <1>4, FlattenOnes, Zenon
  <2> QED
    BY <1>1, <1>2, <1>3, <2>1, Zenon
<1>6. /\ Len(all) = n + h /\ n <= Len(all) /\ Len(all) \in 1 .. Len(all)
      /\ all[Len(all)] = s[n][1 + h] /\ 1 + h \in 1 .. 1 + h
  <2>1. Len(s[n]) = 1 + h
    BY <1>1, <1>3, <1>i
  <2>2. n - 1 + (1 + h) = n + h /\ n <= n + h /\ n + h \in 1 .. n + h /\ 1 + h \in 1 .. 1 + h
    BY <1>b, Zenon
  <2> QED
    BY <1>5, <2>1, <2>2, Zenon
<1>7. p[n].kind # "lit" <=> n \in Wildcards(p)
  <2>0. n \in DOMAIN p
    BY <1>1, <1>n
  <2>1. p[n] \in SegSet /\ p[n].kind # "bad"
    <3>1. p[n] \in SegSet
      BY <2>0
    <3>2. p[n].kind # "bad"
      BY <1>0, <2>0, Zenon DEF Well
    <3> QED
      BY <3>1, <3>2
  <2>2. p[n].kind \in {"lit", "var", "rest", "bad"}
    BY <2>1, SegFields
  <2> QED
    BY <2>0, <2>1, <2>2 DEF Wildcards
<1>8. ASSUME NEW k \in 1 .. n, k \in Wildcards(p)
      PROVE  all[k].lit = <<>> /\ all[k].id = NthOf(Wildcards(p), k) /\ all[k].verb = ""
  <2>1. all[k] = s[k][1] /\ 1 \in 1 .. 1 + Len(p[k].hidden)
    BY <1>3, <1>5, Zenon
  <2>2. s[k][1].lit = <<>> /\ s[k][1].id = NthOf(Wildcards(p), k) /\ s[k][1].verb = ""
    BY <1>3, <1>8, <2>1, Zenon
  <2> QED
    BY <2>1, <2>2
<1>9. ASSUME p[n].kind # "lit" PROVE all[Len(all)].verb = ""
  <2>1. n \in 1 .. n /\ n \in Wildcards(p) /\ 1 + h \in 1 .. 1 + Len(p[n].hidden)
    BY <1>1, <1>6, <1>7, <1>9, <1>i
  <2>2. s[n][1 + h].verb = ""
    BY <1>3, <2>1, Zenon
  <2> QED
    BY <1>6, <2>2
<1>10. ASSUME NEW k \in 1 .. n, p[k].kind = "lit"
       PROVE  all[k].lit = p[k].text /\ all[k].verb = p[k].tail
  BY <1>3, <1>5, <1>10, Zenon
<1> DEFINE sent == WithVerb(all, v)
<1>11. CASE v = ""
  <2>1. sent = all
    BY <1>11 DEF WithVerb
  <2> HIDE DEF sent
  <2>2. sent \in Seq(SentSet) /\ Len(sent) = n + h
    BY <1>5, <1>6, <2>1
  <2>3. ASSUME NEW k \in DOMAIN p
        PROVE  /\ k \in Wildcards(p) =>
                    /\ sent[k].lit = <<>> /\ sent[k].id = NthOf(Wildcards(p), k)
                    /\ sent[k].verb = IF k = Len(sent) THEN v ELSE ""
               /\ p[k].kind = "lit" => sent[k].lit = p[k].text /\ sent[k].verb = p[k].tail
    BY <1>n, <1>8, <1>10, <1>11, <2>1
  <2>4. p[n].kind # "lit" => sent[Len(sent)].verb = v
    BY <1>9, <1>11, <2>1
  <2>5. Carries(p, v, sent)
    BY <2>2, <2>3, <2>4, <1>n, <1>i, Zenon DEF Carries
  <2> QED
    BY <2>5, <1>p DEF sent
<1>12. CASE v # ""
  <2>1. sent = [all EXCEPT ![Len(all)].verb = v]
    BY <1>12 DEF WithVerb
  <2> DEFINE l == Len(all)
  <2>2. l \in Nat /\ l \in 1 .. l /\ DOMAIN all = 1 .. l /\ \A k \in 1 .. l : all[k] \in SentSet
    <3>1. all \in Seq(SentSet) /\ l \in 1 .. l
      BY <1>5, <1>6
    <3>2. Len(all) \in Nat /\ DOMAIN all = 1 .. Len(all) /\ \A k \in 1 .. Len(all) : all[k] \in SentSet
      BY <3>1, ElementOf
    <3> QED
      BY <3>1, <3>2
  <2>3. /\ [all[l] EXCEPT !.verb = v] \in SentSet
        /\ [all[l] EXCEPT !.verb = v].verb = v /\ [all[l] EXCEPT !.verb = v].id = all[l].id
        /\ [all[l] EXCEPT !.verb = v].lit = all[l].lit
    BY <1>0, <2>2 DEF SentSet
  <2> HIDE DEF sent, l
  <2>4. /\ DOMAIN sent = 1 .. l /\ sent[l] = [all[l] EXCEPT !.verb = v]
        /\ \A k \in 1 .. l : k # l => sent[k] = all[k]
    BY <2>1, <2>2 DEF l
  <2>5. sent \in Seq(SentSet) /\ Len(sent) = l
    <3>1. sent = [k \in 1 .. l |-> sent[k]]
      BY <2>1, <2>2 DEF l
    <3>2. \A k \in 1 .. l : sent[k] \in SentSet
      BY <2>2, <2>3, <2>4
    <3>3. sent \in [1 .. l -> SentSet]
      BY <3>1, <3>2
    <3>4. \A c \in Nat : \A x \in [1 .. c -> SentSet] : x \in Seq(SentSet) /\ Len(x) = c
      OBVIOUS
    <3> QED
      BY <2>2, <3>3, <3>4, Zenon
  <2>6. \A k \in 1 .. n : k \in 1 .. l /\ (k = l => k = n)
    BY <1>1, <1>6, <2>2 DEF l
  <2>7. sent[l].verb = v /\ sent[l].id = all[l].id /\ sent[l].lit = all[l].lit
    BY <2>3, <2>4
  <2>8. n \in Wildcards(p)
    BY <1>0, <1>7, <1>12, <1>n
  <2>9. ASSUME NEW k \in DOMAIN p, k \in Wildcards(p)
        PROVE  /\ sent[k].lit = <<>> /\ sent[k].id = NthOf(Wildcards(p), k)
               /\ sent[k].verb = IF k = Len(sent) THEN v ELSE ""
    <3>1. all[k].lit = <<>> /\ all[k].id = NthOf(Wildcards(p), k) /\ all[k].verb = "" /\ k \in 1 .. l
      BY <1>n, <1>8, <2>6, <2>9
    <3>2. CASE k = l
      BY <2>5, <2>7, <3>1, <3>2
    <3>3. CASE k # l
      BY <2>4, <2>5, <3>1, <3>3
    <3> QED
      BY <3>2, <3>3
  <2>10. ASSUME NEW k \in DOMAIN p, p[k].kind = "lit"
         PROVE  sent[k].lit = p[k].text /\ sent[k].verb = p[k].tail
    <3>1. k # n
      BY <1>0, <1>12, <2>10, <1>n
    <3>2. sent[k] = all[k]
      BY <1>n, <2>4, <2>6, <3>1
    <3> QED
      BY <1>n, <1>10, <2>10, <3>2
  <2>11. Len(sent) = n + h /\ sent[Len(sent)].verb = v
    BY <1>6, <2>5, <2>7 DEF l
  <2>12. Carries(p, v, sent)
    BY <2>5, <2>9, <2>10, <2>11, <1>n, <1>i, Zenon DEF Carries
  <2> QED
    BY <2>12, <1>p DEF sent
<1> QED
  BY <1>11, <1>12

LEMMA ClientPathIs ==
    ASSUME NEW r
    PROVE  ClientPath(r) = WithVerb(SentFor(routes[r].path), routes[r].verb)
BY Zenon DEF ClientPath, WithVerb, SentFor, SegmentsOf, NthOf, UpTo

-----------------------------------------------------------------------------
\* The registered pattern of a route matches what its client sends.

\* A path that the client's fits: that of the route's group, or the route's own.
LEMMA Matches ==
    ASSUME NEW p \in Seq(SegSet), p # <<>>, NEW q \in Seq(SegSet), Normalize(p) = Normalize(q),
           NEW v, NEW sent, Carries(p, v, sent)
    PROVE  MatchesPath(q, sent)
<1>1. DOMAIN p = DOMAIN q /\ Len(p) = Len(q)
  BY SameShape
<1>2. \A k \in DOMAIN p : p[k].kind = q[k].kind /\ (p[k].kind = "lit" => p[k] = q[k])
  BY SameShape
<1>n. PICK n \in Nat \ {0} : n = Len(p) /\ n \in DOMAIN p
  <2>1. Len(p) \in Nat \ {0} /\ Len(p) \in DOMAIN p
    OBVIOUS
  <2> QED
    BY <2>1
<1>3. p[n].hidden \in Seq(STRING) /\ (p[n].kind # "rest" => p[n].hidden = <<>>)
  <2>1. p[n] \in SegSet
    BY <1>n
  <2> QED
    BY <2>1, SegFields
<1>4. Len(sent) = n + Len(p[n].hidden)
  BY <1>n, Zenon DEF Carries
<1>5. IF q[Len(q)].kind = "rest" THEN Len(sent) >= Len(q) ELSE Len(sent) = Len(q)
  <2>1. Len(q) = n /\ q[n].kind = p[n].kind
    BY <1>1, <1>2, <1>n
  <2>2. Len(p[n].hidden) \in Nat /\ (p[n].kind # "rest" => Len(p[n].hidden) = 0)
    BY <1>3
  <2>3. \A j \in Nat : n + j >= n /\ n + 0 = n
    OBVIOUS
  <2> QED
    BY <1>4, <2>1, <2>2, <2>3
<1>6. \A k \in DOMAIN q : q[k].kind = "lit" => sent[k].lit = q[k].text /\ sent[k].verb = q[k].tail
  <2>1. \A k \in DOMAIN p : p[k].kind = "lit" => sent[k].lit = p[k].text /\ sent[k].verb = p[k].tail
    BY Zenon DEF Carries
  <2> QED
    BY <1>1, <1>2, <2>1
<1> QED
  BY <1>5, <1>6, Zenon DEF MatchesPath

\* The pattern of a route's group.
HomeAt(r, h) ==
    /\ h \in DOMAIN mux /\ h \in DOMAIN groups /\ Holds(groups[h], r)
    /\ mux[h] = PairOf(groups[h]) /\ mux[h].path = groups[h].path
    /\ mux[h].path \in Seq(SegSet) /\ mux[h].path # <<>>
    /\ Normalize(routes[r].path) = Normalize(mux[h].path)
    /\ groups[h].method = routes[r].method
    /\ Well(routes[r].path) /\ RestAtEnd(routes[r].path)

LEMMA Home ==
    ASSUME ReachInv, phase = "serving", NEW r \in DOMAIN routes
    PROVE  \E h : HomeAt(r, h)
<1>1. RouteInv /\ Accepted /\ phase \in Later
  BY DEF ReachInv, Later
<1>2. /\ groups \in Seq(GroupSet) /\ DOMAIN groups = 1 .. Len(groups)
      /\ Grouped = Len(routes) /\ DOMAIN routes = 1 .. Len(routes)
      /\ \A h \in DOMAIN groups : GroupOf(groups[h])
  BY <1>1, GroupFacts
<1>3. PICK h \in DOMAIN groups : Holds(groups[h], r)
  BY <1>1, <1>2, Zenon DEF RouteInv, GroupsInv
<1>4. h \in DOMAIN mux /\ mux[h] = PairOf(groups[h])
  BY <1>1, <1>2, <1>3, MuxFacts
<1>5. mux[h].path = groups[h].path
  BY <1>4 DEF PairOf
<1>6. /\ Normalize(routes[r].path) = Normalize(groups[h].path)
      /\ groups[h].method = routes[r].method
  <2>1. groups[h].key = <<routes[r].method, Normalize(routes[r].path)>>
    BY <1>3 DEF Holds, Key
  <2>2. groups[h].key = <<groups[h].method, Normalize(groups[h].path)>>
    BY <1>1, <1>3, GroupPath
  <2> QED
    BY <2>1, <2>2
<1>7. groups[h].path \in Seq(SegSet) /\ groups[h].path # <<>>
  <2>1. NameOwner(groups[h]) \in DOMAIN routes /\ groups[h].path = routes[NameOwner(groups[h])].path
    BY <1>2, <1>3 DEF GroupOf
  <2> QED
    BY <1>1, <2>1, RoutePath
<1>8. Well(groups[h].path) /\ RestAtEnd(groups[h].path)
  <2>1. ~Malformed(mux[h].path)
    BY <1>1, <1>4 DEF Accepted
  <2> QED
    BY <1>5, <2>1, Zenon DEF Malformed, Well, RestAtEnd
<1>9. Well(routes[r].path) /\ RestAtEnd(routes[r].path)
  <2>1. routes[r].path \in Seq(SegSet)
    BY <1>1, RoutePath
  <2>2. PICK p \in Seq(SegSet) : p = routes[r].path
    BY <2>1
  <2>3. PICK q \in Seq(SegSet) : q = groups[h].path
    BY <1>7
  <2>4. Normalize(p) = Normalize(q)
    BY <1>6, <2>2, <2>3
  <2>5. /\ DOMAIN p = DOMAIN q /\ Len(p) = Len(q) /\ (Well(p) <=> Well(q))
        /\ \A k \in DOMAIN p : p[k].kind = q[k].kind
    BY <2>4, SameShape
  <2>6. Well(q) /\ RestAtEnd(q)
    BY <1>8, <2>3
  <2>7. RestAtEnd(p)
    BY <2>5, <2>6 DEF RestAtEnd
  <2> QED
    BY <2>2, <2>5, <2>6, <2>7
<1> QED
  BY <1>3, <1>4, <1>5, <1>6, <1>7, <1>9, Zenon DEF HomeAt

\* What the client of a route sends.
LEMMA ClientCarries ==
    ASSUME ReachInv, phase = "serving", VerbsBehindWildcards, NEW r \in DOMAIN routes
    PROVE  Carries(routes[r].path, routes[r].verb, ClientPath(r))
<1>1. RouteInv
  BY DEF ReachInv
<1>2. PICK k \in DOMAIN service :
             /\ Usable(service[k]) /\ Annotated(service[k])
             /\ routes[r].path = PathAt(k) /\ routes[r].verb = VerbAt(k)
  BY <1>1, RouteOf
<1>3. routes[r].verb \in STRING \cup {""}
  BY <1>2 DEF VerbAt, Annotated
<1>4. routes[r].verb # "" => routes[r].path[Len(routes[r].path)].kind # "lit"
  BY <1>2 DEF VerbAt, VerbsBehindWildcards
<1>5. Well(routes[r].path) /\ RestAtEnd(routes[r].path)
  BY Home DEF HomeAt
<1>6. Sendable(routes[r].path, routes[r].verb)
  BY <1>3, <1>4, <1>5, Zenon DEF Sendable
<1>7. PICK p \in Seq(SegSet) : p = routes[r].path /\ p # <<>>
  BY <1>1, RoutePath
<1>8. Carries(p, routes[r].verb, WithVerb(SentFor(p), routes[r].verb))
  BY <1>6, <1>7, ClientSends
<1> QED
  BY <1>7, <1>8, ClientPathIs

\* The method a client uses is the one of the annotation.
LEMMA ClientMethodIs ==
    ASSUME RouteInv, StreamsArePosted, NEW r \in DOMAIN routes
    PROVE  ClientMethod(r) = routes[r].method
<1>1. PICK k \in DOMAIN service :
             /\ Usable(service[k]) /\ routes[r].method = service[k].http
             /\ routes[r].streaming = service[k].serverStream
  BY RouteOf
<1> QED
  BY <1>1 DEF ClientMethod, StreamsArePosted

LEMMA HomeIsCandidate ==
    ASSUME ReachInv, phase = "serving", StreamsArePosted, VerbsBehindWildcards,
           NEW r \in DOMAIN routes, NEW h, HomeAt(r, h)
    PROVE  h \in Candidates(routes[r].method, ClientPath(r))
<1>1. RouteInv /\ phase \in Later
  BY DEF ReachInv, Later
<1>2. /\ h \in DOMAIN mux /\ h \in DOMAIN groups /\ mux[h] = PairOf(groups[h])
      /\ mux[h].path \in Seq(SegSet) /\ groups[h].method = routes[r].method
      /\ Normalize(routes[r].path) = Normalize(mux[h].path)
  BY DEF HomeAt
<1>3. mux[h].method = routes[r].method
  <2>1. mux[h].method = RegisteredMethod(groups[h])
    BY <1>2 DEF PairOf
  <2> QED
    BY <1>1, <1>2, <2>1, GroupMethod
<1>4. MatchesPath(mux[h].path, ClientPath(r))
  <2>1. routes[r].path \in Seq(SegSet) /\ routes[r].path # <<>>
    BY <1>1, RoutePath
  <2>2. Carries(routes[r].path, routes[r].verb, ClientPath(r))
    BY ClientCarries
  <2> QED
    BY <1>2, <2>1, <2>2, Matches
<1> QED
  BY <1>2, <1>3, <1>4 DEF Candidates

\* Every operation is registered for its method, if streaming RPCs are annotated
\* POST and custom verbs follow wildcards.
THEOREM OperationsAreRegistered ==
    Spec => [](StreamsArePosted /\ VerbsBehindWildcards => OperationsRegistered)
<1>1. ReachInv => (StreamsArePosted /\ VerbsBehindWildcards => OperationsRegistered)
  <2> SUFFICES ASSUME ReachInv, StreamsArePosted, VerbsBehindWildcards, phase = "serving",
                      NEW r \in DOMAIN routes
               PROVE  Candidates(routes[r].method, ClientPath(r)) # {}
    BY DEF OperationsRegistered
  <2> QED
    BY Home, HomeIsCandidate
<1> QED
  BY <1>1, ReachInvariant, PTL

-----------------------------------------------------------------------------
\* Of the patterns that match, the one of the route's group is the most specific.

\* A path to which what a client sends for another pattern fits.
Fits(q, sent) == q \in Seq(SegSet) /\ q # <<>> /\ Well(q) /\ MatchesPath(q, sent)

LEMMA FitsFacts ==
    ASSUME NEW q, NEW sent \in Seq(SentSet), Fits(q, sent)
    PROVE  /\ q \in Seq(SegSet) /\ q # <<>> /\ Len(q) \in DOMAIN q
           /\ q[Len(q)].kind # "rest" => Len(sent) = Len(q)
           /\ Len(q) <= Len(sent)
           /\ \A k \in DOMAIN q :
                /\ q[k].kind \in {"lit", "var", "rest"} /\ q[k].text \in VarTexts
                /\ q[k].kind = "lit" => sent[k].lit = q[k].text /\ sent[k].verb = q[k].tail
<1>1. q \in Seq(SegSet) /\ q # <<>> /\ Well(q) /\ MatchesPath(q, sent)
  BY Zenon DEF Fits
<1>2. Len(q) \in Nat /\ Len(sent) \in Nat /\ Len(q) \in DOMAIN q
  BY <1>1
<1>3. /\ q[Len(q)].kind # "rest" => Len(sent) = Len(q)
      /\ q[Len(q)].kind = "rest" => Len(sent) >= Len(q)
      /\ \A k \in DOMAIN q : q[k].kind = "lit" => sent[k].lit = q[k].text /\ sent[k].verb = q[k].tail
  BY <1>1, Zenon DEF MatchesPath
<1>4. Len(q) <= Len(sent)
  BY <1>2, <1>3
<1>5. \A k \in DOMAIN q : q[k].kind \in {"lit", "var", "rest"} /\ q[k].text \in VarTexts
  <2> SUFFICES ASSUME NEW k \in DOMAIN q PROVE q[k].kind \in {"lit", "var", "rest"} /\ q[k].text \in VarTexts
    OBVIOUS
  <2>1. q[k] \in SegSet
    BY <1>1
  <2>2. q[k].kind # "bad"
    BY <1>1 DEF Well
  <2> QED
    BY <2>1, <2>2, SegFields
<1> QED
  BY <1>1, <1>2, <1>3, <1>4, <1>5

\* Two paths that fit are not disjoint.
LEMMA BothFit ==
    ASSUME NEW q, NEW x, NEW sent \in Seq(SentSet), Fits(q, sent), Fits(x, sent)
    PROVE  ~Disjoint(q, x)
<1> SUFFICES ASSUME NEW k \in Longer(q, x),
                    \/ At(q, k).kind = "end" \/ At(x, k).kind = "end"
                    \/ At(q, k).kind = "lit" /\ At(x, k).kind = "lit" /\ At(q, k) # At(x, k)
             PROVE  FALSE
  BY DEF Disjoint
<1>1. /\ q \in Seq(SegSet) /\ q # <<>> /\ x \in Seq(SegSet) /\ x # <<>>
      /\ Len(q) \in Nat /\ Len(x) \in Nat /\ Len(sent) \in Nat
      /\ Len(q) <= Len(sent) /\ Len(x) <= Len(sent)
      /\ q[Len(q)].kind # "rest" => Len(sent) = Len(q)
      /\ x[Len(x)].kind # "rest" => Len(sent) = Len(x)
  BY FitsFacts
<1>2. k \in Nat \ {0} /\ (k <= Len(q) \/ k <= Len(x))
  BY <1>1, LongerIs
<1>3. k <= Len(sent)
  BY <1>1, <1>2
<1>4. At(q, k).kind # "end"
  <2>1. CASE k <= Len(q)
    <3>1. k \in DOMAIN q /\ At(q, k) = q[k]
      BY <1>1, <1>2, <2>1, AtIs
    <3>2. q[k].kind \in {"lit", "var", "rest"}
      BY <3>1, FitsFacts
    <3> QED
      BY <3>1, <3>2
  <2>2. CASE ~(k <= Len(q))
    <3>1. q[Len(q)].kind = "rest"
      BY <1>1, <1>2, <1>3, <2>2
    <3>2. At(q, k).kind = "rest"
      BY <1>1, <1>2, <2>2, <3>1, AtIs
    <3> QED
      BY <3>2
  <2> QED
    BY <2>1, <2>2
<1>5. At(x, k).kind # "end"
  <2>1. CASE k <= Len(x)
    <3>1. k \in DOMAIN x /\ At(x, k) = x[k]
      BY <1>1, <1>2, <2>1, AtIs
    <3>2. x[k].kind \in {"lit", "var", "rest"}
      BY <3>1, FitsFacts
    <3> QED
      BY <3>1, <3>2
  <2>2. CASE ~(k <= Len(x))
    <3>1. x[Len(x)].kind = "rest"
      BY <1>1, <1>2, <1>3, <2>2
    <3>2. At(x, k).kind = "rest"
      BY <1>1, <1>2, <2>2, <3>1, AtIs
    <3> QED
      BY <3>2
  <2> QED
    BY <2>1, <2>2
<1>6. At(q, k).kind = "lit" /\ At(x, k).kind = "lit" /\ At(q, k) # At(x, k)
  BY <1>4, <1>5
<1>7. k \in DOMAIN q /\ At(q, k) = q[k] /\ k \in DOMAIN x /\ At(x, k) = x[k]
  <2>1. k <= Len(q)
    <3>1. ASSUME ~(k <= Len(q)) PROVE FALSE
      <4>1. At(q, k).kind = "rest" \/ At(q, k).kind = "end"
        BY <1>1, <1>2, <3>1, AtIs
      <4> QED
        BY <1>6, <4>1
    <3> QED
      BY <3>1
  <2>2. k <= Len(x)
    <3>1. ASSUME ~(k <= Len(x)) PROVE FALSE
      <4>1. At(x, k).kind = "rest" \/ At(x, k).kind = "end"
        BY <1>1, <1>2, <3>1, AtIs
      <4> QED
        BY <1>6, <4>1
    <3> QED
      BY <3>1
  <2> QED
    BY <1>1, <1>2, <2>1, <2>2, AtIs
<1>8. q[k].kind = "lit" /\ x[k].kind = "lit" /\ q[k] # x[k]
  BY <1>6, <1>7
<1>9. q[k].text = x[k].text /\ q[k].tail = x[k].tail
  <2>1. sent[k].lit = q[k].text /\ sent[k].verb = q[k].tail
    BY <1>7, <1>8, FitsFacts
  <2>2. sent[k].lit = x[k].text /\ sent[k].verb = x[k].tail
    BY <1>7, <1>8, FitsFacts
  <2> QED
    BY <2>1, <2>2
<1>10. \A y, z \in SegSet : y.kind = "lit" /\ z.kind = "lit" /\ y.text = z.text /\ y.tail = z.tail => y = z
  <2> SUFFICES ASSUME NEW y \in SegSet, NEW z \in SegSet,
                      y.kind = z.kind, y.kind = "lit", y.text = z.text, y.tail = z.tail
               PROVE  y = z
    OBVIOUS
  <2>1. y.hidden = z.hidden
    BY SegFields
  <2>2. \A e \in SegSet : e = [kind |-> e.kind, text |-> e.text, tail |-> e.tail, hidden |-> e.hidden]
    <3>1. ASSUME NEW A, NEW B, NEW C, NEW D, NEW e \in [kind : A, text : B, tail : C, hidden : D]
          PROVE  e = [kind |-> e.kind, text |-> e.text, tail |-> e.tail, hidden |-> e.hidden]
      OBVIOUS
    <3>2. \A e \in SegSet : e \in SegRecords
      BY DEF SegSet
    <3> QED
      BY <3>1, <3>2, Zenon DEF SegRecords
  <2>3. y = [kind |-> y.kind, text |-> y.text, tail |-> y.tail, hidden |-> y.hidden]
    BY <2>2, Zenon
  <2>4. z = [kind |-> y.kind, text |-> y.text, tail |-> y.tail, hidden |-> y.hidden]
    BY <2>1, <2>2, Zenon
  <2> QED
    BY <2>3, <2>4, Zenon
<1>11. q[k] \in SegSet /\ x[k] \in SegSet
  BY <1>1, <1>7
<1> QED
  BY <1>8, <1>9, <1>10, <1>11

\* None that fits is more specific than a pattern without a rest-of-path wildcard
\* whose wildcards hold values.
LEMMA NoneCloser ==
    ASSUME NEW q, NEW x, NEW sent \in Seq(SentSet), Fits(q, sent), Fits(x, sent),
           q[Len(q)].kind # "rest", RestAtEnd(q),
           \A k \in DOMAIN q : q[k].kind = "var" => sent[k].lit = <<>>
    PROVE  ~MoreSpecific(x, q)
<1> SUFFICES ASSUME NEW k \in Longer(x, q), Width(At(x, k)) < Width(At(q, k)) PROVE FALSE
  BY DEF MoreSpecific
<1>1. /\ q \in Seq(SegSet) /\ q # <<>> /\ x \in Seq(SegSet) /\ x # <<>>
      /\ Len(q) \in Nat /\ Len(x) \in Nat /\ Len(sent) \in Nat
      /\ Len(x) <= Len(sent) /\ Len(sent) = Len(q)
      /\ x[Len(x)].kind # "rest" => Len(sent) = Len(x)
  BY FitsFacts
<1>2. k \in Nat \ {0} /\ (k <= Len(x) \/ k <= Len(q))
  BY <1>1, LongerIs
<1>3. k <= Len(q)
  BY <1>1, <1>2
<1>4. k \in DOMAIN q /\ At(q, k) = q[k]
  BY <1>1, <1>2, <1>3, AtIs
<1>5. q[k].kind \in {"lit", "var"}
  <2>1. q[k].kind \in {"lit", "var", "rest"}
    BY <1>4, FitsFacts
  <2>2. q[k].kind # "rest"
    BY <1>4 DEF RestAtEnd
  <2> QED
    BY <2>1, <2>2
<1>6. Width(At(q, k)) <= 2 /\ (q[k].kind = "lit" => Width(At(q, k)) = 1)
  BY <1>4, <1>5, WidthIs
<1>7. CASE k <= Len(x)
  <2>1. k \in DOMAIN x /\ At(x, k) = x[k]
    BY <1>1, <1>2, <1>7, AtIs
  <2>2. x[k].kind \in {"lit", "var", "rest"} /\ x[k].text \in VarTexts
        /\ (x[k].kind = "lit" => sent[k].lit = x[k].text)
    BY <2>1, FitsFacts
  <2>3. Width(At(x, k)) >= 1 /\ (x[k].kind # "lit" => Width(At(x, k)) >= 2)
    BY <2>1, <2>2, WidthIs
  <2>4. x[k].kind = "lit" /\ q[k].kind = "var"
    <3>1. x[k].kind = "lit"
      <4>1. ASSUME x[k].kind # "lit" PROVE FALSE
        <5>1. x[k].kind = "var" \/ x[k].kind = "rest"
          BY <2>2, <4>1
        <5>2. Width(At(x, k)) = 2 \/ Width(At(x, k)) = 3
          BY <2>1, <5>1, WidthIs
        <5>3. Width(At(q, k)) = 1 \/ Width(At(q, k)) = 2
          BY <1>4, <1>5, WidthIs
        <5>4. Width(At(x, k)) < Width(At(q, k))
          OBVIOUS
        <5> QED
          BY <5>2, <5>3, <5>4
      <4> QED
        BY <4>1
    <3>2. q[k].kind # "lit"
      <4>1. ASSUME q[k].kind = "lit" PROVE FALSE
        <5>1. Width(At(x, k)) = 1
          BY <2>1, <3>1, WidthIs
        <5>2. Width(At(q, k)) = 1
          BY <1>4, <4>1, WidthIs
        <5> QED
          BY <5>1, <5>2
      <4> QED
        BY <4>1
    <3> QED
      BY <1>5, <3>1, <3>2
  <2>5. sent[k].lit = <<>> /\ sent[k].lit = x[k].text
    BY <1>4, <2>2, <2>4
  <2> QED
    BY <2>2, <2>5, TextsAreNot
<1>8. CASE ~(k <= Len(x))
  <2>1. x[Len(x)].kind = "rest"
    BY <1>1, <1>3, <1>8
  <2>2. At(x, k).kind = "rest"
    BY <1>1, <1>2, <1>8, <2>1, AtIs
  <2>3. Width(At(x, k)) = 3
    BY <2>2, WidthIs
  <2> QED
    BY <1>4, <1>5, <2>3, WidthIs
<1> QED
  BY <1>7, <1>8

\* The pattern that is registered for a group.
LEMMA GroupPattern ==
    ASSUME ReachInv, phase = "serving", StreamsArePosted, NEW g \in DOMAIN mux
    PROVE  /\ g \in DOMAIN groups /\ mux[g] = PairOf(groups[g])
           /\ mux[g].path = groups[g].path /\ mux[g].method = groups[g].method
           /\ mux[g].path \in Seq(SegSet) /\ mux[g].path # <<>> /\ Well(mux[g].path)
           /\ \E j \in DOMAIN service :
                Usable(service[j]) /\ service[j].http = mux[g].method /\ PathAt(j) = mux[g].path
<1>1. RouteInv /\ Accepted /\ phase \in Later
  BY DEF ReachInv, Later
<1>2. g \in DOMAIN groups /\ mux[g] = PairOf(groups[g])
  BY <1>1, MuxFacts
<1>3. mux[g].path = groups[g].path /\ mux[g].method = RegisteredMethod(groups[g])
  BY <1>2 DEF PairOf
<1>4. mux[g].method = groups[g].method
  BY <1>1, <1>2, <1>3, GroupMethod
<1>5. groups[g].path \in Seq(SegSet) /\ groups[g].path # <<>>
  <2>1. GroupOf(groups[g]) /\ Grouped = Len(routes) /\ DOMAIN routes = 1 .. Len(routes)
    BY <1>1, <1>2, GroupFacts
  <2>2. NameOwner(groups[g]) \in DOMAIN routes /\ groups[g].path = routes[NameOwner(groups[g])].path
    BY <2>1 DEF GroupOf
  <2> QED
    BY <1>1, <2>2, RoutePath
<1>6. Well(mux[g].path)
  BY <1>1, Zenon DEF Accepted, Malformed, Well
<1>7. \E j \in DOMAIN service :
        Usable(service[j]) /\ service[j].http = groups[g].method /\ PathAt(j) = groups[g].path
  BY <1>1, <1>2, GroupPath
<1> QED
  BY <1>2, <1>3, <1>4, <1>5, <1>6, <1>7

\* No registered pattern that matches is more specific than the route's.
LEMMA HomeIsClosest ==
    ASSUME ReachInv, phase = "serving", StreamsArePosted, VerbsBehindWildcards, RestIsFree,
           NEW r \in DOMAIN routes, NEW h, HomeAt(r, h),
           NEW g \in Candidates(routes[r].method, ClientPath(r))
    PROVE  /\ Fits(mux[g].path, ClientPath(r)) /\ ClientPath(r) \in Seq(SentSet)
           /\ ~MoreSpecific(mux[g].path, mux[h].path)
<1>1. RouteInv
  BY DEF ReachInv
<1>2. PICK k \in DOMAIN service :
         /\ Usable(service[k]) /\ routes[r].path = PathAt(k)
         /\ routes[r].method = service[k].http
         /\ PathAt(k) \in Seq(SegSet) /\ PathAt(k) # <<>>
  BY <1>1, RouteOf
<1>p. PICK p : p = PathAt(k)
  OBVIOUS
<1>q. PICK q : q = mux[h].path
  OBVIOUS
<1>x. PICK x : x = mux[g].path
  OBVIOUS
<1>s. PICK sent : sent = ClientPath(r)
  OBVIOUS
<1>3. Carries(p, routes[r].verb, sent)
  BY <1>2, <1>p, <1>s, ClientCarries
<1>4. sent \in Seq(SentSet) /\ Len(sent) = Len(p) + Len(p[Len(p)].hidden)
  BY <1>3, Zenon DEF Carries
<1>5. h \in Candidates(routes[r].method, sent)
  BY <1>s, HomeIsCandidate
<1>6. /\ h \in DOMAIN mux /\ MatchesPath(q, sent)
      /\ g \in DOMAIN mux /\ MatchesPath(x, sent) /\ mux[g].method = routes[r].method
  BY <1>5, <1>q, <1>s, <1>x DEF Candidates
<1>7. /\ q \in Seq(SegSet) /\ q # <<>> /\ Well(q)
      /\ x \in Seq(SegSet) /\ x # <<>> /\ Well(x)
  BY <1>6, <1>q, <1>x, GroupPattern
<1>8. Fits(q, sent) /\ Fits(x, sent)
  BY <1>6, <1>7, Zenon DEF Fits
<1>9. p \in Seq(SegSet) /\ p # <<>> /\ Normalize(p) = Normalize(q)
  BY <1>2, <1>p, <1>q DEF HomeAt
<1>10. /\ DOMAIN p = DOMAIN q /\ Len(p) = Len(q) /\ Len(p) \in DOMAIN p
       /\ \A j \in DOMAIN p : p[j].kind = q[j].kind
  BY <1>7, <1>9, SameShape
<1>11. ASSUME q[Len(q)].kind # "rest" PROVE ~MoreSpecific(x, q)
  <2>1. RestAtEnd(q)
    <3>1. RestAtEnd(p)
      BY <1>2, <1>p DEF HomeAt
    <3> QED
      BY <1>10, <3>1 DEF RestAtEnd
  <2>2. \A j \in DOMAIN q : q[j].kind = "var" => sent[j].lit = <<>>
    <3>1. \A j \in DOMAIN p : p[j].kind = "var" => j \in Wildcards(p)
      BY DEF Wildcards
    <3>2. \A j \in DOMAIN p : j \in Wildcards(p) => sent[j].lit = <<>>
      BY <1>3, Zenon DEF Carries
    <3> QED
      BY <1>10, <3>1, <3>2
  <2> QED
    BY <1>4, <1>8, <1>11, <2>1, <2>2, NoneCloser
<1>12. ASSUME q[Len(q)].kind = "rest", MoreSpecific(x, q) PROVE FALSE
  <2>1. PICK j \in DOMAIN service :
           Usable(service[j]) /\ service[j].http = routes[r].method /\ PathAt(j) = x
    BY <1>6, <1>x, GroupPattern
  <2>2. MoreSpecific(x, p)
    BY <1>7, <1>9, <1>12, MoreAlike
  <2>3. p[Len(p)].kind = "rest"
    BY <1>10, <1>12
  <2>4. ~HasLength(x, Len(p) + Len(p[Len(p)].hidden))
    BY <1>2, <1>p, <2>1, <2>2, <2>3 DEF RestIsFree
  <2>5. HasLength(x, Len(sent))
    BY <1>6 DEF MatchesPath, HasLength
  <2> QED
    BY <1>4, <2>4, <2>5
<1> QED
  BY <1>4, <1>8, <1>11, <1>12, <1>q, <1>s, <1>x

\* The request goes to the pattern of the route's group.
LEMMA HomeIsBest ==
    ASSUME ReachInv, phase = "serving", StreamsArePosted, VerbsBehindWildcards, RestIsFree,
           NEW r \in DOMAIN routes, NEW h, HomeAt(r, h)
    PROVE  BestMatches(ClientMethod(r), ClientPath(r)) = {h}
<1> DEFINE C == Candidates(routes[r].method, ClientPath(r))
           M(j, k) == MoreSpecific(mux[j].path, mux[k].path)
<1>1. RouteInv /\ Accepted
  BY DEF ReachInv
<1>2. ClientMethod(r) = routes[r].method
  BY <1>1, ClientMethodIs
<1>3. h \in C
  BY HomeIsCandidate
<1>4. \A g \in C : Fits(mux[g].path, ClientPath(r)) /\ ClientPath(r) \in Seq(SentSet) /\ ~M(g, h)
  BY HomeIsClosest
<1>5. C \subseteq DOMAIN mux /\ \A g \in C : mux[g].method = routes[r].method
  BY DEF Candidates
<1>6. DOMAIN mux = 1 .. Len(groups) /\ Len(groups) \in Nat
  BY <1>1, MuxFacts
<1> HIDE DEF C
<1>7. ASSUME NEW g \in C, g # h PROVE M(h, g)
  <2>1. ~Disjoint(mux[g].path, mux[h].path) /\ ~Disjoint(mux[h].path, mux[g].path)
    BY <1>3, <1>4, BothFit
  <2>2. g < h \/ h < g
    <3>1. g \in Nat /\ h \in Nat
      BY <1>3, <1>5, <1>6
    <3> QED
      BY <1>7, <3>1
  <2>3. ~Conflicts(mux[g].path, mux[h].path) \/ ~Conflicts(mux[h].path, mux[g].path)
    <3>1. g \in DOMAIN mux /\ h \in DOMAIN mux /\ mux[g].method = mux[h].method
      BY <1>3, <1>5
    <3> QED
      BY <1>1, <2>2, <3>1, Zenon DEF Accepted
  <2>4. M(g, h) \/ M(h, g)
    BY <2>1, <2>3, Zenon DEF Conflicts
  <2> QED
    BY <1>4, <2>4
<1>8. BestMatches(routes[r].method, ClientPath(r)) = {k \in C : \A j \in C \ {k} : M(k, j)}
  BY Zenon DEF BestMatches, C
<1>9. ~M(h, h) /\ \A g \in C : ~M(g, h)
  BY <1>3, <1>4
<1> HIDE DEF M
<1>10. {k \in C : \A j \in C \ {k} : M(k, j)} = {h}
  BY <1>3, <1>7, <1>9
<1> QED
  BY <1>2, <1>8, <1>10

-----------------------------------------------------------------------------
\* What is read of a request, and who reads it.

\* The value of a wildcard of the registered pattern: the client's for the
\* variable of that rank, and the verb behind the last segment.
ValueOf(q, k, v) == [id |-> NthOf(Wildcards(q), k), verb |-> IF k = Len(q) THEN v ELSE ""]

LEMMA ValueAt ==
    ASSUME NEW p \in Seq(SegSet), p # <<>>, NEW q \in Seq(SegSet), Normalize(p) = Normalize(q),
           RestAtEnd(p), ~Malformed(q), NEW v, NEW sent, Carries(p, v, sent),
           NEW k \in Wildcards(q)
    PROVE  PathValue(q, sent, q[k].text) = ValueOf(q, k, v)
<1>1. /\ DOMAIN p = DOMAIN q /\ Len(p) = Len(q) /\ Wildcards(p) = Wildcards(q)
      /\ \A j \in DOMAIN p : p[j].kind = q[j].kind
  BY SameShape
<1>n. PICK n \in Nat \ {0} : n = Len(p) /\ DOMAIN p = 1 .. n /\ n \in DOMAIN p
  <2>1. Len(p) \in Nat \ {0} /\ DOMAIN p = 1 .. Len(p) /\ Len(p) \in DOMAIN p
    OBVIOUS
  <2> QED
    BY <2>1
<1>m. PICK m \in Nat : m = Len(p[n].hidden) /\ (p[n].kind # "rest" => m = 0)
  <2>1. p[n] \in SegSet
    BY <1>n
  <2>2. p[n].hidden \in Seq(STRING) /\ (p[n].kind # "rest" => p[n].hidden = <<>>)
    BY <2>1, SegFields
  <2>3. Len(p[n].hidden) \in Nat /\ (p[n].kind # "rest" => Len(p[n].hidden) = 0)
    BY <2>2
  <2> QED
    BY <2>3
<1>2. k \in DOMAIN p /\ k \in 1 .. n /\ k \in Wildcards(p) /\ p[k].kind \in {"var", "rest"}
  <2>1. k \in DOMAIN q /\ q[k].kind \in {"var", "rest"}
    BY DEF Wildcards
  <2> QED
    BY <1>1, <1>n, <2>1
<1>3. {j \in Wildcards(q) : q[j].text = q[k].text} = {k}
  BY DEF Malformed
<1>4. /\ Len(sent) = n + m
      /\ sent[k].id = NthOf(Wildcards(p), k) /\ sent[k].verb = IF k = Len(sent) THEN v ELSE ""
      /\ p[n].kind # "lit" => sent[Len(sent)].verb = v
  BY <1>2, <1>n, <1>m, Zenon DEF Carries
<1> DEFINE last == IF q[k].kind = "rest" THEN Len(sent) ELSE k
<1>5. PathValue(q, sent, q[k].text) = [id |-> sent[k].id, verb |-> sent[last].verb]
  <2>1. (CHOOSE j \in {k} : TRUE) = k
    OBVIOUS
  <2> QED
    BY <1>3, <2>1 DEF PathValue
<1>6. sent[last].verb = IF k = n THEN v ELSE ""
  <2>1. CASE k = n /\ p[k].kind = "rest"
    <3>1. last = Len(sent)
      BY <1>1, <1>2, <2>1
    <3> QED
      BY <1>4, <2>1, <3>1
  <2>2. CASE k = n /\ p[k].kind # "rest"
    <3>1. last = k /\ m = 0
      BY <1>1, <1>2, <1>m, <2>2
    <3>2. n + 0 = n
      OBVIOUS
    <3> QED
      BY <1>4, <2>2, <3>1, <3>2
  <2>3. CASE k # n
    <3>1. p[k].kind # "rest"
      BY <1>2, <1>n, <2>3 DEF RestAtEnd
    <3>2. last = k
      BY <1>1, <1>2, <3>1
    <3>3. k # n + m
      BY <1>2, <2>3
    <3> QED
      BY <1>4, <2>3, <3>2, <3>3
  <2> QED
    BY <2>1, <2>2, <2>3
<1> HIDE DEF last
<1> QED
  BY <1>1, <1>4, <1>5, <1>6, <1>n DEF ValueOf

\* A group has no two routes of one verb.
LEMMA SameRoute ==
    ASSUME RouteInv, RoutesDiffer, NEW q \in DOMAIN routes, NEW r \in DOMAIN routes,
           Key(routes[q]) = Key(routes[r]), routes[q].verb = routes[r].verb
    PROVE  q = r
<1>1. PICK j \in DOMAIN service :
         /\ Usable(service[j]) /\ routes[q].path = PathAt(j) /\ routes[q].verb = VerbAt(j)
         /\ routes[q].method = service[j].http /\ routes[q].rpc = service[j].rpc
  BY RouteOf
<1>2. PICK k \in DOMAIN service :
         /\ Usable(service[k]) /\ routes[r].path = PathAt(k) /\ routes[r].verb = VerbAt(k)
         /\ routes[r].method = service[k].http /\ routes[r].rpc = service[k].rpc
  BY RouteOf
<1>3. routes[q].method = routes[r].method /\ Normalize(routes[q].path) = Normalize(routes[r].path)
  BY DEF Key
<1>4. j = k
  BY <1>1, <1>2, <1>3 DEF RoutesDiffer
<1> QED
  BY <1>1, <1>2, <1>4 DEF RouteInv, RoutesInv

\* The group of a route, and the names its members read.
LEMMA HomeGroup ==
    ASSUME ReachInv, phase = "serving", RoutesDiffer, NEW r \in DOMAIN routes, NEW h, HomeAt(r, h)
    PROVE  /\ h \in DOMAIN groups /\ Members(groups[h]) \subseteq DOMAIN routes
           /\ groups[h].verbs \in Seq(Nat)
           /\ \A k \in DOMAIN groups[h].verbs : routes[groups[h].verbs[k]].verb # ""
           /\ \A q \in Members(groups[h]) :
                /\ routes[q].verb = routes[r].verb => q = r
                /\ names[q] \in Seq(VarTexts) /\ Named(mux[h].path, names[q])
           /\ routes[r].verb = "" => groups[h].base = r
           /\ routes[r].verb # "" => \E k \in DOMAIN groups[h].verbs : groups[h].verbs[k] = r
           /\ r \in Members(groups[h])
<1>1. RouteInv /\ AlignedInv /\ Accepted /\ phase \in Later
  BY DEF ReachInv, Later
<1>2. /\ h \in DOMAIN mux /\ h \in DOMAIN groups /\ Holds(groups[h], r)
      /\ mux[h].path = groups[h].path
  BY DEF HomeAt
<1>3. /\ groups[h] \in GroupSet /\ GroupOf(groups[h]) /\ Grouped = Len(routes)
      /\ DOMAIN routes = 1 .. Len(routes) /\ DOMAIN groups = 1 .. Len(groups)
  BY <1>1, <1>2, GroupFacts
<1>4. /\ Members(groups[h]) \subseteq DOMAIN routes
      /\ \A q \in Members(groups[h]) : Key(routes[q]) = groups[h].key
      /\ groups[h].base # 0 => routes[groups[h].base].verb = ""
      /\ \A k \in DOMAIN groups[h].verbs : routes[groups[h].verbs[k]].verb # ""
  BY <1>3, Zenon DEF GroupOf
<1>5. groups[h].verbs \in Seq(Nat)
  BY <1>3 DEF GroupSet
<1>6. groups[h].key = Key(routes[r])
  BY <1>2 DEF Holds
<1>7. \A q \in Members(groups[h]) : routes[q].verb = routes[r].verb => q = r
  BY <1>1, <1>4, <1>6, SameRoute
<1>8. ASSUME routes[r].verb = "" PROVE groups[h].base = r
  <2>1. groups[h].base # 0
    BY <1>2, <1>8 DEF Holds
  <2>2. groups[h].base \in Members(groups[h])
    BY <2>1 DEF Members
  <2> QED
    BY <1>4, <1>7, <1>8, <2>1, <2>2
<1>9. routes[r].verb # "" => \E k \in DOMAIN groups[h].verbs : groups[h].verbs[k] = r
  BY <1>2 DEF Holds
<1>10. r \in Members(groups[h])
  <2>1. r # 0
    BY <1>3
  <2> QED
    BY <1>8, <1>9, <2>1 DEF Members
<1>11. \A q \in Members(groups[h]) : names[q] \in Seq(VarTexts) /\ Named(mux[h].path, names[q])
  <2>1. Remapped = Len(groups)
    BY DEF Remapped
  <2>2. \A q \in Members(groups[h]) : Aligned(groups[h].path, names[q])
    BY <1>1, <1>2, <1>3, <2>1 DEF AlignedInv
  <2>3. Well(groups[h].path)
    BY <1>1, <1>2, Zenon DEF Accepted, Malformed, Well
  <2> QED
    BY <1>2, <2>2, <2>3, Zenon DEF Aligned
<1> QED
  BY <1>2, <1>4, <1>5, <1>7, <1>8, <1>9, <1>10, <1>11, Zenon

\* The dispatcher looks at the last variable of a route with variables.
LEMMA DispatchedIs ==
    ASSUME NEW g, g.verbs \in Seq(Nat), g.verbs # <<>>
    PROVE  \E q \in Members(g) :
             DispatchedVar(g) = IF names[q] = <<>> THEN <<>> ELSE names[q][Len(names[q])]
<1> DEFINE owner == IF g.base # 0 /\ names[g.base] # <<>> THEN g.base ELSE g.verbs[1]
<1>1. 1 \in DOMAIN g.verbs
  OBVIOUS
<1>2. owner \in Members(g)
  BY <1>1 DEF Members
<1>3. DispatchedVar(g) = IF names[owner] = <<>> THEN <<>> ELSE names[owner][Len(names[owner])]
  BY Zenon DEF DispatchedVar
<1> HIDE DEF owner
<1> QED
  BY <1>2, <1>3, Zenon

\* The dispatcher of the group hands the request to the route.
LEMMA DispatchHome ==
    ASSUME ReachInv, phase = "serving", StreamsArePosted, VerbsBehindWildcards, RoutesDiffer,
           NEW r \in DOMAIN routes, NEW h, HomeAt(r, h), groups[h].verbs # <<>>
    PROVE  Dispatch(groups[h], mux[h].path, ClientPath(r)) = r
<1>g. PICK g : g = groups[h]
  OBVIOUS
<1>p. PICK p : p = routes[r].path
  OBVIOUS
<1>q. PICK q : q = mux[h].path
  OBVIOUS
<1>s. PICK sent : sent = ClientPath(r)
  OBVIOUS
<1>v. PICK v : v = routes[r].verb
  OBVIOUS
<1>0. RouteInv /\ Accepted /\ h \in DOMAIN mux
  BY DEF ReachInv, HomeAt
<1>1. /\ p \in Seq(SegSet) /\ p # <<>> /\ q \in Seq(SegSet) /\ q # <<>>
      /\ Normalize(p) = Normalize(q) /\ RestAtEnd(p) /\ Well(q) /\ ~Malformed(q)
  <2>1. routes[r].path \in Seq(SegSet) /\ routes[r].path # <<>>
    BY <1>0, RoutePath
  <2>2. ~Malformed(q)
    BY <1>0, <1>q DEF Accepted
  <2>3. Well(q)
    BY <2>2, Zenon DEF Malformed, Well
  <2> QED
    BY <1>p, <1>q, <2>1, <2>2, <2>3, Zenon DEF HomeAt
<1>2. Carries(p, v, sent)
  BY <1>p, <1>s, <1>v, ClientCarries
<1>3. /\ g.verbs \in Seq(Nat) /\ g.verbs # <<>>
      /\ \A k \in DOMAIN g.verbs : routes[g.verbs[k]].verb # "" /\ g.verbs[k] \in Members(g)
      /\ \A x \in Members(g) :
           /\ routes[x].verb = v => x = r
           /\ names[x] \in Seq(VarTexts) /\ Named(q, names[x])
      /\ v = "" => g.base = r
      /\ v # "" => \E k \in DOMAIN g.verbs : g.verbs[k] = r
  <2>1. \A k \in DOMAIN g.verbs : g.verbs[k] \in Members(g)
    BY DEF Members
  <2>2. /\ groups[h].verbs \in Seq(Nat)
        /\ routes[r].verb = "" => groups[h].base = r
        /\ routes[r].verb # "" => \E k \in DOMAIN groups[h].verbs : groups[h].verbs[k] = r
    BY HomeGroup
  <2>3. \A k \in DOMAIN groups[h].verbs : routes[groups[h].verbs[k]].verb # ""
    <3>1. h \in DOMAIN groups /\ phase \in Later
      BY DEF HomeAt, Later
    <3>2. GroupOf(groups[h])
      BY <1>0, <3>1, GroupFacts
    <3> QED
      BY <3>2, Zenon DEF GroupOf
  <2>4. \A x \in Members(groups[h]) :
           /\ routes[x].verb = routes[r].verb => x = r
           /\ names[x] \in Seq(VarTexts) /\ Named(mux[h].path, names[x])
    BY HomeGroup
  <2> QED
    BY <1>g, <1>q, <1>v, <2>1, <2>2, <2>3, <2>4, Zenon
<1>4. v # "" => q[Len(q)].kind # "lit"
  <2>1. PICK k \in DOMAIN service :
           /\ Usable(service[k]) /\ routes[r].path = PathAt(k) /\ routes[r].verb = VerbAt(k)
    BY <1>0, RouteOf
  <2>2. v # "" => p[Len(p)].kind # "lit"
    BY <1>p, <1>v, <2>1 DEF VerbAt, VerbsBehindWildcards
  <2>3. Len(p) = Len(q) /\ Len(p) \in DOMAIN p /\ p[Len(p)].kind = q[Len(p)].kind
    BY <1>1, SameShape
  <2> QED
    BY <2>2, <2>3
<1>5. PICK x \in Members(g) :
        DispatchedVar(g) = IF names[x] = <<>> THEN <<>> ELSE names[x][Len(names[x])]
  BY <1>3, DispatchedIs
<1>6. /\ Wildcards(q) = {} <=> names[x] = <<>>
      /\ names[x] # <<>> =>
           \E k \in Wildcards(q) :
             /\ names[x][Len(names[x])] = q[k].text /\ q[k].text # <<>>
             /\ q[Len(q)].kind # "lit" => k = Len(q)
  <2>1. names[x] \in Seq(VarTexts) /\ Named(q, names[x])
    BY <1>3
  <2> QED
    BY <1>1, <2>1, LastName
<1> DEFINE verb == PathValue(q, sent, DispatchedVar(g)).verb
           cases == {k \in DOMAIN g.verbs : routes[g.verbs[k]].verb = verb}
<1>7. Dispatch(g, q, sent) = IF DispatchedVar(g) = <<>> \/ cases = {} THEN g.base
                             ELSE g.verbs[CHOOSE k \in cases : \A j \in cases : k <= j]
  BY Zenon DEF Dispatch
<1> HIDE DEF cases, verb
<1>8. CASE names[x] = <<>>
  <2>1. DispatchedVar(g) = <<>>
    BY <1>5, <1>8
  <2>2. v = ""
    <3>1. ASSUME v # "" PROVE FALSE
      <4>1. Len(q) \in DOMAIN q
        BY <1>1
      <4>2. q[Len(q)] \in SegSet /\ q[Len(q)].kind # "bad"
        BY <1>1, <4>1 DEF Well
      <4>3. q[Len(q)].kind \in {"var", "rest"}
        BY <1>4, <3>1, <4>2, SegFields
      <4>4. Len(q) \in Wildcards(q)
        BY <4>1, <4>3 DEF Wildcards
      <4> QED
        BY <1>6, <1>8, <4>4
    <3> QED
      BY <3>1
  <2> QED
    BY <1>3, <1>7, <2>1, <2>2, <1>g, <1>q, <1>s
<1>9. CASE names[x] # <<>>
  <2>1. PICK k \in Wildcards(q) :
           /\ names[x][Len(names[x])] = q[k].text /\ q[k].text # <<>>
           /\ q[Len(q)].kind # "lit" => k = Len(q)
    BY <1>6, <1>9
  <2>2. DispatchedVar(g) = q[k].text /\ DispatchedVar(g) # <<>>
    BY <1>5, <1>9, <2>1
  <2>3. PathValue(q, sent, q[k].text) = ValueOf(q, k, v)
    BY <1>1, <1>2, ValueAt
  <2>4. verb = IF k = Len(q) THEN v ELSE ""
    <3>1. ValueOf(q, k, v).verb = IF k = Len(q) THEN v ELSE ""
      BY DEF ValueOf
    <3>2. verb = PathValue(q, sent, q[k].text).verb
      BY <2>2, Zenon DEF verb
    <3> QED
      BY <2>3, <3>1, <3>2, Zenon
  <2>5. verb = v
    BY <1>4, <2>1, <2>4
  <2>6. CASE v = ""
    <3>1. cases = {}
      BY <1>3, <2>5, <2>6 DEF cases
    <3> QED
      BY <1>3, <1>7, <2>6, <3>1, <1>g, <1>q, <1>s
  <2>7. CASE v # ""
    <3>1. cases # {} /\ \A j \in cases : g.verbs[j] = r /\ j \in DOMAIN g.verbs
      <4>1. cases = {j \in DOMAIN g.verbs : routes[g.verbs[j]].verb = v}
        BY <2>5, Zenon DEF cases
      <4>2. PICK j \in DOMAIN g.verbs : g.verbs[j] = r
        BY <1>3, <2>7
      <4>3. j \in cases
        BY <1>v, <4>1, <4>2
      <4>4. \A l \in cases : l \in DOMAIN g.verbs /\ g.verbs[l] = r
        BY <1>3, <4>1
      <4> HIDE DEF cases
      <4> QED
        BY <4>3, <4>4, Zenon
    <3>2. DOMAIN g.verbs \subseteq Nat
      <4>1. \A s \in Seq(Nat) : DOMAIN s \subseteq Nat
        OBVIOUS
      <4> QED
        BY <1>3, <4>1, Zenon
    <3>3. \E j \in cases : \A l \in cases : j <= l
      <4>1. cases \subseteq Nat /\ cases \in SUBSET Nat
        BY <3>1, <3>2
      <4>2. PICK j \in cases : \A l \in cases : ~(<<l, j>> \in OpToRel(<, Nat))
        BY <3>1, <4>1, NatLessThanWellFounded, WFMin
      <4>3. j \in Nat /\ \A l \in cases : l \in Nat /\ ~(l < j)
        BY <4>1, <4>2 DEF OpToRel
      <4> QED
        BY <4>3
    <3>4. (CHOOSE j \in cases : \A l \in cases : j <= l) \in cases
      BY <3>3
    <3>5. Dispatch(g, q, sent) = g.verbs[CHOOSE j \in cases : \A l \in cases : j <= l]
      BY <1>7, <2>2, <3>1
    <3> QED
      BY <3>1, <3>4, <3>5, <1>g, <1>q, <1>s
  <2> QED
    BY <2>6, <2>7
<1> QED
  BY <1>8, <1>9

\* The function of the registered pair is the group's dispatcher or, without
\* verbs, the route's own handler.
LEMMA HandledHome ==
    ASSUME ReachInv, phase = "serving", StreamsArePosted, VerbsBehindWildcards, RoutesDiffer,
           NEW r \in DOMAIN routes, NEW h, HomeAt(r, h)
    PROVE  Handling(mux[h], ClientPath(r)) = r
<1> DEFINE sent == ClientPath(r)
           dispatchers == {x \in DOMAIN groups :
                             groups[x].verbs # <<>> /\ DispatcherDefined(groups[x]) = mux[h].func}
<1>1. RouteInv /\ CompiledInv /\ phase \in Later
  BY DEF ReachInv, Later
<1>2. /\ \A q, x \in DOMAIN routes : HandlerFuncName(q) = HandlerFuncName(x) => q = x
      /\ \A g, x \in Dispatching :
           DispatcherDefined(groups[g]) = DispatcherDefined(groups[x]) => g = x
  <2>1. IsInjective(funcs)
    BY <1>1 DEF CompiledInv, Compiled
  <2> QED
    BY <1>1, <2>1, FuncsAre
<1>3. h \in DOMAIN groups /\ mux[h] = PairOf(groups[h]) /\ mux[h].path = groups[h].path
  BY DEF HomeAt
<1>4. mux[h].func = IF groups[h].verbs = <<>> THEN HandlerFuncName(groups[h].base)
                    ELSE DispatcherDefined(groups[h])
  <2>1. RegisteredMethod(groups[h]) = groups[h].method
    BY <1>1, <1>3, GroupMethod
  <2> QED
    BY <1>3, <2>1 DEF PairOf, DispatcherDefined
<1>5. \A x : Handling(mux[h], x) =
        IF dispatchers # {}
        THEN Dispatch(groups[CHOOSE g \in dispatchers : TRUE], mux[h].path, x)
        ELSE CHOOSE q \in DOMAIN routes : HandlerFuncName(q) = mux[h].func
  BY Zenon DEF Handling
<1>6. CASE groups[h].verbs # <<>>
  <2>1. h \in dispatchers
    BY <1>3, <1>4, <1>6
  <2>2. \A g \in dispatchers : g = h
    <3> SUFFICES ASSUME NEW g \in dispatchers PROVE g = h
      OBVIOUS
    <3>1. g \in Dispatching /\ h \in Dispatching
      BY <1>3, <1>6 DEF Dispatching
    <3>2. DispatcherDefined(groups[g]) = DispatcherDefined(groups[h])
      BY <1>4, <1>6
    <3> QED
      BY <1>2, <3>1, <3>2
  <2> HIDE DEF dispatchers
  <2>3. (CHOOSE g \in dispatchers : TRUE) = h
    BY <2>1, <2>2
  <2>4. Handling(mux[h], sent) = Dispatch(groups[h], mux[h].path, sent)
    BY <1>5, <2>1, <2>3
  <2> QED
    BY <1>6, <2>4, DispatchHome
<1>7. CASE groups[h].verbs = <<>>
  <2>1. dispatchers = {}
    <3> SUFFICES ASSUME NEW g \in dispatchers PROVE FALSE
      OBVIOUS
    <3>1. DispatcherDefined(groups[g]) = HandlerFuncName(groups[h].base)
      BY <1>4, <1>7
    <3>2. Len(DispatcherDefined(groups[g])) = 3 /\ Len(HandlerFuncName(groups[h].base)) = 2
      <4>1. \A a, b, c : Len(<<a, b, c>>) = 3 /\ Len(<<a, b>>) = 2
        OBVIOUS
      <4> QED
        BY <4>1, Zenon DEF DispatcherDefined, DispatcherFuncName, HandlerFuncName
    <3> QED
      BY <3>1, <3>2
  <2>2. groups[h].base = r
    <3>1. /\ routes[r].verb = "" => groups[h].base = r
          /\ routes[r].verb # "" => \E k \in DOMAIN groups[h].verbs : groups[h].verbs[k] = r
      BY HomeGroup
    <3>2. DOMAIN groups[h].verbs = {}
      BY <1>7
    <3> QED
      BY <3>1, <3>2
  <2>3. mux[h].func = HandlerFuncName(r)
    BY <1>4, <1>7, <2>2
  <2>4. (CHOOSE q \in DOMAIN routes : HandlerFuncName(q) = HandlerFuncName(r)) = r
    BY <1>2
  <2> QED
    BY <1>5, <2>1, <2>3, <2>4
<1> QED
  BY <1>6, <1>7

\* The route's handler reads the client's values.
LEMMA ReadHome ==
    ASSUME ReachInv, phase = "serving", StreamsArePosted, VerbsBehindWildcards, RoutesDiffer,
           NEW r \in DOMAIN routes, NEW h, HomeAt(r, h)
    PROVE  ReadBy(r, mux[h].path, ClientPath(r))
             = [j \in DOMAIN names[r] |-> [id |-> j, verb |-> ""]]
<1>p. PICK p : p = routes[r].path
  OBVIOUS
<1>q. PICK q : q = mux[h].path
  OBVIOUS
<1>s. PICK sent : sent = ClientPath(r)
  OBVIOUS
<1>v. PICK v : v = routes[r].verb
  OBVIOUS
<1>0. RouteInv /\ Accepted /\ h \in DOMAIN mux
  BY DEF ReachInv, HomeAt
<1>1. /\ p \in Seq(SegSet) /\ p # <<>> /\ q \in Seq(SegSet)
      /\ Normalize(p) = Normalize(q) /\ RestAtEnd(p) /\ ~Malformed(q)
  <2>1. routes[r].path \in Seq(SegSet) /\ routes[r].path # <<>>
    BY <1>0, RoutePath
  <2>2. ~Malformed(q)
    BY <1>0, <1>q DEF Accepted
  <2> QED
    BY <1>p, <1>q, <2>1, <2>2, Zenon DEF HomeAt
<1>2. Carries(p, v, sent)
  BY <1>p, <1>s, <1>v, ClientCarries
<1>3. names[r] \in Seq(VarTexts) /\ Named(q, names[r])
  BY <1>q, HomeGroup
<1> DEFINE Value(j) == PathValue(q, sent, names[r][j])
<1>4. ASSUME NEW j \in DOMAIN names[r]
      PROVE  \E k : Value(j) = [id |-> j, verb |-> IF k = Len(q) THEN v ELSE ""]
  <2>1. /\ Len(names[r]) = Cardinality(Wildcards(q))
        /\ \A k \in Wildcards(q) : names[r][NthOf(Wildcards(q), k)] = q[k].text
    BY <1>3, Zenon DEF Named
  <2>2. j \in 1 .. Cardinality(Wildcards(q))
    <3>1. DOMAIN names[r] = 1 .. Len(names[r])
      BY <1>3
    <3> QED
      BY <2>1, <3>1
  <2>3. PICK k \in Wildcards(q) : NthOf(Wildcards(q), k) = j
    <3>1. Len(q) \in Nat /\ Below(Wildcards(q), Len(q))
      BY <1>1, WildcardsBelow
    <3> QED
      BY <2>2, <3>1, RanksOnce
  <2>4. names[r][j] = q[k].text
    BY <2>1, <2>3
  <2>5. PathValue(q, sent, q[k].text) = ValueOf(q, k, v)
    BY <1>1, <1>2, ValueAt
  <2> QED
    BY <2>3, <2>4, <2>5, Zenon DEF ValueOf
<1>5. ASSUME NEW j \in DOMAIN names[r]
      PROVE  [Value(j) EXCEPT !.verb = IF @ = v THEN "" ELSE @] = [id |-> j, verb |-> ""]
  <2>1. PICK k : Value(j) = [id |-> j, verb |-> IF k = Len(q) THEN v ELSE ""]
    BY <1>4
  <2> HIDE DEF Value
  <2>2. PICK w : w = IF k = Len(q) THEN v ELSE ""
    OBVIOUS
  <2>3. [[id |-> j, verb |-> w] EXCEPT !.verb = IF @ = v THEN "" ELSE @]
          = [id |-> j, verb |-> IF w = v THEN "" ELSE w]
    <3>1. \A a, b, c : [[id |-> a, verb |-> b] EXCEPT !.verb = c] = [id |-> a, verb |-> c]
      OBVIOUS
    <3>2. \A a, b : [id |-> a, verb |-> b].verb = b
      OBVIOUS
    <3>3. [[id |-> j, verb |-> w] EXCEPT !.verb = IF [id |-> j, verb |-> w].verb = v THEN ""
                                                  ELSE [id |-> j, verb |-> w].verb]
            = [id |-> j, verb |-> IF w = v THEN "" ELSE w]
      BY <3>1, <3>2, Zenon
    <3> QED
      BY <3>3
  <2>4. (IF w = v THEN "" ELSE w) = ""
    BY <2>2
  <2>5. Value(j) = [id |-> j, verb |-> w]
    BY <2>1, <2>2, Zenon
  <2> QED
    BY <2>3, <2>4, <2>5, Zenon
<1>6. ReadBy(r, q, sent)
        = [j \in DOMAIN names[r] |-> [Value(j) EXCEPT !.verb = IF @ = v THEN "" ELSE @]]
  BY <1>v, Zenon DEF ReadBy
<1> HIDE DEF Value
<1> QED
  BY <1>5, <1>6, <1>q, <1>s, Zenon

\* A request that is served is one that reaches its RPC.
LEMMA ServesHome ==
    ASSUME ReachInv, StreamsArePosted, VerbsBehindWildcards, RoutesDiffer, RestIsFree, Serve
    PROVE  RequestsReachTheirMethod'
<1>0. phase = "serving" /\ UNCHANGED <<phase, i, service, routes, names, groups, pairs, funcs, mux>>
  BY DEF Serve
<1>1. PICK r \in DOMAIN routes :
        LET best == BestMatches(ClientMethod(r), ClientPath(r))
        IN /\ request' = r
           /\ IF best = {} THEN served' = Nowhere
              ELSE LET pair == mux[CHOOSE k \in best : TRUE]
                       h == Handling(pair, ClientPath(r))
                   IN served' = IF h = 0 THEN Nowhere
                                ELSE [route |-> h, values |-> ReadBy(h, pair.path, ClientPath(r))]
  BY DEF Serve
<1>2. PICK h : HomeAt(r, h)
  BY <1>0, Home
<1>3. BestMatches(ClientMethod(r), ClientPath(r)) = {h}
  BY <1>0, <1>2, HomeIsBest
<1>4. (CHOOSE k \in {h} : TRUE) = h /\ {h} # {}
  OBVIOUS
<1>5. Handling(mux[h], ClientPath(r)) = r
  BY <1>0, <1>2, HandledHome
<1>6. r # 0
  <2>1. DOMAIN routes = 1 .. Len(routes)
    BY <1>0, GroupFacts DEF ReachInv, Later
  <2> QED
    BY <2>1
<1>7. request' = r /\ served' = [route |-> r, values |-> ReadBy(r, mux[h].path, ClientPath(r))]
  BY <1>1, <1>3, <1>4, <1>5, <1>6, Zenon
<1>8. ReadBy(r, mux[h].path, ClientPath(r)) = [j \in DOMAIN names[r] |-> [id |-> j, verb |-> ""]]
  BY <1>0, <1>2, ReadHome
<1> QED
  BY <1>0, <1>7, <1>8 DEF RequestsReachTheirMethod

\* A request of the generated client reaches its RPC, which reads the values of
\* its path variables, if streaming RPCs are annotated POST, custom verbs follow
\* wildcards, no two RPCs share method, shape and verb, and no RPC with a more
\* specific path takes what another's rest-of-path wildcard holds.
THEOREM RequestsReach ==
    Spec => [](StreamsArePosted /\ VerbsBehindWildcards /\ RoutesDiffer /\ RestIsFree
               => RequestsReachTheirMethod)
<1> DEFINE Ordinary == StreamsArePosted /\ VerbsBehindWildcards /\ RoutesDiffer /\ RestIsFree
           Fine == Ordinary => RequestsReachTheirMethod
<1>1. Init => Fine
  BY DEF Init, RequestsReachTheirMethod
<1>2. ReachInv /\ Fine /\ [Next]_vars => Fine'
  <2> SUFFICES ASSUME ReachInv, Fine, [Next]_vars, Ordinary' PROVE RequestsReachTheirMethod'
    OBVIOUS
  <2>1. Ordinary
    BY SameService DEF StreamsArePosted, VerbsBehindWildcards, RoutesDiffer, RestIsFree, PathAt, VerbAt
  <2>2. CASE Serve
    BY <2>1, <2>2, ServesHome
  <2>3. CASE Answered
    BY <2>3 DEF Answered, RequestsReachTheirMethod
  <2>4. CASE UNCHANGED vars
    BY <2>1, <2>4 DEF vars, RequestsReachTheirMethod
  <2>5. ASSUME phase # "serving", UNCHANGED <<request, served>> PROVE RequestsReachTheirMethod'
    <3>1. request = 0
      BY <2>5 DEF ReachInv, RouteInv, RequestInv
    <3> QED
      BY <2>5, <3>1 DEF RequestsReachTheirMethod
  <2>6. CASE Collect \/ NothingToGenerate \/ Group \/ Remap \/ Construct \/ Define \/ Compile \/ Register
    BY <2>5, <2>6 DEF Collect, NothingToGenerate, Group, Remap, Construct, Define, Compile, Register
  <2> QED
    BY <2>2, <2>3, <2>4, <2>6, Zenon DEF Next, Stopped
<1>3. ReachInv /\ Fine => (Ordinary => RequestsReachTheirMethod)
  OBVIOUS
<1> HIDE DEF Fine, Ordinary
<1>4. Spec => [](Ordinary => RequestsReachTheirMethod)
  BY <1>1, <1>2, <1>3, ReachInvariant, PTL DEF Spec
<1> QED
  BY <1>4 DEF Ordinary
=============================================================================
