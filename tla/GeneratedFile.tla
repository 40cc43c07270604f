---------------------------- MODULE GeneratedFile ----------------------------
(***************************************************************************)
(* What the plugins print for one proto file.  All three pick the usable   *)
(* RPCs, decide from them what to import, and only then print the bodies,  *)
(* service by service; the imports are right if the decision foresees what *)
(* the bodies use.                                                         *)
(*                                                                         *)
(* The names of the resolvers are those of TypeNames.  Of a file this      *)
(* module keeps the packages it imports and uses and the functions it      *)
(* declares and names.  A service is known by its place in the file, a     *)
(* function by its parts.                                                  *)
(***************************************************************************)
EXTENDS TypeNames, SequencesExt

CONSTANTS
    Methods,     \* RPCs to make services of
    MaxMethods,  \* bound: RPCs of a file
    GoPackage,   \* GoPackage[s]: the Go package of proto file s
    Letters      \* Letters[p]: path p without its punctuation

\* A verb is cut off only behind a variable, and a body is "" or "*".
ASSUME GeneratedFileAssumption ==
    /\ MaxMethods \in Nat
    /\ DOMAIN GoPackage = Sources
    /\ \A m \in Methods : /\ m.body \in {"", "*"} /\ {m.in, m.out} \subseteq Sources
                          /\ m.verb => m.vars # "none"

VARIABLES
    file,       \* its services, each a sequence of RPCs
    phase, i,   \* the loop of generateFile being run, and its cursor
    goImports, goUses,  \* imports of the Go file, those the code refers to
    goFuncs,    \* functions the Go file declares, in order
    goRefs,     \* functions it names
    pyImports, pyUses,  \* names the Python file imports from connectaip and abc
    pyDefs,     \* module-level functions, in order, each with its service
    pyRefs      \* the functions constructors name, each with its service

printed == <<goImports, goUses, goFuncs, goRefs, pyImports, pyUses, pyDefs, pyRefs>>
vars == <<file, phase, i, printed, resolverVars>>

-----------------------------------------------------------------------------
\* The filters at the top of every loop over methods; a function printed or not.
OneIf(cond, x) == IF cond THEN <<x>> ELSE <<>>
UsableOf(service) == FlattenSeq([k \in DOMAIN service |-> OneIf(service[k].usable, service[k])])
Routes == FlattenSeq([k \in DOMAIN file |-> UsableOf(file[k])])
AllRoutes == LET rs == Routes IN {rs[k] : k \in DOMAIN rs}

\* Fields travel in the query; some of them have to be formatted.
ByQuery(r) == r.http \in {"GET", "DELETE"} \/ r.body = ""
hasQueryParams(r) == r.kinds \cap {"string", "number", "float", "bool", "enum"} # {}
hasNumericQueryParams(r) == r.kinds \cap {"number", "float", "enum"} # {}
PyHasQuery(r) == r.http \in {"GET", "DELETE"} /\ r.kinds \cap {"string", "number", "bool"} # {}
HasVars(r) == r.vars # "none"
\* A pattern of several wildcards has no prefix to cut off.
Prefixed(r) == r.vars = "prefixed"

-----------------------------------------------------------------------------
\* The import block of the Go file; http is net/http, json encoding/json.

fileNeedsFmt == \E r \in AllRoutes : ByQuery(r) /\ hasNumericQueryParams(r)

\* Mutant: the extractors of streaming routes are forgotten.
fileNeedsStrings_VerbOnly == \E r \in AllRoutes : r.verb
fileNeedsStrings == \E r \in AllRoutes : r.verb \/ (r.stream /\ Prefixed(r))
fileNeedsEncodingJSON == \E r \in AllRoutes : r.stream /\ HasVars(r)
fileNeedsConnectSSE == \E r \in AllRoutes : r.stream

When(cond, name) == IF cond THEN {name} ELSE {}

generateImports ==
    {"context", "iter", "http", "connect", "connectaip", "pb"}
    \cup When(fileNeedsFmt, "fmt") \cup When(fileNeedsStrings, "strings")
    \cup When(fileNeedsEncodingJSON, "json") \cup When(fileNeedsConnectSSE, "connectsse")

\* The imports of the Python file.
generatePyImports ==
    {"Client", "MethodSpec", "Mapping"}
    \cup When(\E r \in AllRoutes : HasVars(r), "PathVar")
    \cup When(\E r \in AllRoutes : r.stream, "SSEClient")
    \cup When(\E r \in AllRoutes : r.stream, "Iterator")
    \cup When(\E r \in AllRoutes : r.vars = "multi", "split_multi_wildcard")

-----------------------------------------------------------------------------
\* One service of the Go file: generateServiceHandler, generateServiceClient.

\* qualifiedTypeName: messages of the same Go package go by the file's alias;
\* protogen imports the others.
qualifiedTypeName(r) ==
    When(\E s \in {r.in, r.out} : GoPackage[s] = GoPackage[CurrentFile], "pb")

HandlerUses(r) ==
    {"http"} \cup
    (IF r.stream THEN {"connectsse"}
     ELSE {"connectaip"} \cup qualifiedTypeName(r) \cup When(r.verb, "strings"))

\* The client's field, its methods and its extractors.
ClientUses(r) ==
    {"context", "connect", "connectaip"} \cup qualifiedTypeName(r) \cup
    (IF r.stream
     THEN When(HasVars(r), "json") \cup When(Prefixed(r), "strings")
     ELSE When(ByQuery(r) /\ hasNumericQueryParams(r), "fmt"))

\* Routes of one path and method share a registration, and a dispatcher if one
\* of them has a verb.
SameGroup(r, q) == r.http = q.http /\ r.path = q.path
Dispatched(rs) == {k \in DOMAIN rs : \E j \in DOMAIN rs : rs[j].verb /\ SameGroup(rs[j], rs[k])}
First(rs, k) == \A j \in 1 .. k - 1 : ~SameGroup(rs[j], rs[k])

\* Mutant: the method is not part of the dispatcher's name.
dispatcherFuncName_NoMethod(svc, method, path) == <<svc, "dispatch", "", Letters[path]>>
dispatcherFuncName(svc, method, path) == <<svc, "dispatch", method, Letters[path]>>

RegisteredMethod(rs, k) ==
    IF \E j \in DOMAIN rs : rs[j].stream /\ SameGroup(rs[j], rs[k]) THEN "POST" ELSE rs[k].http

\* A field of the request is read from the query by a function of its own.
Asked(r) == ~r.stream /\ ByQuery(r) /\ hasQueryParams(r)

\* A function for each of the routes at some places, named for its RPC.
FunctionsFor(svc, tag, rs, ks) ==
    FlattenSeq([k \in DOMAIN rs |-> OneIf(k \in ks, <<svc, tag, rs[k].rpc>>)])
Dispatchers(svc, rs) ==
    FlattenSeq([k \in DOMAIN rs |-> OneIf(k \in Dispatched(rs) /\ First(rs, k),
                                          dispatcherFuncName(svc, rs[k].http, rs[k].path))])

GoFunctionsOf(svc, rs) ==
    FunctionsFor(svc, "handle", rs, DOMAIN rs)
    \o Dispatchers(svc, rs)
    \o FunctionsFor(svc, "PathVars", rs, {k \in DOMAIN rs : ~rs[k].stream /\ HasVars(rs[k])})
    \o FunctionsFor(svc, "SSEPathVars", rs, {k \in DOMAIN rs : rs[k].stream /\ HasVars(rs[k])})
    \o FunctionsFor(svc, "Query", rs, {k \in DOMAIN rs : Asked(rs[k])})

\* What the handler's constructor, a dispatcher and the client's constructor name.
GoReferencesOf(svc, rs) ==
    LET VarsFn(r) == IF r.stream THEN "SSEPathVars" ELSE "PathVars"
    IN {<<svc, "handle", rs[k].rpc>> : k \in DOMAIN rs}
       \cup {dispatcherFuncName(svc, RegisteredMethod(rs, k), rs[k].path) : k \in Dispatched(rs)}
       \cup {<<svc, VarsFn(rs[k]), rs[k].rpc>> : k \in {k \in DOMAIN rs : HasVars(rs[k])}}
       \cup {<<svc, "Query", rs[k].rpc>> : k \in {k \in DOMAIN rs : Asked(rs[k])}}

PrintGo(svc, rs) ==
    /\ goFuncs' = goFuncs \o GoFunctionsOf(svc, rs)
    /\ goRefs' = goRefs \cup GoReferencesOf(svc, rs)
    /\ goUses' = goUses \cup When(rs # <<>>, "iter") \cup When(Dispatched(rs) # {}, "strings")
                 \cup UNION {HandlerUses(rs[k]) \cup ClientUses(rs[k]) : k \in DOMAIN rs}
    /\ UNCHANGED goImports

-----------------------------------------------------------------------------
\* One service of the Python file: generateServiceBody.  Its functions carry the
\* RPC's name and not the service's.

\* Mutant: a function is printed for unary routes only.
PathVarFns_Unary(svc, r) ==
    OneIf(HasVars(r) /\ ~r.stream, [name |-> <<r.rpc, "path_vars">>, svc |-> svc])
PathVarFns(svc, r) ==
    OneIf(HasVars(r), [name |-> <<r.rpc, "path_vars">>, svc |-> svc])
QueryFns(svc, r) ==
    OneIf(PyHasQuery(r), [name |-> <<r.rpc, "query">>, svc |-> svc])

\* generateClientInit decides for itself which functions there are.
InitRefs(svc, r) ==
    When(HasVars(r), [name |-> <<r.rpc, "path_vars">>, svc |-> svc])
    \cup When(~r.stream /\ PyHasQuery(r), [name |-> <<r.rpc, "query">>, svc |-> svc])

PyUsesOf(r) ==
    {"Mapping"} \cup (IF r.stream THEN {"SSEClient", "Iterator"} ELSE {"Client", "MethodSpec"})
    \cup When(HasVars(r), "PathVar") \cup When(r.vars = "multi", "split_multi_wildcard")

PrintPy(svc, rs) ==
    /\ pyDefs' = pyDefs \o FlattenSeq([k \in DOMAIN rs |-> PathVarFns(svc, rs[k]) \o QueryFns(svc, rs[k])])
    /\ pyRefs' = pyRefs \cup UNION {InitRefs(svc, rs[k]) : k \in DOMAIN rs}
    /\ pyUses' = pyUses \cup UNION {PyUsesOf(rs[k]) : k \in DOMAIN rs}
    /\ UNCHANGED pyImports

-----------------------------------------------------------------------------
\* generateFile.

\* Mutant: the response of a route is not registered.
Types_InputsOnly == LET rs == Routes IN FlattenSeq([k \in DOMAIN rs |-> <<rs[k].in>>])
\* The messages in the order they are registered.
Types == LET rs == Routes IN FlattenSeq([k \in DOMAIN rs |-> <<rs[k].in, rs[k].out>>])

RegisterType ==
    /\ phase = "register" /\ i <= Len(Types)
    /\ Register(Types[i]) /\ i' = i + 1
    /\ UNCHANGED <<file, phase, printed>>

\* The message just registered may be asked for between registrations: the
\* plugins do not, but the cache is there to allow it.
AskEarly ==
    /\ phase = "register" /\ i > 1 /\ Resolve({Types[i - 1]})
    /\ UNCHANGED <<file, phase, i, printed>>

\* Without a usable route nothing is printed.
PrintHeader ==
    /\ phase = "register" /\ i > Len(Types) /\ Routes # <<>>
    /\ PrintImports
    /\ goImports' = generateImports /\ pyImports' = generatePyImports
    /\ phase' = "services" /\ i' = 1
    /\ UNCHANGED <<file, goUses, goFuncs, goRefs, pyUses, pyDefs, pyRefs>>

\* The bodies of a service name the request and the response of each route.
FilesNamedBy(rs) == UNION {{rs[k].in, rs[k].out} : k \in DOMAIN rs}

PrintService ==
    /\ phase = "services" /\ i <= Len(file)
    /\ PrintGo(i, UsableOf(file[i])) /\ PrintPy(i, UsableOf(file[i]))
    /\ Resolve(FilesNamedBy(UsableOf(file[i])))
    /\ i' = i + 1
    /\ phase' = IF i = Len(file) THEN "done" ELSE phase
    /\ UNCHANGED file

ServicesOf(n) == {s \in [1 .. n -> Methods] : \A k, j \in 1 .. n : s[k].rpc = s[j].rpc => k = j}
Files ==
    LET One(n) == {<<s>> : s \in ServicesOf(n)}
        Two(n) == {<<s, t>> : s \in ServicesOf(n), t \in ServicesOf(MaxMethods - n)}
    IN (UNION {One(n) : n \in 1 .. MaxMethods}) \cup (UNION {Two(n) : n \in 1 .. MaxMethods - 1})

Init ==
    /\ file \in Files /\ phase = "register" /\ i = 1
    /\ goImports = {} /\ goUses = {} /\ goFuncs = <<>> /\ goRefs = {}
    /\ pyImports = {} /\ pyUses = {} /\ pyDefs = <<>> /\ pyRefs = {}
    /\ ResolverInit

Next == RegisterType \/ AskEarly \/ PrintHeader \/ PrintService
Spec == Init /\ [][Next]_vars

-----------------------------------------------------------------------------
\* Properties of the files once they are printed.

\* Types: the phases, and the variables of the resolvers.
TypeOK ==
    /\ phase \in {"register", "services", "done"} /\ i \in 1 .. 2 * MaxMethods + 1
    /\ goUses \subseteq {"context", "iter", "http", "connect", "connectaip", "pb", "fmt",
                         "strings", "json", "connectsse"}
    /\ ResolverTypeOK

\* The Go file imports what it uses and, lest it not compile, nothing else; two
\* imports are idle, fmt when only streaming routes ask for it, and the package
\* of the messages when no route has a message of that package.
GoImportsUsed ==
    phase = "done" =>
        /\ goUses \subseteq goImports
        /\ goImports \ goUses =
             When(fileNeedsFmt /\ \A r \in AllRoutes : ByQuery(r) /\ hasNumericQueryParams(r) => r.stream, "fmt")
             \cup When(\A r \in AllRoutes : \A s \in {r.in, r.out} :
                           GoPackage[s] # GoPackage[CurrentFile], "pb")

\* Two dispatched paths of one service and method differ in punctuation only.
Homographs ==
    \E k \in DOMAIN file : LET rs == UsableOf(file[k]) IN
        \E a, b \in Dispatched(rs) : /\ rs[a].http = rs[b].http /\ rs[a].path # rs[b].path
                                     /\ Letters[rs[a].path] = Letters[rs[b].path]

\* Every function the Go file names is declared in it, and exactly one
\* declaration has that name unless punctuation was all that told them apart.
GoFunctionsResolve ==
    phase = "done" =>
        /\ goRefs \subseteq Range(goFuncs)
        /\ IsInjective(goFuncs) <=> ~Homographs

\* The definition a name has when the module is loaded is the last one.
Loaded(name) ==
    LET at == {k \in DOMAIN pyDefs : pyDefs[k].name = name}
    IN {pyDefs[k].svc : k \in {k \in at : \A j \in at : j <= k}}

\* Python runs with the functions it was given: what a constructor names is
\* defined, and for the RPC of that service, unless a later service of the file
\* has an RPC of the same name; and every name it uses is imported.
PyFunctionsResolve ==
    phase = "done" =>
        /\ pyUses \subseteq pyImports
        /\ \A f \in pyRefs :
             /\ Loaded(f.name) # {}
             /\ \A owner \in Loaded(f.name) \ {f.svc} :
                   owner > f.svc /\ \E r \in Range(UsableOf(file[owner])) : r.rpc = f.name[1]
=============================================================================
