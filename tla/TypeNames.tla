------------------------------ MODULE TypeNames ------------------------------
(***************************************************************************)
(* The names under which a generated Python or TypeScript file refers to   *)
(* messages of other proto files: pyTypeResolver and tsTypeResolver.       *)
(*                                                                         *)
(* They are objects with three methods: register a message, print the      *)
(* imports, resolve a message.  TypeScript names a file when it is         *)
(* registered; Python when a name is first asked for, and keeps the names  *)
(* in a cache that a later registration drops.  Neither resolver checks    *)
(* when it is called, so the actions below are free to come in any order;  *)
(* ResolverSpec says in which order the names come out right.              *)
(*                                                                         *)
(* A name is the base of a proto file and a number: <<"empty", 0>> is      *)
(* empty_pb2 in Python and empty_pb in TypeScript, <<"empty", 2>> is       *)
(* empty_pb2_2 and empty_pb_2.  Two such names are one identifier only if  *)
(* they are one pair.  The file's own module is pb2 or pb.                 *)
(***************************************************************************)
EXTENDS Naturals, Sequences, FiniteSets

CONSTANTS
    Sources,      \* proto files
    CurrentFile,  \* the one code is generated for
    WellKnown,    \* files directly under google/protobuf/
    Base,         \* Base[s]: last path element of s, without .proto
    Dir,          \* Dir[s]: the directories on the way to s
    Rank          \* Rank[s]: the place of s in the order of paths

\* A source is known by its path, and no path has a ".." in it.
ASSUME SourcesAssumption ==
    /\ IsFiniteSet(Sources) /\ CurrentFile \in Sources
    /\ WellKnown \subseteq Sources
    /\ DOMAIN Base = Sources
    /\ Dir \in [Sources -> Seq(STRING \ {".."})]
    /\ Rank \in [Sources -> Nat]
    /\ \A s, t \in Sources : s # t => Rank[s] # Rank[t]
    /\ \A s, t \in WellKnown : s # t => Base[s] # Base[t]

VARIABLES
    wktBaseNames,     \* Python: bases of the well-known files
    nonLocalSources,  \* Python: other files
    aliases,          \* Python: the cache; {} is nil, else it holds the numbers
    otherFiles,       \* TypeScript: the number of every registered other file
    wktNames,         \* TypeScript: well-known files messages are taken from
    lines,            \* import lines of either file, once they are printed
    asked             \* files the name of a message of which has been asked for

resolverVars == <<wktBaseNames, nonLocalSources, aliases, otherFiles, wktNames, lines, asked>>

-----------------------------------------------------------------------------
Local == <<"pb">>
Name(s, n) == <<Base[s], n>>
Numbers == 0 .. Cardinality(Sources)

\* n is the first number for which the name of s is free.
FirstFree(s, n, used) ==
    /\ Name(s, n) \notin used
    /\ \A k \in Numbers : k < n => Name(s, k) \in used

Reserved(wkt) == {Local} \cup {<<b, 0>> : b \in wkt}

\* numbers is what the loop of ensureAliases, in the order of paths, ends with.
Assigned(numbers, wkt, others) ==
    \A s \in others :
        FirstFree(s, numbers[s],
                  Reserved(wkt) \cup {Name(t, numbers[t]) : t \in {t \in others : Rank[t] < Rank[s]}})

\* ensureAliases.
EnsureAliases ==
    IF aliases # {} THEN UNCHANGED aliases
    ELSE \E numbers \in [nonLocalSources -> Numbers] :
            Assigned(numbers, wktBaseNames, nonLocalSources) /\ aliases' = {numbers}

\* Mutant: a registration leaves the cache alone.
Dropped_Never(old, new) == aliases
\* A registration that adds something drops the cache.
Dropped(old, new) == IF new = old THEN aliases ELSE {}

\* Mutant: a well-known file leaves the cache alone.
PyRegister_KeepsForWellKnown(s) ==
    IF s = CurrentFile THEN UNCHANGED <<wktBaseNames, nonLocalSources, aliases>>
    ELSE IF s \in WellKnown
    THEN /\ wktBaseNames' = wktBaseNames \cup {Base[s]}
         /\ UNCHANGED <<nonLocalSources, aliases>>
    ELSE /\ nonLocalSources' = nonLocalSources \cup {s}
         /\ aliases' = Dropped(nonLocalSources, nonLocalSources')
         /\ UNCHANGED wktBaseNames
PyRegister(s) ==
    IF s = CurrentFile THEN UNCHANGED <<wktBaseNames, nonLocalSources, aliases>>
    ELSE IF s \in WellKnown
    THEN /\ wktBaseNames' = wktBaseNames \cup {Base[s]}
         /\ aliases' = Dropped(wktBaseNames, wktBaseNames')
         /\ UNCHANGED nonLocalSources
    ELSE /\ nonLocalSources' = nonLocalSources \cup {s}
         /\ aliases' = Dropped(nonLocalSources, nonLocalSources')
         /\ UNCHANGED wktBaseNames

\* Mutant: only the file's own module is avoided.
TsUsed_OnlyLocal == {Local}
TsUsed == {Local} \cup {Name(s, otherFiles[s]) : s \in DOMAIN otherFiles}

TsRegister(s) ==
    IF s = CurrentFile \/ s \in DOMAIN otherFiles THEN UNCHANGED <<otherFiles, wktNames>>
    ELSE IF s \in WellKnown
    THEN wktNames' = wktNames \cup {s} /\ UNCHANGED otherFiles
    ELSE /\ \E n \in Numbers :
              /\ FirstFree(s, n, TsUsed)
              /\ otherFiles' = [t \in DOMAIN otherFiles \cup {s} |->
                                  IF t = s THEN n ELSE otherFiles[t]]
         /\ UNCHANGED wktNames

\* Both plugins read the same file, so they register the same messages, which
\* come from files protoc has read.
Register(s) ==
    /\ PyRegister(s) /\ TsRegister(s)
    /\ UNCHANGED <<lines, asked>>

-----------------------------------------------------------------------------
\* posixRel: the relative path from a directory to a file, without its "./".

\* Mutant: a difference does not stop the comparison.
Common_NoStop(from, to) ==
    Cardinality({k \in DOMAIN from : k <= Len(to) /\ from[k] = to[k]})
\* How many leading directories two paths have in common.
Common(from, to) ==
    CHOOSE n \in 0 .. Len(from) :
        /\ \A k \in 1 .. n : k <= Len(to) /\ from[k] = to[k]
        /\ n = Len(from) \/ n + 1 > Len(to) \/ from[n + 1] # to[n + 1]

posixRel(from, to) ==
    LET n == Common(from, to)
    IN [k \in 1 .. Len(from) - n |-> ".."] \o SubSeq(to, n + 1, Len(to))

\* An import binds a name to a module, found by a path: that of the proto file,
\* from the root in Python and from the importing file in TypeScript.
PyLines(numbers) ==
    {[lang |-> "py", name |-> Local, path |-> Dir[CurrentFile], of |-> CurrentFile]}
    \cup {[lang |-> "py", name |-> <<Base[s], 0>>, path |-> Dir[s], of |-> s] :
            s \in {s \in WellKnown : Base[s] \in wktBaseNames}}
    \cup {[lang |-> "py", name |-> Name(s, numbers[s]), path |-> Dir[s], of |-> s] : s \in nonLocalSources}

TsLines ==
    {[lang |-> "ts", name |-> Local, path |-> <<>>, of |-> CurrentFile]}
    \cup {[lang |-> "ts", name |-> Name(s, otherFiles[s]),
           path |-> posixRel(Dir[CurrentFile], Dir[s]), of |-> s] : s \in DOMAIN otherFiles}

\* importLines of both, with the import of the file's own module.
PrintImports ==
    /\ EnsureAliases
    /\ lines' = lines \cup TsLines \cup UNION {PyLines(numbers) : numbers \in aliases'}
    /\ UNCHANGED <<wktBaseNames, nonLocalSources, otherFiles, wktNames, asked>>

\* resolveSource for messages of the files S.
Resolve(S) ==
    /\ IF S \subseteq WellKnown \cup {CurrentFile} THEN UNCHANGED aliases ELSE EnsureAliases
    /\ asked' = asked \cup S
    /\ UNCHANGED <<wktBaseNames, nonLocalSources, otherFiles, wktNames, lines>>

\* What resolveSource calls the module of s.  A file that was not registered is
\* looked up in a map without it, which gives the empty name; a source
\* TypeScript takes its messages from by name has none there.
NoName == <<"", 0>>
PyNames(s) ==
    IF s = CurrentFile THEN {Local}
    ELSE IF s \in WellKnown THEN {<<Base[s], 0>>}
    ELSE IF s \in nonLocalSources THEN {Name(s, numbers[s]) : numbers \in aliases}
    ELSE {NoName}
TsNames(s) ==
    IF s = CurrentFile THEN {Local}
    ELSE IF s \in WellKnown THEN {}
    ELSE IF s \in DOMAIN otherFiles THEN {Name(s, otherFiles[s])}
    ELSE {NoName}

ResolverInit ==
    /\ wktBaseNames = {} /\ nonLocalSources = {} /\ aliases = {}
    /\ otherFiles = <<>> /\ wktNames = {} /\ lines = {} /\ asked = {}

Registered == {CurrentFile} \cup {s \in WellKnown : Base[s] \in wktBaseNames} \cup nonLocalSources

-----------------------------------------------------------------------------
\* Properties.

\* How the resolvers have to be used: the imports are printed once, nothing is
\* registered afterwards, and a name is asked for only of a registered file.
ResolverNext ==
    \/ lines = {} /\ \E s \in Sources : Register(s)
    \/ lines = {} /\ PrintImports
    \/ \E S \in SUBSET Registered : Resolve(S)
ResolverSpec == ResolverInit /\ [][ResolverNext]_resolverVars

ResolverTypeOK ==
    /\ wktBaseNames \subseteq {Base[s] : s \in WellKnown}
    /\ nonLocalSources \subseteq Sources \ (WellKnown \cup {CurrentFile})
    /\ \A numbers \in aliases : numbers \in [nonLocalSources -> Numbers]
    /\ \A f, g \in aliases : f = g
    /\ otherFiles \in [nonLocalSources -> Numbers]
    /\ wktNames = {s \in WellKnown : Base[s] \in wktBaseNames}
    /\ asked \subseteq Sources

\* The names Python has cached are those it would give out now: they follow
\* from what is registered, not from the order of registrations and questions.
CacheIsCurrent ==
    \A numbers \in aliases : Assigned(numbers, wktBaseNames, nonLocalSources)

\* No two files of one output share a name, whatever they are called and
\* however they came; a well-known Python module keeps its own name.
NamesDistinct ==
    \A l, m \in lines : l.lang = m.lang /\ l.name = m.name => l.of = m.of

\* Where a relative path leads from a directory.
LeadsTo(from, rel) ==
    LET up == Cardinality({k \in DOMAIN rel : rel[k] = ".."})
    IN SubSeq(from, 1, Len(from) - up) \o SubSeq(rel, up + 1, Len(rel))

PathOf(l) == IF l.lang = "py" THEN l.path ELSE LeadsTo(Dir[CurrentFile], l.path)

Bound(lang, name, s) ==
    \E l \in lines : l.lang = lang /\ l.name = name /\ l.of = s /\ PathOf(l) = Dir[s]

\* A name a body uses for a message is one the imports above it bind to the
\* file of the message, under the path that leads there.
BodiesUseImports ==
    lines # {} =>
        \A s \in asked : /\ \A n \in PyNames(s) : Bound("py", n, s)
                        /\ \A n \in TsNames(s) : Bound("ts", n, s)
=============================================================================
