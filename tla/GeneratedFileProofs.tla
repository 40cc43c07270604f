------------------------- MODULE GeneratedFileProofs -------------------------
(***************************************************************************)
(* What is proved of the files the plugins print, for every pool of RPCs.  *)
(* The plugins use the name resolvers in the order these ask for, and so   *)
(* what is proved of them holds of every file.  Of the rest, FileInv says  *)
(* that what is printed is what the services ahead of the cursor come to,  *)
(* one by one; the imports, the Go names and the Python names follow from  *)
(* it once the cursor is behind the last service.                          *)
(***************************************************************************)
EXTENDS GeneratedFile, SharedFacts

-----------------------------------------------------------------------------
(***************************************************************************)
(* The resolvers, for any set of proto files.  Their invariant adds to the *)
(* types that the cached Python names are those the registered files would *)
(* get now, that TypeScript's names are distinct, and that the import      *)
(* lines, once printed, are those of the present names; what the           *)
(* properties say of two lines then follows from what the numbers are.     *)
(***************************************************************************)

\* The numbers ensureAliases gives out follow from the registered files alone:
\* there is one way to number them, so neither the order of registrations nor
\* the moment of the first question can show in a name.
THEOREM NamesFollowFromSources ==
    ASSUME NEW wkt, NEW others \in SUBSET Sources,
           NEW f \in [others -> Numbers], NEW g \in [others -> Numbers],
           Assigned(f, wkt, others), Assigned(g, wkt, others)
    PROVE  f = g
<1> DEFINE Differ == {s \in others : f[s] # g[s]}
           Ranks == {Rank[s] : s \in Differ}
<1>1. SUFFICES ASSUME Differ # {} PROVE FALSE
  OBVIOUS
<1>2. Ranks \in SUBSET Nat /\ Ranks # {}
  BY <1>1, SourcesAssumption DEF SourcesAssumption
<1>3. PICK r \in Ranks : \A q \in Ranks : <<q, r>> \notin OpToRel(<, Nat)
  BY <1>2, NatLessThanWellFounded, WFMin DEF OpToRel
<1>4. PICK s \in Differ : Rank[s] = r
  BY <1>3
<1>5. \A t \in others : Rank[t] < Rank[s] => f[t] = g[t]
  BY <1>2, <1>3, <1>4 DEF OpToRel
<1> DEFINE Used(h) == Reserved(wkt) \cup {Name(t, h[t]) : t \in {t \in others : Rank[t] < Rank[s]}}
<1>6. {Name(t, f[t]) : t \in {t \in others : Rank[t] < Rank[s]}}
      = {Name(t, g[t]) : t \in {t \in others : Rank[t] < Rank[s]}}
  BY <1>5
<1>7. Used(f) = Used(g)
  BY <1>6
<1>8. FirstFree(s, f[s], Used(f)) /\ FirstFree(s, g[s], Used(g))
  BY <1>4 DEF Assigned
<1> HIDE DEF Used
<1>9. ~(f[s] < g[s]) /\ ~(g[s] < f[s])
  BY <1>7, <1>8, <1>4 DEF FirstFree
<1>10. f[s] \in Nat /\ g[s] \in Nat
  BY <1>4, FS_CardinalityType, SourcesAssumption DEF Numbers, SourcesAssumption
<1> QED
  BY <1>4, <1>9, <1>10

-----------------------------------------------------------------------------
\* Types.

LEMMA RegisterKeepsTypes ==
    ASSUME ResolverTypeOK, NEW s \in Sources, Register(s)
    PROVE  ResolverTypeOK'
<1> USE SourcesAssumption DEF SourcesAssumption, Register, ResolverTypeOK, Dropped
<1>0. asked' \subseteq Sources
  OBVIOUS
<1>1. CASE s = CurrentFile
  BY <1>1 DEF PyRegister, TsRegister
<1>2. CASE s # CurrentFile /\ s \in WellKnown
  <2>1. /\ wktBaseNames' = wktBaseNames \cup {Base[s]}
        /\ aliases' = Dropped(wktBaseNames, wktBaseNames')
        /\ UNCHANGED nonLocalSources
    BY <1>2 DEF PyRegister
  <2>2. wktNames' = wktNames \cup {s} /\ UNCHANGED otherFiles
    BY <1>2 DEF TsRegister
  <2> QED
    BY <1>2, <2>1, <2>2
<1>3. CASE s # CurrentFile /\ s \notin WellKnown
  <2>1. /\ nonLocalSources' = nonLocalSources \cup {s}
        /\ aliases' = Dropped(nonLocalSources, nonLocalSources')
        /\ UNCHANGED wktBaseNames
    BY <1>3 DEF PyRegister
  <2>2. otherFiles' \in [nonLocalSources' -> Numbers]
    <3>1. DOMAIN otherFiles = nonLocalSources
      OBVIOUS
    <3>2. CASE s \in nonLocalSources
      BY <1>3, <2>1, <3>1, <3>2 DEF TsRegister
    <3>3. CASE s \notin nonLocalSources
      <4>1. PICK n \in Numbers :
               otherFiles' = [t \in DOMAIN otherFiles \cup {s} |-> IF t = s THEN n ELSE otherFiles[t]]
        BY <1>3, <3>1, <3>3 DEF TsRegister
      <4> QED
        BY <2>1, <3>1, <4>1
    <3> QED
      BY <3>2, <3>3
  <2>3. UNCHANGED wktNames
    BY <1>3 DEF TsRegister
  <2>4. \A numbers \in aliases' : numbers \in [nonLocalSources' -> Numbers]
    BY <2>1
  <2>5. aliases' \subseteq aliases
    BY <2>1
  <2> QED
    BY <1>3, <2>1, <2>2, <2>3, <2>4, <2>5
<1> QED
  BY <1>1, <1>2, <1>3

LEMMA EnsureKeepsTypes ==
    ASSUME ResolverTypeOK, EnsureAliases,
           UNCHANGED <<wktBaseNames, nonLocalSources, otherFiles, wktNames>>,
           asked' \subseteq Sources
    PROVE  ResolverTypeOK'
BY DEF ResolverTypeOK, EnsureAliases

-----------------------------------------------------------------------------
\* The inductive invariant.

TsDistinct ==
    /\ \A s \in nonLocalSources : Name(s, otherFiles[s]) # Local
    /\ \A s, t \in nonLocalSources : Name(s, otherFiles[s]) = Name(t, otherFiles[t]) => s = t

LinesAreCurrent ==
    lines # {} => \E numbers \in aliases : lines = PyLines(numbers) \cup TsLines

AskedAreRegistered == asked \subseteq Registered

ResolverInv == ResolverTypeOK /\ CacheIsCurrent /\ TsDistinct /\ LinesAreCurrent /\ AskedAreRegistered

\* A file that is registered stays so.
LEMMA RegisteredGrows ==
    ASSUME NEW s \in Sources, Register(s)
    PROVE  Registered \subseteq Registered' /\ s \in Registered'
<1>1. CASE s = CurrentFile
  BY <1>1 DEF Register, PyRegister, Registered
<1>2. CASE s # CurrentFile /\ s \in WellKnown
  BY <1>2 DEF Register, PyRegister, Registered
<1>3. CASE s # CurrentFile /\ s \notin WellKnown
  BY <1>3 DEF Register, PyRegister, Registered
<1> QED
  BY <1>1, <1>2, <1>3

LEMMA RegisteredAreSources ==
    ASSUME ResolverTypeOK PROVE Registered \subseteq Sources
BY SourcesAssumption DEF SourcesAssumption, ResolverTypeOK, Registered

LEMMA EnsureKeepsCache ==
    ASSUME ResolverTypeOK, CacheIsCurrent, EnsureAliases,
           UNCHANGED <<wktBaseNames, nonLocalSources>>
    PROVE  CacheIsCurrent' /\ aliases' # {} /\ (aliases # {} => aliases' = aliases)
<1>1. CASE aliases # {}
  BY <1>1 DEF EnsureAliases, CacheIsCurrent
<1>2. CASE aliases = {}
  <2>1. PICK numbers \in [nonLocalSources -> Numbers] :
           Assigned(numbers, wktBaseNames, nonLocalSources) /\ aliases' = {numbers}
    BY <1>2 DEF EnsureAliases
  <2> QED
    BY <1>2, <2>1 DEF CacheIsCurrent
<1> QED
  BY <1>1, <1>2

LEMMA RegisterKeepsInv ==
    ASSUME ResolverInv, lines = {}, NEW s \in Sources, Register(s)
    PROVE  ResolverInv'
<1> USE DEF ResolverInv
<1>1. ResolverTypeOK'
  BY RegisterKeepsTypes
<1>2. CacheIsCurrent'
  <2>1. \/ aliases' = {}
        \/ aliases' = aliases /\ UNCHANGED <<wktBaseNames, nonLocalSources>>
    BY DEF Register, PyRegister, Dropped
  <2> QED
    BY <2>1 DEF CacheIsCurrent
<1>3. TsDistinct'
  <2>1. DOMAIN otherFiles = nonLocalSources /\ DOMAIN otherFiles' = nonLocalSources'
    BY <1>1 DEF ResolverTypeOK
  <2>2. CASE UNCHANGED otherFiles
    BY <2>1, <2>2 DEF TsDistinct
  <2>3. CASE ~UNCHANGED otherFiles
    <3>1. PICK n \in Numbers :
            /\ FirstFree(s, n, TsUsed)
            /\ otherFiles' = [t \in DOMAIN otherFiles \cup {s} |-> IF t = s THEN n ELSE otherFiles[t]]
      BY <2>3 DEF Register, TsRegister
    <3>2. s \notin nonLocalSources
      BY <2>1, <2>3 DEF Register, TsRegister
    <3>3. nonLocalSources' = nonLocalSources \cup {s}
      BY <2>1, <3>1
    <3>4. \A t \in nonLocalSources : otherFiles'[t] = otherFiles[t]
      BY <2>1, <3>1, <3>2
    <3>5. otherFiles'[s] = n
      BY <3>1
    <3>6. Name(s, n) # Local /\ \A t \in nonLocalSources : Name(s, n) # Name(t, otherFiles[t])
      BY <2>1, <3>1 DEF FirstFree, TsUsed
    <3> QED
      BY <3>3, <3>4, <3>5, <3>6 DEF TsDistinct, Name
  <2> QED
    BY <2>2, <2>3
<1>4. LinesAreCurrent'
  BY DEF Register, LinesAreCurrent
<1>5. AskedAreRegistered'
  BY RegisteredGrows DEF Register, AskedAreRegistered
<1> QED
  BY <1>1, <1>2, <1>3, <1>4, <1>5

LEMMA PrintKeepsInv ==
    ASSUME ResolverInv, lines = {}, PrintImports PROVE ResolverInv'
<1> USE DEF ResolverInv
<1>1. ResolverTypeOK'
  <2>1. asked' \subseteq Sources
    BY DEF PrintImports, ResolverTypeOK
  <2> QED
    BY <2>1, EnsureKeepsTypes DEF PrintImports
<1>2. CacheIsCurrent' /\ aliases' # {}
  BY EnsureKeepsCache DEF PrintImports
<1>3. TsDistinct'
  BY DEF PrintImports, TsDistinct
<1>4. LinesAreCurrent'
  <2>1. PICK numbers \in aliases' : aliases' = {numbers}
    BY <1>1, <1>2 DEF ResolverTypeOK
  <2>2. UNION {PyLines(n) : n \in aliases'} = PyLines(numbers)
    BY <2>1
  <2>3. PyLines(numbers)' = PyLines(numbers) /\ TsLines' = TsLines
    BY DEF PrintImports, PyLines, TsLines
  <2> QED
    BY <2>1, <2>2, <2>3 DEF PrintImports, LinesAreCurrent
<1>5. AskedAreRegistered'
  BY DEF PrintImports, AskedAreRegistered, Registered
<1> QED
  BY <1>1, <1>2, <1>3, <1>4, <1>5

LEMMA ResolveKeepsInv ==
    ASSUME ResolverInv, NEW S \in SUBSET Registered, Resolve(S) PROVE ResolverInv'
<1> USE DEF ResolverInv
<1>0. UNCHANGED aliases \/ EnsureAliases
  BY DEF Resolve
<1>1. ResolverTypeOK'
  <2>1. asked' \subseteq Sources
    BY RegisteredAreSources DEF Resolve, ResolverTypeOK
  <2>2. CASE UNCHANGED aliases
    BY <2>1, <2>2 DEF Resolve, ResolverTypeOK
  <2>3. CASE EnsureAliases
    BY <2>1, <2>3, EnsureKeepsTypes DEF Resolve
  <2> QED
    BY <1>0, <2>2, <2>3
<1>2. CacheIsCurrent' /\ (aliases # {} => aliases' = aliases)
  <2>1. CASE UNCHANGED aliases
    BY <2>1 DEF Resolve, CacheIsCurrent
  <2>2. CASE EnsureAliases
    BY <2>2, EnsureKeepsCache DEF Resolve
  <2> QED
    BY <1>0, <2>1, <2>2
<1>3. TsDistinct'
  BY DEF Resolve, TsDistinct
<1>4. LinesAreCurrent'
  BY <1>2 DEF Resolve, LinesAreCurrent, PyLines, TsLines
<1>5. AskedAreRegistered'
  BY DEF Resolve, AskedAreRegistered, Registered
<1> QED
  BY <1>1, <1>2, <1>3, <1>4, <1>5

THEOREM ResolverInvariant == ResolverSpec => []ResolverInv
<1>1. ResolverInit => ResolverInv
  BY SourcesAssumption
     DEF SourcesAssumption, ResolverInit, ResolverInv, ResolverTypeOK, CacheIsCurrent, TsDistinct,
         LinesAreCurrent, AskedAreRegistered
<1>2. ResolverInv /\ [ResolverNext]_resolverVars => ResolverInv'
  <2> SUFFICES ASSUME ResolverInv, [ResolverNext]_resolverVars PROVE ResolverInv'
    OBVIOUS
  <2>1. CASE lines = {} /\ \E s \in Sources : Register(s)
    BY <2>1, RegisterKeepsInv
  <2>2. CASE lines = {} /\ PrintImports
    BY <2>2, PrintKeepsInv
  <2>3. CASE \E S \in SUBSET Registered : Resolve(S)
    BY <2>3, ResolveKeepsInv
  <2>4. CASE UNCHANGED resolverVars
    BY <2>4 DEF resolverVars, ResolverInv, ResolverTypeOK, CacheIsCurrent, TsDistinct,
                LinesAreCurrent, PyLines, TsLines, AskedAreRegistered, Registered
  <2> QED
    BY <2>1, <2>2, <2>3, <2>4 DEF ResolverNext
<1> QED
  BY <1>1, <1>2, PTL DEF ResolverSpec

-----------------------------------------------------------------------------
\* The names of Python's cache are, at every moment, the ones it would give out
\* then: a registration that changes them has dropped them.
THEOREM CacheStaysCurrent == ResolverSpec => []CacheIsCurrent
<1>1. ResolverInv => CacheIsCurrent
  BY DEF ResolverInv
<1> QED
  BY <1>1, ResolverInvariant, PTL

LEMMA PyLinesDistinct ==
    ASSUME ResolverTypeOK, NEW numbers \in [nonLocalSources -> Numbers],
           Assigned(numbers, wktBaseNames, nonLocalSources),
           NEW l \in PyLines(numbers), NEW m \in PyLines(numbers), l.name = m.name
    PROVE  l.of = m.of
<1> DEFINE Wkt == {s \in WellKnown : Base[s] \in wktBaseNames}
<1>1. \A b : <<b, 0>> # Local
  BY DEF Local
<1>2. \A s \in nonLocalSources : /\ Name(s, numbers[s]) # Local
                                 /\ \A b \in wktBaseNames : Name(s, numbers[s]) # <<b, 0>>
  BY DEF Assigned, FirstFree, Reserved
<1>3. \A s, t \in nonLocalSources : Name(s, numbers[s]) = Name(t, numbers[t]) => s = t
  <2> SUFFICES ASSUME NEW s \in nonLocalSources, NEW t \in nonLocalSources,
                      Name(s, numbers[s]) = Name(t, numbers[t]), s # t
               PROVE  FALSE
    OBVIOUS
  <2>1. \A a, b \in nonLocalSources : Rank[b] < Rank[a] => Name(a, numbers[a]) # Name(b, numbers[b])
    BY DEF Assigned, FirstFree
  <2>2. Rank[s] < Rank[t] \/ Rank[t] < Rank[s]
    BY SourcesAssumption DEF SourcesAssumption, ResolverTypeOK
  <2> QED
    BY <2>1, <2>2
<1>4. \A s, t \in Wkt : <<Base[s], 0>> = <<Base[t], 0>> => s = t
  BY SourcesAssumption DEF SourcesAssumption
<1>5. \/ l.name = Local /\ l.of = CurrentFile
      \/ l.of \in Wkt /\ l.name = <<Base[l.of], 0>>
      \/ l.of \in nonLocalSources /\ l.name = Name(l.of, numbers[l.of])
  BY DEF PyLines
<1>6. \/ m.name = Local /\ m.of = CurrentFile
      \/ m.of \in Wkt /\ m.name = <<Base[m.of], 0>>
      \/ m.of \in nonLocalSources /\ m.name = Name(m.of, numbers[m.of])
  BY DEF PyLines
<1>7. \A s \in Wkt : Base[s] \in wktBaseNames
  OBVIOUS
<1> HIDE DEF Wkt
<1> QED
  BY <1>1, <1>2, <1>3, <1>4, <1>5, <1>6, <1>7

LEMMA TsLinesDistinct ==
    ASSUME ResolverTypeOK, TsDistinct, NEW l \in TsLines, NEW m \in TsLines, l.name = m.name
    PROVE  l.of = m.of
<1>1. DOMAIN otherFiles = nonLocalSources
  BY DEF ResolverTypeOK
<1>2. \A k \in TsLines : \/ k.name = Local /\ k.of = CurrentFile
                         \/ k.of \in nonLocalSources /\ k.name = Name(k.of, otherFiles[k.of])
  BY <1>1 DEF TsLines
<1> QED
  BY <1>2 DEF TsDistinct

\* No two files share a name in the imports of one output, however many have
\* the same base and in whatever order their messages were met.
THEOREM ImportsNeverClash == ResolverSpec => []NamesDistinct
<1>1. ResolverInv => NamesDistinct
  <2> SUFFICES ASSUME ResolverInv, NEW l \in lines, NEW m \in lines,
                      l.lang = m.lang, l.name = m.name
               PROVE  l.of = m.of
    BY DEF NamesDistinct
  <2>1. PICK numbers \in aliases : lines = PyLines(numbers) \cup TsLines
    BY DEF ResolverInv, LinesAreCurrent
  <2>2. numbers \in [nonLocalSources -> Numbers] /\ Assigned(numbers, wktBaseNames, nonLocalSources)
    BY DEF ResolverInv, ResolverTypeOK, CacheIsCurrent
  <2>3. \A k \in PyLines(numbers) : k.lang = "py"
    BY DEF PyLines
  <2>4. \A k \in TsLines : k.lang = "ts"
    BY DEF TsLines
  <2>5. CASE l \in PyLines(numbers) /\ m \in PyLines(numbers)
    BY <2>2, <2>5, PyLinesDistinct DEF ResolverInv
  <2>6. CASE l \in TsLines /\ m \in TsLines
    BY <2>6, TsLinesDistinct DEF ResolverInv
  <2> QED
    BY <2>1, <2>3, <2>4, <2>5, <2>6
<1> QED
  BY <1>1, ResolverInvariant, PTL

-----------------------------------------------------------------------------
\* Relative paths.

LEMMA CommonExists ==
    ASSUME NEW S, NEW from \in Seq(S), NEW to \in Seq(S)
    PROVE  /\ Common(from, to) \in 0 .. Len(from)
           /\ \A k \in 1 .. Common(from, to) : k <= Len(to) /\ from[k] = to[k]
<1> DEFINE Stop(n) == n = Len(from) \/ n + 1 > Len(to) \/ from[n + 1] # to[n + 1]
           Stops == {n \in 0 .. Len(from) : Stop(n)}
<1>1. Len(from) \in Nat /\ Len(to) \in Nat
  OBVIOUS
<1>2. Stops \in SUBSET Nat /\ Stops # {}
  BY <1>1
<1> HIDE DEF Stops
<1>3. PICK n \in Stops : \A m \in Stops : <<m, n>> \notin OpToRel(<, Nat)
  BY <1>2, NatLessThanWellFounded, WFMin DEF OpToRel
<1>4. \A m \in Stops : ~(m < n)
  BY <1>2, <1>3 DEF OpToRel
<1>5. n \in 0 .. Len(from) /\ Stop(n)
  BY <1>3 DEF Stops
<1>6. ASSUME NEW k \in 1 .. n PROVE k <= Len(to) /\ from[k] = to[k]
  <2>1. k - 1 \in 0 .. Len(from) /\ k - 1 < n
    BY <1>1, <1>5
  <2>2. ~Stop(k - 1)
    BY <1>4, <2>1 DEF Stops
  <2>3. (k - 1) + 1 = k
    OBVIOUS
  <2> QED
    BY <1>1, <2>2, <2>3
<1>7. \E m \in 0 .. Len(from) :
        /\ \A k \in 1 .. m : k <= Len(to) /\ from[k] = to[k]
        /\ m = Len(from) \/ m + 1 > Len(to) \/ from[m + 1] # to[m + 1]
  BY <1>5, <1>6
<1> QED
  BY <1>7 DEF Common

LEMMA FunctionIsSeq ==
    ASSUME NEW S, NEW m \in Nat, NEW f \in [1 .. m -> S]
    PROVE  f \in Seq(S) /\ Len(f) = m
OBVIOUS

\* The relative path posixRel computes leads where it should, from any
\* directory to any other.
THEOREM RelativePathsLead ==
    ASSUME NEW from \in Seq(STRING \ {".."}), NEW to \in Seq(STRING \ {".."})
    PROVE  LeadsTo(from, posixRel(from, to)) = to
<1> DEFINE n == Common(from, to)
           W == STRING \cup {".."}
           ups == [k \in 1 .. Len(from) - n |-> ".."]
           rest == SubSeq(to, n + 1, Len(to))
           rel == ups \o rest
<1>1. /\ n \in 0 .. Len(from) /\ n \in Nat /\ Len(from) \in Nat /\ Len(to) \in Nat
      /\ \A k \in 1 .. n : k <= Len(to) /\ from[k] = to[k]
  BY CommonExists
<1>2. n <= Len(to)
  <2>1. CASE n = 0
    BY <1>1, <2>1
  <2>2. CASE n # 0
    BY <1>1, <2>2
  <2> QED
    BY <2>1, <2>2
<1>3. posixRel(from, to) = rel
  BY DEF posixRel
<1> HIDE DEF n
<1>4. /\ ups \in Seq(W) /\ Len(ups) = Len(from) - n
      /\ \A k \in 1 .. Len(ups) : ups[k] = ".."
  <2> DEFINE m == Len(from) - n
  <2>1. m \in Nat
    BY <1>1
  <2> HIDE DEF m
  <2>2. ups = [k \in 1 .. m |-> ".."]
    BY DEF m
  <2> HIDE DEF ups
  <2>3. ups \in [1 .. m -> W] /\ \A k \in 1 .. m : ups[k] = ".."
    <3>1. ".." \in W
      OBVIOUS
    <3>2. \A v \in W : [k \in 1 .. m |-> v] \in [1 .. m -> W]
      OBVIOUS
    <3>3. \A k \in 1 .. m : ups[k] = ".."
      BY <2>2
    <3> QED
      BY <2>2, <3>1, <3>2, <3>3
  <2>4. ups \in Seq(W) /\ Len(ups) = m
    BY <2>1, <2>3, FunctionIsSeq
  <2> QED
    BY <2>3, <2>4 DEF m
<1>5. /\ rest \in Seq(W) /\ Len(rest) = Len(to) - n
      /\ \A k \in 1 .. Len(rest) : rest[k] = to[n + k] /\ rest[k] # ".."
  <2>1. \A k \in 1 .. Len(to) : to[k] \in W /\ to[k] # ".."
    BY ElementOfSeq
  <2>2. \A k \in n + 1 .. Len(to) : to[k] \in W
    BY <1>1, <2>1
  <2>3. /\ rest \in Seq(W)
        /\ Len(rest) = IF n + 1 <= Len(to) THEN Len(to) - (n + 1) + 1 ELSE 0
        /\ \A k \in 1 .. Len(to) - (n + 1) + 1 : rest[k] = to[n + 1 + k - 1]
    BY <1>1, <2>2, SubSeqProperties
  <2> HIDE DEF rest
  <2>4. Len(rest) = Len(to) - n
    <3>1. n \in Nat /\ Len(to) \in Nat /\ n <= Len(to)
      BY <1>1, <1>2
    <3> QED
      BY <2>3, <3>1
  <2>5. \A k \in 1 .. Len(rest) : rest[k] = to[n + k]
    BY <1>1, <2>3, <2>4
  <2> QED
    BY <1>1, <2>1, <2>3, <2>4, <2>5
<1> HIDE DEF ups, rest
<1>6. /\ rel \in Seq(W) /\ Len(rel) = Len(ups) + Len(rest)
      /\ \A k \in 1 .. Len(ups) + Len(rest) : rel[k] = IF k <= Len(ups) THEN ups[k] ELSE rest[k - Len(ups)]
  BY <1>4, <1>5, ConcatProperties
<1>7. {k \in DOMAIN rel : rel[k] = ".."} = 1 .. Len(ups)
  <2>1. DOMAIN rel = 1 .. Len(ups) + Len(rest) /\ Len(ups) \in Nat /\ Len(rest) \in Nat
    BY <1>4, <1>5, <1>6, LenProperties
  <2> HIDE DEF rel
  <2>2. \A k \in 1 .. Len(ups) : rel[k] = ".."
    BY <1>4, <1>6, <2>1
  <2>3. ASSUME NEW k \in 1 .. Len(ups) + Len(rest), ~(k <= Len(ups))
        PROVE  rel[k] # ".."
    <3>1. k - Len(ups) \in 1 .. Len(rest)
      BY <2>1, <2>3
    <3>2. rel[k] = rest[k - Len(ups)]
      BY <1>6, <2>3
    <3> QED
      BY <1>5, <3>1, <3>2
  <2> QED
    BY <2>1, <2>2, <2>3
<1>8. Cardinality(1 .. Len(ups)) = Len(ups)
  <2>1. Len(ups) \in Nat /\ 1 \in Int /\ Len(ups) \in Int
    BY <1>4, LenProperties
  <2>2. Cardinality(1 .. Len(ups)) = IF 1 > Len(ups) THEN 0 ELSE Len(ups) - 1 + 1
    BY <2>1, FS_Interval, Zenon
  <2> QED
    BY <2>1, <2>2
<1>9. SubSeq(rel, Len(ups) + 1, Len(rel)) = rest
  <2>1. Len(ups) \in Nat /\ Len(rest) \in Nat
    BY <1>4, <1>5, LenProperties
  <2> DEFINE tail == SubSeq(rel, Len(ups) + 1, Len(rel))
  <2> HIDE DEF rel
  <2>2. \A k \in Len(ups) + 1 .. Len(rel) : rel[k] \in W
    BY <1>6, <2>1, ElementOfSeq
  <2>3. /\ tail \in Seq(W)
        /\ Len(tail) = IF Len(ups) + 1 <= Len(rel) THEN Len(rel) - (Len(ups) + 1) + 1 ELSE 0
        /\ \A k \in 1 .. Len(rel) - (Len(ups) + 1) + 1 : tail[k] = rel[Len(ups) + 1 + k - 1]
    BY <1>6, <2>1, <2>2, SubSeqProperties, SMTT(30)
  <2> HIDE DEF tail
  <2>4. Len(tail) = Len(rest)
    BY <1>6, <2>1, <2>3
  <2>5. ASSUME NEW k \in 1 .. Len(rest) PROVE tail[k] = rest[k]
    <3>0. k \in 1 .. Len(rel) - (Len(ups) + 1) + 1
      BY <1>6, <2>1
    <3>1. tail[k] = rel[Len(ups) + 1 + k - 1]
      BY <2>3, <3>0, Zenon
    <3>2. Len(ups) + 1 + k - 1 = Len(ups) + k /\ Len(ups) + k \in 1 .. Len(ups) + Len(rest)
      BY <2>1
    <3>3. ~(Len(ups) + k <= Len(ups)) /\ (Len(ups) + k) - Len(ups) = k
      BY <2>1
    <3>4. rel[Len(ups) + k] = rest[(Len(ups) + k) - Len(ups)]
      BY <1>6, <3>2, <3>3
    <3> QED
      BY <3>1, <3>2, <3>3, <3>4
  <2>6. tail = rest
    BY <1>5, <2>3, <2>4, <2>5, SeqEqual
  <2> QED
    BY <2>6 DEF tail
<1>10. SubSeq(from, 1, Len(from) - Len(ups)) = SubSeq(to, 1, n)
  <2> DEFINE a == SubSeq(from, 1, n)
             b == SubSeq(to, 1, n)
  <2>1. \A k \in 1 .. Len(from) : from[k] \in W
    BY ElementOfSeq
  <2>2. \A k \in 1 .. Len(to) : to[k] \in W
    BY ElementOfSeq
  <2>3. (\A k \in 1 .. n : from[k] \in W) /\ (\A k \in 1 .. n : to[k] \in W)
    BY <1>1, <1>2, <2>1, <2>2
  <2>4. /\ a \in Seq(W) /\ Len(a) = IF 1 <= n THEN n - 1 + 1 ELSE 0
        /\ \A k \in 1 .. n - 1 + 1 : a[k] = from[1 + k - 1]
    BY <1>1, <2>3, SubSeqProperties
  <2>5. /\ b \in Seq(W) /\ Len(b) = IF 1 <= n THEN n - 1 + 1 ELSE 0
        /\ \A k \in 1 .. n - 1 + 1 : b[k] = to[1 + k - 1]
    BY <1>1, <2>3, SubSeqProperties
  <2> HIDE DEF a, b
  <2>6. Len(a) = Len(b) /\ \A k \in 1 .. Len(a) : a[k] = b[k]
    BY <1>1, <2>4, <2>5
  <2>7. a = b
    BY <2>4, <2>5, <2>6, SeqEqual
  <2>8. Len(from) - Len(ups) = n
    BY <1>1, <1>4
  <2> QED
    BY <2>7, <2>8 DEF a, b
<1>11. SubSeq(to, 1, n) \o rest = to
  <2>1. n \in 1 - 1 .. Len(to) /\ Len(to) \in n .. Len(to) /\ 1 \in 1 .. Len(to) + 1
    BY <1>1, <1>2
  <2>2. SubSeq(to, 1, n) \o SubSeq(to, n + 1, Len(to)) = SubSeq(to, 1, Len(to))
    BY <2>1, ConcatAdjacentSubSeq
  <2> QED
    BY <2>2, SubSeqFull DEF rest
<1> QED
  BY <1>3, <1>7, <1>8, <1>9, <1>10, <1>11 DEF LeadsTo

\* Used as they have to be, the resolvers call a file what the imports of the
\* output bind to that file, under a path that leads to it.
THEOREM BodiesFindTheirImports == ResolverSpec => []BodiesUseImports
<1>1. ResolverInv => BodiesUseImports
  <2> SUFFICES ASSUME ResolverInv, lines # {}, NEW s \in asked
               PROVE  /\ \A n \in PyNames(s) : Bound("py", n, s)
                      /\ \A n \in TsNames(s) : Bound("ts", n, s)
    BY DEF BodiesUseImports
  <2>0. s \in Registered
    BY DEF ResolverInv, AskedAreRegistered
  <2>1. PICK numbers \in aliases : lines = PyLines(numbers) \cup TsLines
    BY DEF ResolverInv, LinesAreCurrent
  <2>2. aliases = {numbers} /\ DOMAIN otherFiles = nonLocalSources
    BY <2>1 DEF ResolverInv, ResolverTypeOK
  <2>3. ASSUME NEW n \in PyNames(s) PROVE Bound("py", n, s)
    <3> DEFINE l == [lang |-> "py", name |-> n, path |-> Dir[s], of |-> s]
    <3>1. l \in PyLines(numbers)
      BY <2>0, <2>2, <2>3 DEF PyNames, PyLines, Registered, ResolverInv, ResolverTypeOK
    <3>2. PathOf(l) = Dir[s]
      BY DEF PathOf
    <3> QED
      BY <2>1, <3>1, <3>2 DEF Bound
  <2>4. ASSUME NEW n \in TsNames(s) PROVE Bound("ts", n, s)
    <3>1. s \in Sources
      BY <2>0, SourcesAssumption DEF SourcesAssumption, Registered, ResolverInv, ResolverTypeOK
    <3>2. Dir[s] \in Seq(STRING \ {".."}) /\ Dir[CurrentFile] \in Seq(STRING \ {".."})
      BY <3>1, SourcesAssumption DEF SourcesAssumption
    <3>3. CASE s = CurrentFile
      <4> DEFINE l == [lang |-> "ts", name |-> Local, path |-> <<>>, of |-> CurrentFile]
      <4>1. l \in TsLines /\ n = Local
        BY <2>4, <3>3 DEF TsNames, TsLines
      <4>2. LeadsTo(Dir[CurrentFile], <<>>) = Dir[CurrentFile]
        <5>1. {k \in DOMAIN <<>> : <<>>[k] = ".."} = {}
          OBVIOUS
        <5>2. Cardinality({}) = 0
          BY FS_EmptySet
        <5> QED
          BY <3>2, <5>1, <5>2 DEF LeadsTo
      <4> QED
        BY <2>1, <3>3, <4>1, <4>2 DEF Bound, PathOf
    <3>4. CASE s # CurrentFile
      <4> DEFINE l == [lang |-> "ts", name |-> Name(s, otherFiles[s]),
                       path |-> posixRel(Dir[CurrentFile], Dir[s]), of |-> s]
      <4>1. s \notin WellKnown /\ s \in nonLocalSources /\ n = Name(s, otherFiles[s])
        BY <2>0, <2>2, <2>4, <3>4 DEF TsNames, Registered
      <4>2. l \in TsLines
        BY <2>2, <4>1 DEF TsLines
      <4>3. LeadsTo(Dir[CurrentFile], l.path) = Dir[s]
        BY <3>2, RelativePathsLead
      <4>4. PathOf(l) = Dir[s]
        BY <4>3 DEF PathOf
      <4> HIDE DEF l
      <4>5. l.lang = "ts" /\ l.name = n /\ l.of = s
        BY <4>1 DEF l
      <4> QED
        BY <2>1, <4>2, <4>4, <4>5 DEF Bound
    <3> QED
      BY <3>3, <3>4
  <2> QED
    BY <2>3, <2>4
<1> QED
  BY <1>1, ResolverInvariant, PTL

-----------------------------------------------------------------------------
(***************************************************************************)
(* The files.                                                              *)
(***************************************************************************)

\* What a file comes to, service by service.

\* The routes of service k.
RoutesOf(k) == UsableOf(file[k])

\* What one route makes the Go file refer to.
RouteUses(r) ==
    {"iter", "http", "context", "connect", "connectaip"} \cup qualifiedTypeName(r)
    \cup When(r.verb \/ (r.stream /\ Prefixed(r)), "strings")
    \cup When(r.stream, "connectsse") \cup When(r.stream /\ HasVars(r), "json")
    \cup When(~r.stream /\ ByQuery(r) /\ hasNumericQueryParams(r), "fmt")

PyDefsOf(svc, rs) == FlattenSeq([k \in DOMAIN rs |-> PathVarFns(svc, rs[k]) \o QueryFns(svc, rs[k])])
PyRefsOf(svc, rs) == UNION {InitRefs(svc, rs[k]) : k \in DOMAIN rs}

\* Names of Go functions and definitions of Python functions.
Tags == {"handle", "PathVars", "SSEPathVars", "Query"}
GoNames ==
    (Nat \X Tags \X {m.rpc : m \in Methods})
    \cup (Nat \X {"dispatch"} \X {m.http : m \in Methods} \X {Letters[m.path] : m \in Methods})
PyDefinitions ==
    [name : {<<m.rpc, t>> : m \in Methods, t \in {"path_vars", "query"}}, svc : Nat]

\* Where the loop of generateFile is.
LoopInv ==
    /\ file \in Files /\ i \in Nat \ {0} /\ phase \in {"register", "services", "done"}
    /\ phase = "register" => i <= Len(Types) + 1 /\ goUses = {}
    /\ phase # "register" => Routes # <<>> /\ goImports = generateImports /\ pyImports = generatePyImports
    /\ phase = "services" => i <= Len(file)
    /\ phase = "done" => i = Len(file) + 1

\* The services it has printed are those ahead of the cursor.
Printed == IF phase = "register" THEN {} ELSE 1 .. i - 1

GoPrinted ==
    /\ goUses = UNION {UNION {RouteUses(r) : r \in Range(RoutesOf(k))} : k \in Printed}
    /\ goRefs = UNION {GoReferencesOf(k, RoutesOf(k)) : k \in Printed}
    /\ goFuncs \in Seq(GoNames)
    /\ Range(goFuncs) = UNION {Range(GoFunctionsOf(k, RoutesOf(k))) : k \in Printed}
    /\ IsInjective(goFuncs) <=> \A k \in Printed : IsInjective(GoFunctionsOf(k, RoutesOf(k)))

PyPrinted ==
    /\ pyUses = UNION {UNION {PyUsesOf(r) : r \in Range(RoutesOf(k))} : k \in Printed}
    /\ pyRefs = UNION {PyRefsOf(k, RoutesOf(k)) : k \in Printed}
    /\ pyDefs \in Seq(PyDefinitions)
    /\ Range(pyDefs) = UNION {Range(PyDefsOf(k, RoutesOf(k))) : k \in Printed}
    /\ \A a, b \in DOMAIN pyDefs : a <= b => pyDefs[a].svc <= pyDefs[b].svc

FileInv == LoopInv /\ GoPrinted /\ PyPrinted

\* No streaming RPC that shares a dispatcher is annotated GET: of one that does
\* the registration and the dispatcher have different names, see routes_get_stream.
StreamsArePosted ==
    \A k \in DOMAIN file : \A a \in Dispatched(RoutesOf(k)) :
        RoutesOf(k)[a].stream => RoutesOf(k)[a].http = "POST"

-----------------------------------------------------------------------------
\* The routes of a file.

\* A file has one service or two, with so many RPCs.
LEMMA FileShape ==
    ASSUME file \in Files
    PROVE  /\ MaxMethods \in Nat \ {0}
           /\ \/ \E n \in 1 .. MaxMethods : \E s \in ServicesOf(n) : file = <<s>>
              \/ \E n \in 1 .. MaxMethods - 1 : \E s \in ServicesOf(n) : \E t \in ServicesOf(MaxMethods - n) :
                    file = <<s, t>>
<1>1. MaxMethods \in Nat
  BY GeneratedFileAssumption
<1>2. \/ \E n \in 1 .. MaxMethods : \E s \in ServicesOf(n) : file = <<s>>
      \/ \E n \in 1 .. MaxMethods - 1 : \E s \in ServicesOf(n) : \E t \in ServicesOf(MaxMethods - n) :
            file = <<s, t>>
  BY DEF Files
<1> QED
  BY <1>1, <1>2

\* The usable RPCs of a service are some of its RPCs, each once.
LEMMA UsableFacts ==
    ASSUME NEW n \in Nat, NEW s \in ServicesOf(n)
    PROVE  /\ UsableOf(s) \in Seq(Methods) /\ Len(UsableOf(s)) <= n
           /\ \A j, k \in DOMAIN UsableOf(s) : UsableOf(s)[j].rpc = UsableOf(s)[k].rpc => j = k
<1>1. s \in [1 .. n -> Methods] /\ DOMAIN s = 1 .. n
  BY DEF ServicesOf
<1>2. \A k, j \in 1 .. n : s[k].rpc = s[j].rpc => k = j
  BY DEF ServicesOf
<1> DEFINE parts == [k \in DOMAIN s |-> OneIf(s[k].usable, s[k])]
           D == {k \in 1 .. n : s[k].usable}
<1>3. Picks(parts, s, D, n, Methods)
  BY <1>1 DEF OneIf, Picks
<1>4. UsableOf(s) = FlattenSeq(parts)
  BY DEF UsableOf
<1> HIDE DEF parts, D
<1>5. /\ FlattenSeq(parts) \in Seq(Methods)
      /\ Len(FlattenSeq(parts)) <= n
      /\ \A x : x \in Range(FlattenSeq(parts)) <=> \E k \in D : x = s[k]
      /\ IsInjective(FlattenSeq(parts)) <=> \A j, k \in D : s[j] = s[k] => j = k
  BY <1>3, Picked
<1>0. D \subseteq 1 .. n
  BY DEF D
<1>6. IsInjective(UsableOf(s))
  BY <1>0, <1>2, <1>4, <1>5
<1>7. ASSUME NEW j \in DOMAIN UsableOf(s), NEW k \in DOMAIN UsableOf(s),
             UsableOf(s)[j].rpc = UsableOf(s)[k].rpc
      PROVE  j = k
  <2>1. (\E l \in D : UsableOf(s)[j] = s[l]) /\ \E l \in D : UsableOf(s)[k] = s[l]
    <3>1. UsableOf(s)[j] \in Range(FlattenSeq(parts)) /\ UsableOf(s)[k] \in Range(FlattenSeq(parts))
      BY <1>4 DEF Range
    <3> QED
      BY <1>5, <3>1
  <2>2. UsableOf(s)[j] = UsableOf(s)[k]
    BY <1>0, <1>2, <1>7, <2>1
  <2> QED
    BY <1>6, <2>2 DEF IsInjective
<1> QED
  BY <1>4, <1>5, <1>7

\* One sequence, and two, flattened.
LEMMA FlattenFew ==
    ASSUME NEW S, NEW s
    PROVE  /\ s \in [1 .. 1 -> Seq(S)] => FlattenSeq(s) = s[1]
           /\ s \in [1 .. 2 -> Seq(S)] => FlattenSeq(s) = s[1] \o s[2]
<1>0. FlattenSeq(<<>>) = <<>>
  BY FlattenEmpty
<1>1. ASSUME NEW t \in [1 .. 1 -> Seq(S)] PROVE FlattenSeq(t) = t[1]
  <2>1. FlattenSeq(t) = FlattenSeq(<<>>) \o t[0 + 1]
    <3>1. t \in [1 .. 0 + 1 -> Seq(S)] /\ <<>> = [k \in 1 .. 0 |-> t[k]]
      OBVIOUS
    <3> QED
      BY <3>1, FlattenNext
  <2>2. t[1] \in Seq(S)
    OBVIOUS
  <2> QED
    BY <1>0, <2>1, <2>2, NothingAhead
<1>2. ASSUME s \in [1 .. 2 -> Seq(S)] PROVE FlattenSeq(s) = s[1] \o s[2]
  <2> DEFINE t == [k \in 1 .. 1 |-> s[k]]
  <2>1. t \in [1 .. 1 -> Seq(S)] /\ t[1] = s[1]
    BY <1>2
  <2>2. s \in [1 .. 1 + 1 -> Seq(S)] /\ 1 \in Nat
    BY <1>2
  <2>3. FlattenSeq(s) = FlattenSeq(t) \o s[1 + 1]
    BY <2>2, FlattenNext
  <2>4. FlattenSeq(t) = t[1]
    BY <1>1, <2>1
  <2> HIDE DEF t
  <2> QED
    BY <2>1, <2>3, <2>4
<1> QED
  BY <1>1, <1>2

\* Every route of a file is an RPC of a service, each once per service, and there
\* are no more than MaxMethods.
LEMMA RoutesFacts ==
    ASSUME file \in Files
    PROVE  /\ Len(file) \in 1 .. 2 /\ DOMAIN file = 1 .. Len(file)
           /\ \A k \in DOMAIN file :
                /\ RoutesOf(k) \in Seq(Methods)
                /\ \A j, l \in DOMAIN RoutesOf(k) : RoutesOf(k)[j].rpc = RoutesOf(k)[l].rpc => j = l
           /\ Routes \in Seq(Methods) /\ Len(Routes) <= MaxMethods
           /\ AllRoutes = UNION {Range(RoutesOf(k)) : k \in 1 .. Len(file)}
<1>0. MaxMethods \in Nat \ {0}
  BY FileShape
<1>1. PICK parts : parts = [k \in DOMAIN file |-> UsableOf(file[k])]
  OBVIOUS
<1>2. Routes = FlattenSeq(parts)
  BY <1>1 DEF Routes
<1>3. /\ Len(file) \in 1 .. 2 /\ DOMAIN file = 1 .. Len(file)
      /\ \A k \in DOMAIN file :
            /\ RoutesOf(k) \in Seq(Methods)
            /\ \A j, l \in DOMAIN RoutesOf(k) : RoutesOf(k)[j].rpc = RoutesOf(k)[l].rpc => j = l
      /\ Len(FlattenSeq(parts)) <= MaxMethods
  <2>1. CASE \E n \in 1 .. MaxMethods : \E s \in ServicesOf(n) : file = <<s>>
    <3>1. PICK n \in 1 .. MaxMethods : \E s \in ServicesOf(n) : file = <<s>>
      BY <2>1
    <3>2. PICK s \in ServicesOf(n) : file = <<s>>
      BY <3>1
    <3>3. n \in Nat /\ n <= MaxMethods
      BY <1>0
    <3>4. /\ UsableOf(s) \in Seq(Methods) /\ Len(UsableOf(s)) <= n
          /\ \A j, k \in DOMAIN UsableOf(s) : UsableOf(s)[j].rpc = UsableOf(s)[k].rpc => j = k
      BY <3>3, UsableFacts
    <3>5. Len(file) = 1 /\ DOMAIN file = 1 .. 1 /\ file[1] = s /\ \A k \in DOMAIN file : file[k] = s
      BY <3>2
    <3>6. parts \in [1 .. 1 -> Seq(Methods)] /\ parts[1] = UsableOf(s)
      BY <1>1, <3>4, <3>5
    <3>7. FlattenSeq(parts) = UsableOf(s)
      BY <3>6, FlattenFew
    <3>8. Len(FlattenSeq(parts)) <= MaxMethods
      <4>1. PICK q \in Seq(Methods) : q = UsableOf(s)
        BY <3>4
      <4>2. Len(q) \in Nat /\ Len(q) <= n
        BY <3>4, <4>1
      <4> QED
        BY <1>0, <3>3, <3>7, <4>1, <4>2
    <3>9. \A k \in DOMAIN file : RoutesOf(k) = UsableOf(s)
      BY <3>5 DEF RoutesOf
    <3> QED
      BY <3>4, <3>5, <3>8, <3>9
  <2>2. CASE \E n \in 1 .. MaxMethods - 1 : \E s \in ServicesOf(n) :
                \E t \in ServicesOf(MaxMethods - n) : file = <<s, t>>
    <3>1. PICK n \in 1 .. MaxMethods - 1 : \E s \in ServicesOf(n) :
                \E t \in ServicesOf(MaxMethods - n) : file = <<s, t>>
      BY <2>2
    <3>2. PICK s \in ServicesOf(n) : \E t \in ServicesOf(MaxMethods - n) : file = <<s, t>>
      BY <3>1
    <3>3. PICK t \in ServicesOf(MaxMethods - n) : file = <<s, t>>
      BY <3>2
    <3>4. n \in Nat /\ MaxMethods - n \in Nat
      BY <1>0
    <3>5. /\ UsableOf(s) \in Seq(Methods) /\ Len(UsableOf(s)) <= n
          /\ \A j, k \in DOMAIN UsableOf(s) : UsableOf(s)[j].rpc = UsableOf(s)[k].rpc => j = k
      BY <3>4, UsableFacts
    <3>6. /\ UsableOf(t) \in Seq(Methods) /\ Len(UsableOf(t)) <= MaxMethods - n
          /\ \A j, k \in DOMAIN UsableOf(t) : UsableOf(t)[j].rpc = UsableOf(t)[k].rpc => j = k
      BY <3>4, UsableFacts
    <3>7. /\ Len(file) = 2 /\ DOMAIN file = 1 .. 2 /\ file[1] = s /\ file[2] = t
          /\ \A k \in DOMAIN file : k = 1 \/ k = 2
      BY <3>3
    <3>8. parts \in [1 .. 2 -> Seq(Methods)] /\ parts[1] = UsableOf(s) /\ parts[2] = UsableOf(t)
      BY <1>1, <3>5, <3>6, <3>7
    <3>9. FlattenSeq(parts) = UsableOf(s) \o UsableOf(t)
      BY <3>8, FlattenFew
    <3>10. Len(FlattenSeq(parts)) <= MaxMethods
      <4>1. PICK q \in Seq(Methods) : q = UsableOf(s)
        BY <3>5
      <4>2. PICK u \in Seq(Methods) : u = UsableOf(t)
        BY <3>6
      <4>3. Len(q) \in Nat /\ Len(q) <= n /\ Len(u) \in Nat /\ Len(u) <= MaxMethods - n
        BY <3>5, <3>6, <4>1, <4>2
      <4>4. Len(q \o u) = Len(q) + Len(u)
        BY Concatenated
      <4>5. FlattenSeq(parts) = q \o u
        BY <3>9, <4>1, <4>2
      <4> QED
        BY <1>0, <3>4, <4>3, <4>4, <4>5
    <3>11. RoutesOf(1) = UsableOf(s) /\ RoutesOf(2) = UsableOf(t)
      BY <3>7 DEF RoutesOf
    <3> QED
      BY <3>5, <3>6, <3>7, <3>10, <3>11
  <2> QED
    BY <2>1, <2>2, FileShape
<1>4. PICK n \in Nat : n = Len(file)
  <2>1. PICK n \in 1 .. 2 : n = Len(file)
    BY <1>3, Zenon
  <2>2. n \in Nat
    OBVIOUS
  <2> QED
    BY <2>1, <2>2, Zenon
<1>5. parts \in [1 .. n -> Seq(Methods)] /\ \A k \in 1 .. n : parts[k] = RoutesOf(k)
  BY <1>1, <1>3, <1>4 DEF RoutesOf
<1>6. FlattenSeq(parts) \in Seq(Methods) /\ Range(FlattenSeq(parts)) = UNION {Range(parts[k]) : k \in 1 .. n}
  BY <1>5, FlattenOnce
<1>7. AllRoutes = Range(FlattenSeq(parts))
  BY <1>2 DEF AllRoutes, Range
<1>8. UNION {Range(parts[k]) : k \in 1 .. n} = UNION {Range(RoutesOf(k)) : k \in 1 .. n}
  BY <1>5
<1> QED
  BY <1>2, <1>3, <1>4, <1>6, <1>7, <1>8

\* The messages that are registered are of known files.
LEMMA TypesFacts ==
    ASSUME file \in Files
    PROVE  /\ Types \in Seq(Sources) /\ Len(Types) \in Nat /\ Len(Types) <= 2 * MaxMethods
<1>0. MaxMethods \in Nat
  BY GeneratedFileAssumption
<1>1. Routes \in Seq(Methods) /\ Len(Routes) <= MaxMethods
  BY RoutesFacts
<1>2. PICK n \in Nat : n = Len(Routes)
  BY <1>1
<1>3. PICK parts : parts = [k \in DOMAIN Routes |-> <<Routes[k].in, Routes[k].out>>]
  OBVIOUS
<1>4. \A k \in 1 .. n : Routes[k].in \in Sources /\ Routes[k].out \in Sources
  <2>1. \A m \in Methods : m.in \in Sources /\ m.out \in Sources
    BY GeneratedFileAssumption
  <2>2. \A k \in 1 .. n : Routes[k] \in Methods
    BY <1>1, <1>2
  <2> QED
    BY <2>1, <2>2
<1>5. DOMAIN Routes = 1 .. n
  BY <1>1, <1>2
<1>6. parts \in [1 .. n -> Seq(Sources)] /\ \A k \in 1 .. n : Len(parts[k]) <= 2
  BY <1>3, <1>4, <1>5
<1>7. Types = FlattenSeq(parts)
  BY <1>3 DEF Types
<1>8. FlattenSeq(parts) \in Seq(Sources) /\ Len(FlattenSeq(parts)) <= 2 * n
  BY <1>6, FlattenOnce, FlattenLength
<1>9. PICK q \in Seq(Sources) : q = FlattenSeq(parts)
  BY <1>8
<1>10. Len(q) \in Nat /\ Len(q) <= 2 * n /\ n <= MaxMethods
  BY <1>1, <1>2, <1>8, <1>9
<1> QED
  BY <1>0, <1>7, <1>9, <1>10

-----------------------------------------------------------------------------
\* One service of the Go file.

\* The places of the routes of a service.
LEMMA Places ==
    ASSUME NEW rs \in Seq(Methods)
    PROVE  /\ Len(rs) \in Nat /\ DOMAIN rs = 1 .. Len(rs) /\ rs \in [1 .. Len(rs) -> Methods]
           /\ \A k \in DOMAIN rs : rs[k] \in Methods
           /\ Range(rs) = {rs[k] : k \in DOMAIN rs}
           /\ rs # <<>> <=> DOMAIN rs # {}
<1>1. /\ Len(rs) \in Nat /\ DOMAIN rs = 1 .. Len(rs) /\ rs \in [1 .. Len(rs) -> Methods]
      /\ \A k \in DOMAIN rs : rs[k] \in Methods
  OBVIOUS
<1>2. ASSUME DOMAIN rs = {} PROVE rs = <<>>
  <2>1. Len(rs) = 0
    BY <1>1, <1>2
  <2> QED
    BY <2>1
<1>3. DOMAIN <<>> = {}
  OBVIOUS
<1> QED
  BY <1>1, <1>2, <1>3 DEF Range

\* Which packages one service refers to is said by its routes, one by one.
LEMMA UsesByRoute ==
    ASSUME NEW rs \in Seq(Methods)
    PROVE  When(rs # <<>>, "iter") \cup When(Dispatched(rs) # {}, "strings")
           \cup UNION {HandlerUses(rs[k]) \cup ClientUses(rs[k]) : k \in DOMAIN rs}
             = UNION {RouteUses(r) : r \in Range(rs)}
<1> DEFINE iter == When(rs # <<>>, "iter")
           dispatch == When(Dispatched(rs) # {}, "strings")
           printed_ == UNION {HandlerUses(rs[k]) \cup ClientUses(rs[k]) : k \in DOMAIN rs}
<1>1. Range(rs) = {rs[k] : k \in DOMAIN rs} /\ (rs # <<>> <=> DOMAIN rs # {})
  BY Places
<1>2. \A r \in Methods : Prefixed(r) => HasVars(r)
  BY DEF Prefixed, HasVars
<1>3. \A k \in DOMAIN rs : rs[k] \in Methods
  BY Places
<1>4. Dispatched(rs) # {} <=> \E k \in DOMAIN rs : rs[k].verb
  BY DEF Dispatched, SameGroup
<1>5. \A k \in DOMAIN rs :
        HandlerUses(rs[k]) \cup ClientUses(rs[k]) \cup {"iter"} \cup When(rs[k].verb, "strings") = RouteUses(rs[k])
  <2> SUFFICES ASSUME NEW k \in DOMAIN rs
      PROVE HandlerUses(rs[k]) \cup ClientUses(rs[k]) \cup {"iter"} \cup When(rs[k].verb, "strings") = RouteUses(rs[k])
    OBVIOUS
  <2>1. PICK r \in Methods : r = rs[k]
    BY <1>3
  <2>2. HandlerUses(r) \cup ClientUses(r) \cup {"iter"} \cup When(r.verb, "strings") = RouteUses(r)
    <3>1. CASE r.stream
      BY <1>2, <3>1 DEF HandlerUses, ClientUses, RouteUses, When
    <3>2. CASE ~r.stream
      BY <3>2 DEF HandlerUses, ClientUses, RouteUses, When
    <3> QED
      BY <3>1, <3>2
  <2> QED
    BY <2>1, <2>2
<1>6. ASSUME NEW x PROVE x \in iter \cup dispatch \cup printed_ <=> \E k \in DOMAIN rs : x \in RouteUses(rs[k])
  <2>1. x \in iter <=> x = "iter" /\ \E k \in DOMAIN rs : TRUE
    BY <1>1 DEF When
  <2>2. x \in dispatch <=> x = "strings" /\ \E k \in DOMAIN rs : rs[k].verb
    BY <1>4 DEF When
  <2>3. x \in printed_ <=> \E k \in DOMAIN rs : x \in HandlerUses(rs[k]) \cup ClientUses(rs[k])
    OBVIOUS
  <2>4. \A k \in DOMAIN rs : x \in RouteUses(rs[k]) <=>
           \/ x \in HandlerUses(rs[k]) \cup ClientUses(rs[k])
           \/ x = "iter"
           \/ x = "strings" /\ rs[k].verb
    BY <1>5 DEF When
  <2> HIDE DEF iter, dispatch, printed_
  <2> QED
    BY <2>1, <2>2, <2>3, <2>4
<1> HIDE DEF iter, dispatch, printed_
<1>7. iter \cup dispatch \cup printed_ = UNION {RouteUses(r) : r \in Range(rs)}
  BY <1>1, <1>6
<1> QED
  BY <1>7 DEF iter, dispatch, printed_

\* No RPC of a service is there twice.
RpcsDistinct(rs) == \A j, k \in DOMAIN rs : rs[j].rpc = rs[k].rpc => j = k

\* They are what their routes say, and no two have one name.
LEMMA FunctionsForFacts ==
    ASSUME NEW svc \in Nat, NEW tag \in Tags, NEW rs \in Seq(Methods), RpcsDistinct(rs),
           NEW D, D \subseteq DOMAIN rs
    PROVE  /\ FunctionsFor(svc, tag, rs, D) \in Seq(GoNames)
           /\ \A x : x \in Range(FunctionsFor(svc, tag, rs, D)) <=> \E k \in D : x = <<svc, tag, rs[k].rpc>>
           /\ IsInjective(FunctionsFor(svc, tag, rs, D))
<1> DEFINE n == Len(rs)
           g == [k \in 1 .. n |-> <<svc, tag, rs[k].rpc>>]
           parts == [k \in DOMAIN rs |-> OneIf(k \in D, <<svc, tag, rs[k].rpc>>)]
<1>1. n \in Nat /\ DOMAIN rs = 1 .. n /\ \A k \in 1 .. n : rs[k] \in Methods
  BY Places
<1>2. \A k \in 1 .. n : <<svc, tag, rs[k].rpc>> \in GoNames
  BY <1>1 DEF GoNames
<1>3. Picks(parts, g, D, n, GoNames)
  <2> HIDE DEF n
  <2> QED
    BY <1>1, <1>2 DEF Picks, OneIf
<1>4. FunctionsFor(svc, tag, rs, D) = FlattenSeq(parts)
  BY DEF FunctionsFor
<1>5. \A k \in D : k \in 1 .. n /\ g[k] = <<svc, tag, rs[k].rpc>>
  BY <1>1
<1> HIDE DEF parts, g, n
<1>6. /\ FlattenSeq(parts) \in Seq(GoNames)
      /\ \A x : x \in Range(FlattenSeq(parts)) <=> \E k \in D : x = g[k]
      /\ IsInjective(FlattenSeq(parts)) <=> \A j, k \in D : g[j] = g[k] => j = k
  BY <1>3, Picked
<1>7. \A j, k \in D : g[j] = g[k] => j = k
  <2> SUFFICES ASSUME NEW j \in D, NEW k \in D, g[j] = g[k] PROVE j = k
    OBVIOUS
  <2>1. <<svc, tag, rs[j].rpc>> = <<svc, tag, rs[k].rpc>>
    BY <1>5
  <2>2. rs[j].rpc = rs[k].rpc
    BY <2>1
  <2> QED
    BY <1>1, <1>5, <2>2 DEF RpcsDistinct
<1>8. /\ FunctionsFor(svc, tag, rs, D) \in Seq(GoNames)
      /\ IsInjective(FunctionsFor(svc, tag, rs, D))
  BY <1>4, <1>6, <1>7
<1>9. \A x : x \in Range(FunctionsFor(svc, tag, rs, D)) <=> \E k \in D : x = g[k]
  BY <1>4, <1>6
<1>10. ASSUME NEW x
       PROVE  (\E k \in D : x = g[k]) <=> \E k \in D : x = <<svc, tag, rs[k].rpc>>
  <2>1. ASSUME NEW k \in D PROVE g[k] = <<svc, tag, rs[k].rpc>>
    BY <1>5
  <2> QED
    BY <2>1, Zenon
<1> QED
  BY <1>8, <1>9, <1>10, Zenon

\* The first routes of the groups with a verb, and the dispatchers named for them.
HasDispatcher(rs) == {k \in DOMAIN rs : k \in Dispatched(rs) /\ First(rs, k)}
DispatcherOf(svc, rs, k) == dispatcherFuncName(svc, rs[k].http, rs[k].path)

\* They have the names of their routes, one for each first route of a group.
LEMMA DispatchersFacts ==
    ASSUME NEW svc \in Nat, NEW rs \in Seq(Methods)
    PROVE  /\ Dispatchers(svc, rs) \in Seq(GoNames)
           /\ \A x : x \in Range(Dispatchers(svc, rs)) <=> \E k \in HasDispatcher(rs) : x = DispatcherOf(svc, rs, k)
           /\ IsInjective(Dispatchers(svc, rs)) <=>
                \A j, k \in HasDispatcher(rs) : DispatcherOf(svc, rs, j) = DispatcherOf(svc, rs, k) => j = k
<1> DEFINE n == Len(rs)
           D == HasDispatcher(rs)
           g == [k \in 1 .. n |-> DispatcherOf(svc, rs, k)]
           parts == [k \in DOMAIN rs |-> OneIf(k \in Dispatched(rs) /\ First(rs, k),
                                              dispatcherFuncName(svc, rs[k].http, rs[k].path))]
<1>1. n \in Nat /\ DOMAIN rs = 1 .. n /\ \A k \in 1 .. n : rs[k] \in Methods
  BY Places
<1>2. \A k \in 1 .. n : DispatcherOf(svc, rs, k) \in GoNames
  BY <1>1 DEF GoNames, DispatcherOf, dispatcherFuncName
<1>3. Picks(parts, g, D, n, GoNames)
  <2>1. D \subseteq 1 .. n /\ g \in [1 .. n -> GoNames]
    BY <1>1, <1>2 DEF HasDispatcher
  <2>2. \A k \in 1 .. n : parts[k] = IF k \in D THEN <<g[k]>> ELSE <<>>
    BY <1>1 DEF OneIf, HasDispatcher, DispatcherOf
  <2>3. DOMAIN parts = 1 .. n /\ parts = [k \in 1 .. n |-> parts[k]]
    BY <1>1
  <2> HIDE DEF n, D, g, parts
  <2>4. parts \in [1 .. n -> Seq(GoNames)]
    <3>1. ASSUME NEW k \in 1 .. n PROVE parts[k] \in Seq(GoNames)
      <4>1. CASE k \in D
        <5>1. PICK a \in GoNames : a = g[k]
          BY <2>1
        <5>2. parts[k] = <<a>>
          BY <2>2, <4>1, <5>1
        <5> QED
          BY <5>2
      <4>2. CASE k \notin D
        <5>1. parts[k] = <<>>
          BY <2>2, <4>2
        <5> QED
          BY <5>1
      <4> QED
        BY <4>1, <4>2
    <3> QED
      BY <2>3, <3>1
  <2> QED
    BY <1>1, <2>1, <2>2, <2>4 DEF Picks
<1>4. Dispatchers(svc, rs) = FlattenSeq(parts)
  BY DEF Dispatchers
<1>5. \A k \in D : k \in 1 .. n /\ g[k] = DispatcherOf(svc, rs, k)
  BY <1>1 DEF HasDispatcher
<1> HIDE DEF parts, g, n, D
<1>6. /\ FlattenSeq(parts) \in Seq(GoNames)
      /\ \A x : x \in Range(FlattenSeq(parts)) <=> \E k \in D : x = g[k]
      /\ IsInjective(FlattenSeq(parts)) <=> \A j, k \in D : g[j] = g[k] => j = k
  BY <1>3, Picked
<1>7. D = HasDispatcher(rs)
  BY DEF D
<1> QED
  BY <1>4, <1>5, <1>6, <1>7

\* Two functions of one service have one name only if both are dispatchers.
LEMMA ServiceFunctions ==
    ASSUME NEW svc \in Nat, NEW rs \in Seq(Methods), RpcsDistinct(rs)
    PROVE  /\ GoFunctionsOf(svc, rs) \in Seq(GoNames)
           /\ \A x : x \in Range(GoFunctionsOf(svc, rs)) <=>
                \/ \E k \in DOMAIN rs : x = <<svc, "handle", rs[k].rpc>>
                \/ \E k \in HasDispatcher(rs) : x = DispatcherOf(svc, rs, k)
                \/ \E k \in DOMAIN rs : ~rs[k].stream /\ HasVars(rs[k]) /\ x = <<svc, "PathVars", rs[k].rpc>>
                \/ \E k \in DOMAIN rs : rs[k].stream /\ HasVars(rs[k]) /\ x = <<svc, "SSEPathVars", rs[k].rpc>>
                \/ \E k \in DOMAIN rs : Asked(rs[k]) /\ x = <<svc, "Query", rs[k].rpc>>
           /\ IsInjective(GoFunctionsOf(svc, rs)) <=>
                \A j, k \in HasDispatcher(rs) : DispatcherOf(svc, rs, j) = DispatcherOf(svc, rs, k) => j = k
<1> DEFINE U == {k \in DOMAIN rs : ~rs[k].stream /\ HasVars(rs[k])}
           W == {k \in DOMAIN rs : rs[k].stream /\ HasVars(rs[k])}
           Q == {k \in DOMAIN rs : Asked(rs[k])}
           a == FunctionsFor(svc, "handle", rs, DOMAIN rs)
           b == Dispatchers(svc, rs)
           c == FunctionsFor(svc, "PathVars", rs, U)
           d == FunctionsFor(svc, "SSEPathVars", rs, W)
           e == FunctionsFor(svc, "Query", rs, Q)
<1>0. GoFunctionsOf(svc, rs) = a \o b \o c \o d \o e
  BY DEF GoFunctionsOf
<1>1. /\ a \in Seq(GoNames) /\ IsInjective(a)
      /\ \A x : x \in Range(a) <=> \E k \in DOMAIN rs : x = <<svc, "handle", rs[k].rpc>>
  BY FunctionsForFacts DEF Tags
<1>2. /\ b \in Seq(GoNames)
      /\ \A x : x \in Range(b) <=> \E k \in HasDispatcher(rs) : x = DispatcherOf(svc, rs, k)
      /\ IsInjective(b) <=>
            \A j, k \in HasDispatcher(rs) : DispatcherOf(svc, rs, j) = DispatcherOf(svc, rs, k) => j = k
  BY DispatchersFacts
<1>3. /\ c \in Seq(GoNames) /\ IsInjective(c)
      /\ \A x : x \in Range(c) <=> \E k \in U : x = <<svc, "PathVars", rs[k].rpc>>
  BY FunctionsForFacts DEF Tags
<1>4. /\ d \in Seq(GoNames) /\ IsInjective(d)
      /\ \A x : x \in Range(d) <=> \E k \in W : x = <<svc, "SSEPathVars", rs[k].rpc>>
  BY FunctionsForFacts DEF Tags
<1>5. /\ e \in Seq(GoNames) /\ IsInjective(e)
      /\ \A x : x \in Range(e) <=> \E k \in Q : x = <<svc, "Query", rs[k].rpc>>
  BY FunctionsForFacts DEF Tags
<1>6. /\ \A x \in Range(a) : x[2] = "handle"
      /\ \A x \in Range(b) : x[2] = "dispatch"
      /\ \A x \in Range(c) : x[2] = "PathVars"
      /\ \A x \in Range(d) : x[2] = "SSEPathVars"
      /\ \A x \in Range(e) : x[2] = "Query"
  <2> HIDE DEF a, b, c, d, e, U, W, Q
  <2>1. \A x \in Range(a) : x[2] = "handle"
    BY <1>1
  <2>2. \A x \in Range(b) : x[2] = "dispatch"
    BY <1>2 DEF DispatcherOf, dispatcherFuncName
  <2>3. \A x \in Range(c) : x[2] = "PathVars"
    BY <1>3
  <2>4. \A x \in Range(d) : x[2] = "SSEPathVars"
    BY <1>4
  <2>5. \A x \in Range(e) : x[2] = "Query"
    BY <1>5
  <2> QED
    BY <2>1, <2>2, <2>3, <2>4, <2>5
<1>7. /\ \A x : (\E k \in U : x = <<svc, "PathVars", rs[k].rpc>>) <=>
            \E k \in DOMAIN rs : ~rs[k].stream /\ HasVars(rs[k]) /\ x = <<svc, "PathVars", rs[k].rpc>>
      /\ \A x : (\E k \in W : x = <<svc, "SSEPathVars", rs[k].rpc>>) <=>
            \E k \in DOMAIN rs : rs[k].stream /\ HasVars(rs[k]) /\ x = <<svc, "SSEPathVars", rs[k].rpc>>
      /\ \A x : (\E k \in Q : x = <<svc, "Query", rs[k].rpc>>) <=>
            \E k \in DOMAIN rs : Asked(rs[k]) /\ x = <<svc, "Query", rs[k].rpc>>
  BY Zenon
<1> HIDE DEF a, b, c, d, e, U, W, Q
<1> DEFINE ab == a \o b
           abc == ab \o c
           abcd == abc \o d
           abcde == abcd \o e
<1>8. /\ ab \in Seq(GoNames)
      /\ Range(ab) = Range(a) \cup Range(b)
      /\ IsInjective(ab) <=> IsInjective(b)
  <2>1. Apart(a, b, GoNames)
    <3>1. Range(a) \cap Range(b) = {}
      BY <1>6, <1>1
    <3> QED
      BY <1>2, <1>1, <3>1 DEF Apart
  <2>2. /\ ab \in Seq(GoNames)
        /\ Range(ab) = Range(a) \cup Range(b)
        /\ IsInjective(ab) <=> IsInjective(a) /\ IsInjective(b)
    BY <2>1, DisjointJoined
  <2> HIDE DEF ab
  <2> QED
    BY <1>2, <1>1, <2>2
<1> HIDE DEF ab
<1>9. /\ abc \in Seq(GoNames)
      /\ Range(abc) = Range(a) \cup Range(b) \cup Range(c)
      /\ IsInjective(abc) <=> IsInjective(b)
  <2>1. Apart(ab, c, GoNames)
    <3>1. Range(ab) \cap Range(c) = {}
      BY <1>6, <1>8
    <3> QED
      BY <1>3, <1>8, <3>1 DEF Apart
  <2>2. /\ abc \in Seq(GoNames)
        /\ Range(abc) = Range(ab) \cup Range(c)
        /\ IsInjective(abc) <=> IsInjective(ab) /\ IsInjective(c)
    BY <2>1, DisjointJoined
  <2> HIDE DEF abc
  <2> QED
    BY <1>3, <1>8, <2>2
<1> HIDE DEF abc
<1>10. /\ abcd \in Seq(GoNames)
       /\ Range(abcd) = Range(a) \cup Range(b) \cup Range(c) \cup Range(d)
       /\ IsInjective(abcd) <=> IsInjective(b)
  <2>1. Apart(abc, d, GoNames)
    <3>1. Range(abc) \cap Range(d) = {}
      BY <1>6, <1>9
    <3> QED
      BY <1>4, <1>9, <3>1 DEF Apart
  <2>2. /\ abcd \in Seq(GoNames)
        /\ Range(abcd) = Range(abc) \cup Range(d)
        /\ IsInjective(abcd) <=> IsInjective(abc) /\ IsInjective(d)
    BY <2>1, DisjointJoined
  <2> HIDE DEF abcd
  <2> QED
    BY <1>4, <1>9, <2>2
<1> HIDE DEF abcd
<1>11. /\ abcde \in Seq(GoNames)
       /\ Range(abcde) = Range(a) \cup Range(b) \cup Range(c) \cup Range(d) \cup Range(e)
       /\ IsInjective(abcde) <=> IsInjective(b)
  <2>1. Apart(abcd, e, GoNames)
    <3>1. Range(abcd) \cap Range(e) = {}
      BY <1>6, <1>10
    <3> QED
      BY <1>5, <1>10, <3>1 DEF Apart
  <2>2. /\ abcde \in Seq(GoNames)
        /\ Range(abcde) = Range(abcd) \cup Range(e)
        /\ IsInjective(abcde) <=> IsInjective(abcd) /\ IsInjective(e)
    BY <2>1, DisjointJoined
  <2> HIDE DEF abcde
  <2> QED
    BY <1>5, <1>10, <2>2
<1> HIDE DEF abcde
<1>13. GoFunctionsOf(svc, rs) = abcde
  BY <1>0, Zenon DEF ab, abc, abcd, abcde
<1>12. ASSUME NEW x
       PROVE  x \in Range(GoFunctionsOf(svc, rs)) <=>
                \/ \E k \in DOMAIN rs : x = <<svc, "handle", rs[k].rpc>>
                \/ \E k \in HasDispatcher(rs) : x = DispatcherOf(svc, rs, k)
                \/ \E k \in DOMAIN rs : ~rs[k].stream /\ HasVars(rs[k]) /\ x = <<svc, "PathVars", rs[k].rpc>>
                \/ \E k \in DOMAIN rs : rs[k].stream /\ HasVars(rs[k]) /\ x = <<svc, "SSEPathVars", rs[k].rpc>>
                \/ \E k \in DOMAIN rs : Asked(rs[k]) /\ x = <<svc, "Query", rs[k].rpc>>
  <2>1. x \in Range(GoFunctionsOf(svc, rs)) <=>
           x \in Range(a) \/ x \in Range(b) \/ x \in Range(c) \/ x \in Range(d) \/ x \in Range(e)
    BY <1>11, <1>13
  <2>2. x \in Range(a) <=> \E k \in DOMAIN rs : x = <<svc, "handle", rs[k].rpc>>
    BY <1>1, Zenon
  <2>3. x \in Range(b) <=> \E k \in HasDispatcher(rs) : x = DispatcherOf(svc, rs, k)
    BY <1>2, Zenon
  <2>4. x \in Range(c) <=>
          \E k \in DOMAIN rs : ~rs[k].stream /\ HasVars(rs[k]) /\ x = <<svc, "PathVars", rs[k].rpc>>
    BY <1>3, <1>7, Zenon
  <2>5. x \in Range(d) <=>
          \E k \in DOMAIN rs : rs[k].stream /\ HasVars(rs[k]) /\ x = <<svc, "SSEPathVars", rs[k].rpc>>
    BY <1>4, <1>7, Zenon
  <2>6. x \in Range(e) <=> \E k \in DOMAIN rs : Asked(rs[k]) /\ x = <<svc, "Query", rs[k].rpc>>
    BY <1>5, <1>7, Zenon
  <2> QED
    BY <2>1, <2>2, <2>3, <2>4, <2>5, <2>6, Zenon
<1> QED
  BY <1>2, <1>11, <1>12, <1>13, Zenon

-----------------------------------------------------------------------------
\* One service of the Python file.

\* The functions printed for a service are those of its routes, and its own.
LEMMA ServiceDefinitions ==
    ASSUME NEW svc \in Nat, NEW rs \in Seq(Methods)
    PROVE  /\ PyDefsOf(svc, rs) \in Seq(PyDefinitions)
           /\ \A x : x \in Range(PyDefsOf(svc, rs)) <=>
                \E k \in DOMAIN rs :
                   \/ HasVars(rs[k]) /\ x = [name |-> <<rs[k].rpc, "path_vars">>, svc |-> svc]
                   \/ PyHasQuery(rs[k]) /\ x = [name |-> <<rs[k].rpc, "query">>, svc |-> svc]
<1> DEFINE n == Len(rs)
           vars_(k) == [name |-> <<rs[k].rpc, "path_vars">>, svc |-> svc]
           query(k) == [name |-> <<rs[k].rpc, "query">>, svc |-> svc]
           parts == [k \in DOMAIN rs |-> PathVarFns(svc, rs[k]) \o QueryFns(svc, rs[k])]
<1>1. n \in Nat /\ DOMAIN rs = 1 .. n /\ \A k \in 1 .. n : rs[k] \in Methods
  BY Places
<1>2. \A k \in 1 .. n : vars_(k) \in PyDefinitions /\ query(k) \in PyDefinitions
  <2> SUFFICES ASSUME NEW k \in 1 .. n PROVE vars_(k) \in PyDefinitions /\ query(k) \in PyDefinitions
    OBVIOUS
  <2>1. PICK m \in Methods : m = rs[k]
    BY <1>1
  <2> QED
    BY <2>1 DEF PyDefinitions
<1> HIDE DEF n
<1>3. ASSUME NEW k \in 1 .. n
      PROVE  /\ PathVarFns(svc, rs[k]) \in Seq(PyDefinitions)
             /\ \A x : x \in Range(PathVarFns(svc, rs[k])) <=> HasVars(rs[k]) /\ x = vars_(k)
             /\ QueryFns(svc, rs[k]) \in Seq(PyDefinitions)
             /\ \A x : x \in Range(QueryFns(svc, rs[k])) <=> PyHasQuery(rs[k]) /\ x = query(k)
  <2>1. PathVarFns(svc, rs[k]) = IF HasVars(rs[k]) THEN <<vars_(k)>> ELSE <<>>
    BY DEF PathVarFns, OneIf
  <2>2. QueryFns(svc, rs[k]) = IF PyHasQuery(rs[k]) THEN <<query(k)>> ELSE <<>>
    BY DEF QueryFns, OneIf
  <2>3. vars_(k) \in PyDefinitions /\ query(k) \in PyDefinitions
    BY <1>2
  <2> HIDE DEF vars_, query
  <2>4. Range(<<vars_(k)>>) = {vars_(k)} /\ Range(<<query(k)>>) = {query(k)} /\ Range(<<>>) = {}
    BY OneOrNone, Zenon
  <2>5. <<vars_(k)>> \in Seq(PyDefinitions) /\ <<query(k)>> \in Seq(PyDefinitions) /\ <<>> \in Seq(PyDefinitions)
    BY <2>3
  <2>6. /\ PathVarFns(svc, rs[k]) \in Seq(PyDefinitions)
        /\ \A x : x \in Range(PathVarFns(svc, rs[k])) <=> HasVars(rs[k]) /\ x = vars_(k)
    <3>1. CASE HasVars(rs[k])
      BY <2>1, <2>4, <2>5, <3>1
    <3>2. CASE ~HasVars(rs[k])
      <4>1. PathVarFns(svc, rs[k]) = <<>>
        BY <2>1, <3>2
      <4> QED
        BY <2>4, <2>5, <3>2, <4>1
    <3> QED
      BY <3>1, <3>2
  <2>7. /\ QueryFns(svc, rs[k]) \in Seq(PyDefinitions)
        /\ \A x : x \in Range(QueryFns(svc, rs[k])) <=> PyHasQuery(rs[k]) /\ x = query(k)
    <3>1. CASE PyHasQuery(rs[k])
      BY <2>2, <2>4, <2>5, <3>1
    <3>2. CASE ~PyHasQuery(rs[k])
      <4>1. QueryFns(svc, rs[k]) = <<>>
        BY <2>2, <3>2
      <4> QED
        BY <2>4, <2>5, <3>2, <4>1
    <3> QED
      BY <3>1, <3>2
  <2> QED
    BY <2>6, <2>7
<1> HIDE DEF vars_, query
<1>4. ASSUME NEW k \in 1 .. n
      PROVE  /\ PathVarFns(svc, rs[k]) \o QueryFns(svc, rs[k]) \in Seq(PyDefinitions)
             /\ \A x : x \in Range(PathVarFns(svc, rs[k]) \o QueryFns(svc, rs[k])) <=>
                    \/ HasVars(rs[k]) /\ x = vars_(k)
                    \/ PyHasQuery(rs[k]) /\ x = query(k)
  <2>1. PICK p \in Seq(PyDefinitions) : p = PathVarFns(svc, rs[k])
    BY <1>3
  <2>2. PICK q \in Seq(PyDefinitions) : q = QueryFns(svc, rs[k])
    BY <1>3
  <2>3. p \o q \in Seq(PyDefinitions) /\ Range(p \o q) = Range(p) \cup Range(q)
    BY Concatenated, RangeJoined
  <2>4. \A x : x \in Range(p) <=> HasVars(rs[k]) /\ x = vars_(k)
    BY <1>3, <2>1
  <2>5. \A x : x \in Range(q) <=> PyHasQuery(rs[k]) /\ x = query(k)
    BY <1>3, <2>2
  <2>6. PathVarFns(svc, rs[k]) \o QueryFns(svc, rs[k]) = p \o q
    BY <2>1, <2>2
  <2> QED
    BY <2>3, <2>4, <2>5, <2>6
<1>5. parts \in [1 .. n -> Seq(PyDefinitions)] /\ \A k \in 1 .. n : parts[k] = PathVarFns(svc, rs[k]) \o QueryFns(svc, rs[k])
  BY <1>1, <1>4
<1>6. PyDefsOf(svc, rs) = FlattenSeq(parts)
  BY DEF PyDefsOf
<1> HIDE DEF parts
<1>7. /\ FlattenSeq(parts) \in Seq(PyDefinitions)
      /\ \A x : x \in Range(FlattenSeq(parts)) <=> \E k \in 1 .. n : x \in Range(parts[k])
  <2>1. PICK m \in Nat : m = n
    BY <1>1
  <2>2. PICK s \in [1 .. m -> Seq(PyDefinitions)] : s = parts
    BY <1>5, <2>1
  <2>3. /\ FlattenSeq(s) \in Seq(PyDefinitions)
        /\ Range(FlattenSeq(s)) = UNION {Range(s[k]) : k \in 1 .. m}
    BY FlattenOnce, ZenonT(60)
  <2>4. \A x : x \in Range(FlattenSeq(s)) <=> \E k \in 1 .. m : x \in Range(s[k])
    BY <2>3
  <2> QED
    BY <2>1, <2>2, <2>3, <2>4
<1>8. \A k \in 1 .. n : \A x : x \in Range(parts[k]) <=>
                    \/ HasVars(rs[k]) /\ x = vars_(k)
                    \/ PyHasQuery(rs[k]) /\ x = query(k)
  BY <1>4, <1>5
<1>9. \A x : x \in Range(PyDefsOf(svc, rs)) <=>
         \E k \in 1 .. n : \/ HasVars(rs[k]) /\ x = vars_(k)
                           \/ PyHasQuery(rs[k]) /\ x = query(k)
  <2> SUFFICES ASSUME NEW x
      PROVE  x \in Range(PyDefsOf(svc, rs)) <=>
                \E k \in 1 .. n : \/ HasVars(rs[k]) /\ x = vars_(k)
                                  \/ PyHasQuery(rs[k]) /\ x = query(k)
    OBVIOUS
  <2>1. x \in Range(PyDefsOf(svc, rs)) <=> \E k \in 1 .. n : x \in Range(parts[k])
    BY <1>6, <1>7
  <2> QED
    BY <1>8, <2>1
<1>10. \A k : /\ vars_(k) = [name |-> <<rs[k].rpc, "path_vars">>, svc |-> svc]
              /\ query(k) = [name |-> <<rs[k].rpc, "query">>, svc |-> svc]
  BY DEF vars_, query
<1>11. \A x : x \in Range(PyDefsOf(svc, rs)) <=>
                \E k \in DOMAIN rs :
                   \/ HasVars(rs[k]) /\ x = [name |-> <<rs[k].rpc, "path_vars">>, svc |-> svc]
                   \/ PyHasQuery(rs[k]) /\ x = [name |-> <<rs[k].rpc, "query">>, svc |-> svc]
  BY <1>1, <1>9, <1>10, Zenon
<1> QED
  BY <1>6, <1>7, <1>11

\* They bear the number of the service.
LEMMA DefinitionsOwned ==
    ASSUME NEW svc \in Nat, NEW rs \in Seq(Methods)
    PROVE  \A x \in Range(PyDefsOf(svc, rs)) : x.svc = svc
<1>1. \A x : x \in Range(PyDefsOf(svc, rs)) <=>
                \E k \in DOMAIN rs :
                   \/ HasVars(rs[k]) /\ x = [name |-> <<rs[k].rpc, "path_vars">>, svc |-> svc]
                   \/ PyHasQuery(rs[k]) /\ x = [name |-> <<rs[k].rpc, "query">>, svc |-> svc]
  BY ServiceDefinitions
<1> QED
  BY <1>1

-----------------------------------------------------------------------------
\* The loop.

\* What does not change with the loop.
LEMMA FileKept ==
    ASSUME UNCHANGED file
    PROVE  /\ Routes' = Routes /\ AllRoutes' = AllRoutes /\ Types' = Types
           /\ generateImports' = generateImports /\ generatePyImports' = generatePyImports
           /\ \A k : RoutesOf(k)' = RoutesOf(k)
<1>1. Routes' = Routes
  BY Zenon DEF Routes
<1>2. AllRoutes' = AllRoutes
  BY <1>1, Zenon DEF AllRoutes
<1>3. Types' = Types
  BY <1>1, Zenon DEF Types
<1>4. generateImports' = generateImports
  <2>1. /\ fileNeedsFmt' <=> fileNeedsFmt
        /\ fileNeedsStrings' <=> fileNeedsStrings
        /\ fileNeedsEncodingJSON' <=> fileNeedsEncodingJSON
        /\ fileNeedsConnectSSE' <=> fileNeedsConnectSSE
    BY <1>2, Zenon DEF fileNeedsFmt, fileNeedsStrings, fileNeedsEncodingJSON, fileNeedsConnectSSE
  <2> QED
    BY <2>1 DEF generateImports, When
<1>5. generatePyImports' = generatePyImports
  BY <1>2, Zenon DEF generatePyImports
<1>6. \A k : RoutesOf(k)' = RoutesOf(k)
  BY Zenon DEF RoutesOf
<1> QED
  BY <1>1, <1>2, <1>3, <1>4, <1>5, <1>6

\* The cursor stays within what it runs over.
LEMMA LoopStep ==
    ASSUME LoopInv, [Next]_vars
    PROVE  LoopInv'
<1>1. UNCHANGED file
  BY DEF Next, RegisterType, AskEarly, PrintHeader, PrintService, vars
<1>2. /\ Routes' = Routes /\ Types' = Types
      /\ generateImports' = generateImports /\ generatePyImports' = generatePyImports
  BY <1>1, FileKept
<1>3. Files' = Files
  OBVIOUS
<1>4. file \in Files /\ i \in Nat \ {0} /\ phase \in {"register", "services", "done"}
  BY DEF LoopInv
<1>5. Len(Types) \in Nat /\ Len(file) \in Nat \ {0}
  <2>1. Len(Types) \in Nat
    BY <1>4, TypesFacts
  <2>2. PICK n \in 1 .. 2 : n = Len(file)
    BY <1>4, RoutesFacts, Zenon
  <2>3. n \in Nat \ {0}
    OBVIOUS
  <2> QED
    BY <2>1, <2>2, <2>3
<1>6. CASE RegisterType
  BY <1>1, <1>2, <1>3, <1>4, <1>5, <1>6 DEF RegisterType, LoopInv, printed
<1>7. CASE AskEarly
  BY <1>1, <1>2, <1>3, <1>4, <1>5, <1>7 DEF AskEarly, LoopInv, printed
<1>8. CASE PrintHeader
  BY <1>1, <1>2, <1>3, <1>4, <1>5, <1>8 DEF PrintHeader, LoopInv
<1>9. CASE PrintService
  BY <1>1, <1>2, <1>3, <1>4, <1>5, <1>9 DEF PrintService, PrintGo, PrintPy, LoopInv
<1>10. CASE UNCHANGED vars
  BY <1>1, <1>2, <1>3, <1>4, <1>10 DEF vars, printed, LoopInv
<1> QED
  BY <1>6, <1>7, <1>8, <1>9, <1>10 DEF Next

\* One service more has been printed.
LEMMA PrintedNext ==
    ASSUME LoopInv, PrintService
    PROVE  /\ Printed = 1 .. i - 1 /\ Printed' = Printed \cup {i} /\ i \notin Printed
           /\ i \in Nat /\ i \in DOMAIN file /\ UNCHANGED file
           /\ \A k \in Printed : k \in Nat /\ k < i /\ k \in DOMAIN file
           /\ RoutesOf(i) \in Seq(Methods) /\ RpcsDistinct(RoutesOf(i))
           /\ \A k \in Printed : RoutesOf(k) \in Seq(Methods) /\ RpcsDistinct(RoutesOf(k))
<1>1. /\ phase = "services" /\ i \in Nat \ {0} /\ file \in Files
      /\ i' = i + 1 /\ UNCHANGED file /\ phase' = IF i = Len(file) THEN "done" ELSE phase
      /\ i <= Len(file)
  BY DEF LoopInv, PrintService
<1>2. PICK n \in 1 .. 2 : n = Len(file)
  BY <1>1, RoutesFacts, Zenon
<1>3. DOMAIN file = 1 .. n
  BY <1>1, <1>2, RoutesFacts
<1>4. Printed = 1 .. i - 1 /\ Printed' = 1 .. (i + 1) - 1
  BY <1>1 DEF Printed
<1>5. 1 .. (i + 1) - 1 = (1 .. i - 1) \cup {i} /\ i \notin 1 .. i - 1 /\ i \in 1 .. n
  BY <1>1, <1>2
<1>6. \A k \in 1 .. i - 1 : k \in Nat /\ k < i /\ k \in 1 .. n
  BY <1>1, <1>2
<1>7. \A k \in DOMAIN file : RoutesOf(k) \in Seq(Methods) /\ RpcsDistinct(RoutesOf(k))
  BY <1>1, RoutesFacts DEF RpcsDistinct
<1> QED
  BY <1>1, <1>3, <1>4, <1>5, <1>6, <1>7

\* The functions of different services have different names.
LEMMA ServicesApart ==
    ASSUME NEW svc \in Nat, NEW rs \in Seq(Methods), RpcsDistinct(rs)
    PROVE  \A x \in Range(GoFunctionsOf(svc, rs)) : x[1] = svc
<1> SUFFICES ASSUME NEW x \in Range(GoFunctionsOf(svc, rs)) PROVE x[1] = svc
  OBVIOUS
<1>0. \A y : y \in Range(GoFunctionsOf(svc, rs)) <=>
      \/ \E k \in DOMAIN rs : y = <<svc, "handle", rs[k].rpc>>
      \/ \E k \in HasDispatcher(rs) : y = DispatcherOf(svc, rs, k)
      \/ \E k \in DOMAIN rs : ~rs[k].stream /\ HasVars(rs[k]) /\ y = <<svc, "PathVars", rs[k].rpc>>
      \/ \E k \in DOMAIN rs : rs[k].stream /\ HasVars(rs[k]) /\ y = <<svc, "SSEPathVars", rs[k].rpc>>
      \/ \E k \in DOMAIN rs : Asked(rs[k]) /\ y = <<svc, "Query", rs[k].rpc>>
  BY ServiceFunctions
<1>1. \/ \E k \in DOMAIN rs : x = <<svc, "handle", rs[k].rpc>>
      \/ \E k \in HasDispatcher(rs) : x = DispatcherOf(svc, rs, k)
      \/ \E k \in DOMAIN rs : ~rs[k].stream /\ HasVars(rs[k]) /\ x = <<svc, "PathVars", rs[k].rpc>>
      \/ \E k \in DOMAIN rs : rs[k].stream /\ HasVars(rs[k]) /\ x = <<svc, "SSEPathVars", rs[k].rpc>>
      \/ \E k \in DOMAIN rs : Asked(rs[k]) /\ x = <<svc, "Query", rs[k].rpc>>
  BY <1>0
<1>2. (\E k \in HasDispatcher(rs) : x = DispatcherOf(svc, rs, k)) => x[1] = svc
  BY DEF DispatcherOf, dispatcherFuncName
<1> QED
  BY <1>1, <1>2

\* PrintGo adds what the service says.
LEMMA GoStep ==
    ASSUME LoopInv, GoPrinted, PrintService
    PROVE  GoPrinted'
<1>1. /\ Printed' = Printed \cup {i} /\ i \notin Printed /\ i \in Nat
      /\ \A k \in Printed : k \in Nat /\ k < i
      /\ RoutesOf(i) \in Seq(Methods) /\ RpcsDistinct(RoutesOf(i))
      /\ \A k \in Printed : RoutesOf(k) \in Seq(Methods) /\ RpcsDistinct(RoutesOf(k))
      /\ UNCHANGED file
  BY PrintedNext
<1> DEFINE rs == RoutesOf(i)
<1>2. /\ goFuncs' = goFuncs \o GoFunctionsOf(i, rs)
      /\ goRefs' = goRefs \cup GoReferencesOf(i, rs)
      /\ goUses' = goUses \cup When(rs # <<>>, "iter") \cup When(Dispatched(rs) # {}, "strings")
                 \cup UNION {HandlerUses(rs[k]) \cup ClientUses(rs[k]) : k \in DOMAIN rs}
  BY DEF PrintService, PrintGo, RoutesOf
<1>3. goUses' = goUses \cup UNION {RouteUses(r) : r \in Range(rs)}
  <2>1. When(rs # <<>>, "iter") \cup When(Dispatched(rs) # {}, "strings")
           \cup UNION {HandlerUses(rs[k]) \cup ClientUses(rs[k]) : k \in DOMAIN rs}
             = UNION {RouteUses(r) : r \in Range(rs)}
    BY <1>1, UsesByRoute
  <2> HIDE DEF rs
  <2> QED
    BY <1>2, <2>1
<1>4. \A k : RoutesOf(k)' = RoutesOf(k)
  BY <1>1, FileKept
<1>5. /\ goUses = UNION {UNION {RouteUses(r) : r \in Range(RoutesOf(k))} : k \in Printed}
      /\ goRefs = UNION {GoReferencesOf(k, RoutesOf(k)) : k \in Printed}
      /\ goFuncs \in Seq(GoNames)
      /\ Range(goFuncs) = UNION {Range(GoFunctionsOf(k, RoutesOf(k))) : k \in Printed}
      /\ IsInjective(goFuncs) <=> \A k \in Printed : IsInjective(GoFunctionsOf(k, RoutesOf(k)))
  BY DEF GoPrinted
<1> DEFINE F(k) == GoFunctionsOf(k, RoutesOf(k))
<1>6. Apart(goFuncs, F(i), GoNames)
  <2>1. F(i) \in Seq(GoNames)
    BY <1>1, ServiceFunctions
  <2>2. \A x \in Range(F(i)) : x[1] = i
    BY <1>1, ServicesApart
  <2>3. \A k \in Printed : \A x \in Range(F(k)) : x[1] = k
    BY <1>1, ServicesApart
  <2> HIDE DEF F
  <2>4. Range(goFuncs) = UNION {Range(F(k)) : k \in Printed}
    BY <1>5 DEF F
  <2>5. \A x \in Range(goFuncs) : \E k \in Printed : x[1] = k
    BY <2>3, <2>4
  <2>6. Range(goFuncs) \cap Range(F(i)) = {}
    BY <1>1, <2>2, <2>5
  <2> QED
    BY <1>5, <2>1, <2>6 DEF Apart
<1>7. /\ goFuncs' \in Seq(GoNames)
      /\ Range(goFuncs') = Range(goFuncs) \cup Range(F(i))
      /\ IsInjective(goFuncs') <=> IsInjective(goFuncs) /\ IsInjective(F(i))
  <2>1. goFuncs' = goFuncs \o F(i)
    BY <1>2
  <2> HIDE DEF F
  <2> QED
    BY <1>6, <2>1, DisjointJoined
<1>8. goUses' = UNION {UNION {RouteUses(r) : r \in Range(RoutesOf(k))} : k \in Printed'}
  BY <1>1, <1>3, <1>5
<1>9. goRefs' = UNION {GoReferencesOf(k, RoutesOf(k)) : k \in Printed'}
  BY <1>1, <1>2, <1>5
<1>10. Range(goFuncs') = UNION {Range(F(k)) : k \in Printed'}
  <2>1. Range(goFuncs) = UNION {Range(F(k)) : k \in Printed}
    BY <1>5
  <2> HIDE DEF F
  <2> QED
    BY <1>1, <1>7, <2>1
<1>11. IsInjective(goFuncs') <=> \A k \in Printed' : IsInjective(F(k))
  BY <1>1, <1>5, <1>7
<1> QED
  BY <1>4, <1>7, <1>8, <1>9, <1>10, <1>11 DEF GoPrinted

\* PrintPy adds what the service says, behind what the earlier ones said.
LEMMA PyStep ==
    ASSUME LoopInv, PyPrinted, PrintService
    PROVE  PyPrinted'
<1>1. /\ Printed' = Printed \cup {i} /\ i \notin Printed /\ i \in Nat
      /\ \A k \in Printed : k \in Nat /\ k < i
      /\ RoutesOf(i) \in Seq(Methods)
      /\ \A k \in Printed : RoutesOf(k) \in Seq(Methods)
      /\ UNCHANGED file
  BY PrintedNext
<1> DEFINE rs == RoutesOf(i)
<1>2. /\ pyDefs' = pyDefs \o PyDefsOf(i, rs)
      /\ pyRefs' = pyRefs \cup PyRefsOf(i, rs)
      /\ pyUses' = pyUses \cup UNION {PyUsesOf(rs[k]) : k \in DOMAIN rs}
  BY DEF PrintService, PrintPy, RoutesOf, PyDefsOf, PyRefsOf
<1>3. \A k : RoutesOf(k)' = RoutesOf(k)
  BY <1>1, FileKept
<1>4. /\ pyUses = UNION {UNION {PyUsesOf(r) : r \in Range(RoutesOf(k))} : k \in Printed}
      /\ pyRefs = UNION {PyRefsOf(k, RoutesOf(k)) : k \in Printed}
      /\ pyDefs \in Seq(PyDefinitions)
      /\ Range(pyDefs) = UNION {Range(PyDefsOf(k, RoutesOf(k))) : k \in Printed}
      /\ \A a, b \in DOMAIN pyDefs : a <= b => pyDefs[a].svc <= pyDefs[b].svc
  BY DEF PyPrinted
<1>5. UNION {PyUsesOf(rs[k]) : k \in DOMAIN rs} = UNION {PyUsesOf(r) : r \in Range(rs)}
  <2>1. Range(rs) = {rs[k] : k \in DOMAIN rs}
    BY <1>1, Places
  <2> HIDE DEF rs
  <2> QED
    BY <2>1
<1>6. pyUses' = UNION {UNION {PyUsesOf(r) : r \in Range(RoutesOf(k))} : k \in Printed'}
  BY <1>1, <1>2, <1>4, <1>5
<1>7. pyRefs' = UNION {PyRefsOf(k, RoutesOf(k)) : k \in Printed'}
  BY <1>1, <1>2, <1>4
<1> DEFINE F(k) == PyDefsOf(k, RoutesOf(k))
<1>8. PICK q \in Seq(PyDefinitions) : q = F(i)
  BY <1>1, ServiceDefinitions
<1>9. /\ pyDefs' = pyDefs \o q
      /\ pyDefs' \in Seq(PyDefinitions) /\ Range(pyDefs') = Range(pyDefs) \cup Range(q)
  <2>1. pyDefs' = pyDefs \o q
    BY <1>2, <1>8
  <2>2. pyDefs \o q \in Seq(PyDefinitions) /\ Range(pyDefs \o q) = Range(pyDefs) \cup Range(q)
    BY <1>4, Concatenated, RangeJoined
  <2> QED
    BY <2>1, <2>2
<1>10. Range(pyDefs') = UNION {Range(F(k)) : k \in Printed'}
  <2>1. Range(pyDefs) = UNION {Range(F(k)) : k \in Printed}
    BY <1>4
  <2> HIDE DEF F
  <2> QED
    BY <1>1, <1>8, <1>9, <2>1
<1>11. \A x \in Range(pyDefs) : x.svc \in Nat /\ x.svc < i
  <2> SUFFICES ASSUME NEW x \in Range(pyDefs) PROVE x.svc \in Nat /\ x.svc < i
    OBVIOUS
  <2>1. PICK k \in Printed : x \in Range(PyDefsOf(k, RoutesOf(k)))
    BY <1>4
  <2>2. k \in Nat /\ k < i
    BY <1>1
  <2>3. x.svc = k
    BY <1>1, <2>1, <2>2, DefinitionsOwned
  <2> QED
    BY <2>2, <2>3
<1>12. \A x \in Range(q) : x.svc = i
  BY <1>1, <1>8, DefinitionsOwned
<1>13. \A a, b \in DOMAIN pyDefs' : a <= b => pyDefs'[a].svc <= pyDefs'[b].svc
  <2>1. PICK m \in Nat : m = Len(pyDefs)
    BY <1>4
  <2>2. PICK n \in Nat : n = Len(q)
    BY <1>8
  <2>3. DOMAIN pyDefs = 1 .. m /\ DOMAIN q = 1 .. n /\ DOMAIN pyDefs' = 1 .. m + n
    BY <1>4, <1>8, <1>9, <2>1, <2>2
  <2>4. /\ \A a \in 1 .. m : pyDefs'[a] = pyDefs[a]
        /\ \A a \in 1 .. n : pyDefs'[m + a] = q[a]
    BY <1>4, <1>8, <1>9, <2>1, <2>2, JoinedAt
  <2>5. \A a \in 1 .. m + n : a \in 1 .. m \/ (a - m \in 1 .. n /\ m + (a - m) = a)
    BY <2>1, <2>2
  <2>6. \A a \in 1 .. m : pyDefs'[a] = pyDefs[a] /\ pyDefs[a].svc \in Nat /\ pyDefs[a].svc < i
    BY <1>11, <2>3, <2>4 DEF Range
  <2>7. ASSUME NEW a \in 1 .. m + n, a \notin 1 .. m PROVE pyDefs'[a].svc = i /\ a > m
    <3>1. a - m \in 1 .. n /\ m + (a - m) = a
      BY <2>5, <2>7
    <3>2. pyDefs'[a] = q[a - m]
      BY <2>4, <3>1
    <3>3. q[a - m] \in Range(q)
      BY <2>3, <3>1 DEF Range
    <3>4. a > m
      BY <2>1, <2>2, <2>7
    <3> QED
      BY <1>12, <3>2, <3>3, <3>4
  <2> SUFFICES ASSUME NEW a \in 1 .. m + n, NEW b \in 1 .. m + n, a <= b
      PROVE pyDefs'[a].svc <= pyDefs'[b].svc
    BY <2>3
  <2>8. CASE a \in 1 .. m /\ b \in 1 .. m
    BY <1>4, <2>3, <2>4, <2>8
  <2>9. CASE a \in 1 .. m /\ b \notin 1 .. m
    BY <1>1, <2>6, <2>7, <2>9
  <2>10. CASE a \notin 1 .. m /\ b \in 1 .. m
    BY <2>1, <2>7, <2>10
  <2>11. CASE a \notin 1 .. m /\ b \notin 1 .. m
    BY <1>1, <2>7, <2>11
  <2> QED
    BY <2>8, <2>9, <2>10, <2>11
<1> QED
  BY <1>3, <1>6, <1>7, <1>9, <1>10, <1>13 DEF PyPrinted

\* Until a service is printed nothing is.
LEMMA NothingPrinted ==
    ASSUME FileInv, UNCHANGED <<file, goUses, goFuncs, goRefs, pyUses, pyDefs, pyRefs>>,
           Printed' = Printed
    PROVE  GoPrinted' /\ PyPrinted'
<1>1. \A k : RoutesOf(k)' = RoutesOf(k)
  BY FileKept
<1>2. GoPrinted'
  <2>1. GoPrinted
    BY DEF FileInv
  <2> QED
    BY <1>1, <2>1 DEF GoPrinted
<1>3. PyPrinted'
  <2>1. PyPrinted
    BY DEF FileInv
  <2> QED
    BY <1>1, <2>1 DEF PyPrinted
<1> QED
  BY <1>2, <1>3

\* The invariant: the cursor runs over the file, and what has been printed is
\* what the services ahead of it come to.
THEOREM FilesFollowServices == Spec => []FileInv
<1>1. Init => FileInv
  <2> SUFFICES ASSUME Init PROVE FileInv
    OBVIOUS
  <2>1. /\ file \in Files /\ phase = "register" /\ i = 1
        /\ goUses = {} /\ goFuncs = <<>> /\ goRefs = {}
        /\ pyUses = {} /\ pyDefs = <<>> /\ pyRefs = {}
    BY DEF Init
  <2>2. Len(Types) \in Nat
    BY <2>1, TypesFacts
  <2>3. LoopInv
    BY <2>1, <2>2 DEF LoopInv
  <2>4. Printed = {}
    BY <2>1 DEF Printed
  <2>5. Range(<<>>) = {} /\ IsInjective(<<>>) /\ DOMAIN <<>> = {}
    BY DEF Range, IsInjective
  <2>6. /\ <<>> \in Seq(GoNames) /\ <<>> \in Seq(PyDefinitions)
    OBVIOUS
  <2>7. GoPrinted
    BY <2>1, <2>4, <2>5, <2>6 DEF GoPrinted
  <2>8. PyPrinted
    BY <2>1, <2>4, <2>5, <2>6 DEF PyPrinted
  <2> QED
    BY <2>3, <2>7, <2>8 DEF FileInv
<1>2. FileInv /\ [Next]_vars => FileInv'
  <2> SUFFICES ASSUME FileInv, [Next]_vars PROVE FileInv'
    OBVIOUS
  <2>1. LoopInv'
    BY LoopStep DEF FileInv
  <2>2. CASE RegisterType
    <3>1. Printed' = Printed /\ UNCHANGED <<file, goUses, goFuncs, goRefs, pyUses, pyDefs, pyRefs>>
      BY <2>2 DEF RegisterType, Printed, printed
    <3> QED
      BY <2>1, <3>1, NothingPrinted DEF FileInv
  <2>3. CASE AskEarly
    <3>1. Printed' = Printed /\ UNCHANGED <<file, goUses, goFuncs, goRefs, pyUses, pyDefs, pyRefs>>
      BY <2>3 DEF AskEarly, Printed, printed
    <3> QED
      BY <2>1, <3>1, NothingPrinted DEF FileInv
  <2>4. CASE PrintHeader
    <3>1. Printed' = Printed /\ UNCHANGED <<file, goUses, goFuncs, goRefs, pyUses, pyDefs, pyRefs>>
      BY <2>4 DEF PrintHeader, Printed
    <3> QED
      BY <2>1, <3>1, NothingPrinted DEF FileInv
  <2>5. CASE PrintService
    BY <2>1, <2>5, GoStep, PyStep DEF FileInv
  <2>6. CASE UNCHANGED vars
    <3>1. Printed' = Printed /\ UNCHANGED <<file, goUses, goFuncs, goRefs, pyUses, pyDefs, pyRefs>>
      BY <2>6 DEF vars, Printed, printed
    <3> QED
      BY <2>1, <3>1, NothingPrinted DEF FileInv
  <2> QED
    BY <2>2, <2>3, <2>4, <2>5, <2>6 DEF Next
<1> QED
  BY <1>1, <1>2, PTL DEF Spec

-----------------------------------------------------------------------------
(***************************************************************************)
(* The files and the resolvers.  Nothing in a resolver keeps it from being *)
(* used in the wrong order or for the wrong file; that the plugins never   *)
(* do follows from where their loop is, and from the messages registered   *)
(* being those the bodies of all services name.                            *)
(***************************************************************************)

RegistersFirst ==
    /\ phase = "register" => lines = {} /\ \A k \in 1 .. i - 1 : Types[k] \in Registered
    /\ phase # "register" => Range(Types) \subseteq Registered

\* The messages the bodies of a service name are among those of the whole file.
LEMMA BodiesNameTypes ==
    ASSUME file \in Files, NEW k \in DOMAIN file
    PROVE  FilesNamedBy(UsableOf(file[k])) \subseteq Range(Types)
<1>1. Routes \in Seq(Methods)
  BY RoutesFacts
<1>2. PICK n \in Nat : n = Len(Routes) /\ DOMAIN Routes = 1 .. n
  BY <1>1
<1>3. PICK parts : parts = [j \in DOMAIN Routes |-> <<Routes[j].in, Routes[j].out>>]
  OBVIOUS
<1>4. \A j \in 1 .. n : Routes[j].in \in Sources /\ Routes[j].out \in Sources
  <2>1. \A m \in Methods : m.in \in Sources /\ m.out \in Sources
    BY GeneratedFileAssumption
  <2> QED
    BY <1>1, <1>2, <2>1
<1>5. parts \in [1 .. n -> Seq(Sources)]
  BY <1>2, <1>3, <1>4
<1>6. Range(Types) = UNION {Range(parts[j]) : j \in 1 .. n}
  <2>1. Types = FlattenSeq(parts)
    BY <1>3 DEF Types
  <2> QED
    BY <1>5, <2>1, FlattenOnce
<1>7. ASSUME NEW j \in DOMAIN RoutesOf(k)
      PROVE  RoutesOf(k)[j].in \in Range(Types) /\ RoutesOf(k)[j].out \in Range(Types)
  <2>1. k \in 1 .. Len(file) /\ AllRoutes = UNION {Range(RoutesOf(l)) : l \in 1 .. Len(file)}
    BY RoutesFacts
  <2>2. RoutesOf(k)[j] \in AllRoutes
    BY <2>1 DEF Range
  <2>3. PICK l \in 1 .. n : Routes[l] = RoutesOf(k)[j]
    BY <1>2, <2>2 DEF AllRoutes
  <2>4. parts[l] = <<RoutesOf(k)[j].in, RoutesOf(k)[j].out>>
    BY <1>2, <1>3, <2>3
  <2>5. RoutesOf(k)[j].in \in Range(parts[l]) /\ RoutesOf(k)[j].out \in Range(parts[l])
    BY <2>4 DEF Range
  <2> QED
    BY <1>6, <2>5
<1> QED
  BY <1>7 DEF FilesNamedBy, RoutesOf

\* What is registered first: every message before the header is printed, and it
\* stays registered.
LEMMA MessagesComeFirst == Spec => []RegistersFirst
<1>1. Init => RegistersFirst
  BY DEF Init, ResolverInit, RegistersFirst
<1>2. FileInv /\ RegistersFirst /\ [Next]_vars => RegistersFirst'
  <2> SUFFICES ASSUME FileInv, RegistersFirst, [Next]_vars PROVE RegistersFirst'
    OBVIOUS
  <2>1. LoopInv
    BY DEF FileInv
  <2>2. file \in Files /\ i \in Nat \ {0}
    BY <2>1 DEF LoopInv
  <2>3. Types \in Seq(Sources) /\ Len(Types) \in Nat
    BY <2>2, TypesFacts
  <2>4. Types' = Types
    BY FileKept DEF Next, RegisterType, AskEarly, PrintHeader, PrintService, vars
  <2>5. Range(Types)' = Range(Types)
    BY <2>4 DEF Range
  <2>6. CASE RegisterType
    <3>1. phase = "register" /\ phase' = "register" /\ i' = i + 1 /\ Register(Types[i]) /\ Types[i] \in Sources
      BY <2>2, <2>3, <2>6 DEF RegisterType
    <3>2. Registered \subseteq Registered' /\ Types[i] \in Registered'
      BY <3>1, RegisteredGrows
    <3>3. \A k \in 1 .. i' - 1 : k \in 1 .. i - 1 \/ k = i
      BY <2>2, <3>1
    <3>4. lines' = {}
      BY <3>1 DEF RegistersFirst, Register
    <3> QED
      BY <2>4, <3>1, <3>2, <3>3, <3>4 DEF RegistersFirst
  <2>7. CASE AskEarly
    <3>1. phase = "register" /\ UNCHANGED <<phase, i, lines>> /\ Registered' = Registered
      BY <2>7 DEF AskEarly, Resolve, Registered
    <3> QED
      BY <2>4, <3>1 DEF RegistersFirst
  <2>8. CASE PrintHeader
    <3>1. phase = "register" /\ phase' = "services" /\ i > Len(Types) /\ Registered' = Registered
      BY <2>8 DEF PrintHeader, PrintImports, Registered
    <3>2. \A k \in DOMAIN Types : k \in 1 .. i - 1
      BY <2>2, <2>3, <3>1
    <3>3. Range(Types) \subseteq Registered
      BY <3>1, <3>2 DEF RegistersFirst, Range
    <3> QED
      BY <2>5, <3>1, <3>3 DEF RegistersFirst
  <2>9. CASE PrintService
    <3>1. phase = "services" /\ phase' # "register" /\ Registered' = Registered
      BY <2>9 DEF PrintService, Resolve, Registered
    <3> QED
      BY <2>5, <3>1 DEF RegistersFirst
  <2>10. CASE UNCHANGED vars
    <3>1. UNCHANGED <<phase, i, lines>> /\ Registered' = Registered
      BY <2>10 DEF vars, resolverVars, Registered
    <3> QED
      BY <2>4, <2>5, <3>1 DEF RegistersFirst
  <2> QED
    BY <2>6, <2>7, <2>8, <2>9, <2>10 DEF Next
<1> QED
  BY <1>1, <1>2, FilesFollowServices, PTL DEF Spec

\* The plugins use the resolvers as they have to be used: the imports are printed
\* once, no message is registered after them, and every message a body names has
\* been registered.
THEOREM PluginsUseResolvers == Spec => ResolverSpec
<1>1. Init => ResolverInit
  BY DEF Init
<1>2. FileInv /\ RegistersFirst /\ [Next]_vars => [ResolverNext]_resolverVars
  <2> SUFFICES ASSUME FileInv, RegistersFirst, [Next]_vars PROVE [ResolverNext]_resolverVars
    OBVIOUS
  <2>1. LoopInv
    BY DEF FileInv
  <2>2. file \in Files /\ i \in Nat \ {0}
    BY <2>1 DEF LoopInv
  <2>3. CASE RegisterType
    <3>1. phase = "register" /\ Register(Types[i]) /\ Types[i] \in Sources
      BY <2>2, <2>3, TypesFacts DEF RegisterType
    <3> QED
      BY <3>1 DEF RegistersFirst, ResolverNext
  <2>4. CASE AskEarly
    <3>1. phase = "register" /\ Resolve({Types[i - 1]}) /\ i - 1 \in 1 .. i - 1
      BY <2>2, <2>4 DEF AskEarly
    <3>2. {Types[i - 1]} \in SUBSET Registered
      BY <3>1 DEF RegistersFirst
    <3> QED
      BY <3>1, <3>2 DEF ResolverNext
  <2>5. CASE PrintHeader
    BY <2>5 DEF PrintHeader, RegistersFirst, ResolverNext
  <2>6. CASE PrintService
    <3> DEFINE named == FilesNamedBy(UsableOf(file[i]))
    <3>1. phase = "services" /\ i <= Len(file) /\ Resolve(named)
      BY <2>6 DEF PrintService
    <3>2. i \in DOMAIN file
      <4>1. PICK n \in 1 .. 2 : n = Len(file) /\ DOMAIN file = 1 .. n
        BY <2>2, RoutesFacts, Zenon
      <4> QED
        BY <2>2, <3>1, <4>1
    <3>3. named \subseteq Range(Types)
      BY <2>2, <3>2, BodiesNameTypes
    <3> HIDE DEF named
    <3>4. named \in SUBSET Registered
      BY <3>1, <3>3 DEF RegistersFirst
    <3> QED
      BY <3>1, <3>4 DEF ResolverNext
  <2>7. CASE UNCHANGED vars
    BY <2>7 DEF vars, resolverVars
  <2> QED
    BY <2>3, <2>4, <2>5, <2>6, <2>7 DEF Next
<1> QED
  BY <1>1, <1>2, FilesFollowServices, MessagesComeFirst, PTL DEF Spec, ResolverSpec

\* Of every file the plugins print: Python's cached names are current, no two
\* imports of an output share a name, and every name a body uses for a message
\* is bound to the file of that message.
THEOREM EveryFileNamesItsImports ==
    Spec => [](CacheIsCurrent /\ NamesDistinct /\ BodiesUseImports)
BY PluginsUseResolvers, CacheStaysCurrent, ImportsNeverClash, BodiesFindTheirImports, PTL

-----------------------------------------------------------------------------
\* The files once they are printed.

\* What the Go file may refer to, whatever its routes are.
LEMMA UsesAreKnown ==
    ASSUME NEW r
    PROVE  RouteUses(r) \subseteq {"context", "iter", "http", "connect", "connectaip", "pb", "fmt",
                                   "strings", "json", "connectsse"}
BY DEF RouteUses, qualifiedTypeName, When

\* Types: the loop stays within its bounds, and nothing is referred to that is
\* not one of the packages the plugin knows.
THEOREM FilesAreTyped == Spec => []TypeOK
<1>1. FileInv /\ ResolverTypeOK => TypeOK
  <2> SUFFICES ASSUME FileInv, ResolverTypeOK PROVE TypeOK
    OBVIOUS
  <2>1. LoopInv /\ GoPrinted
    BY DEF FileInv
  <2>2. file \in Files /\ i \in Nat \ {0} /\ phase \in {"register", "services", "done"}
    BY <2>1 DEF LoopInv
  <2>3. MaxMethods \in Nat \ {0}
    BY <2>2, FileShape
  <2>4. Len(Types) \in Nat /\ Len(Types) <= 2 * MaxMethods
    BY <2>2, TypesFacts
  <2>5. PICK n \in 1 .. 2 : n = Len(file)
    BY <2>2, RoutesFacts, Zenon
  <2>6. i \in 1 .. 2 * MaxMethods + 1
    <3>1. CASE phase = "register"
      BY <2>1, <2>2, <2>3, <2>4, <3>1 DEF LoopInv
    <3>2. CASE phase # "register"
      <4>1. i <= 3
        BY <2>1, <2>2, <2>5, <3>2 DEF LoopInv
      <4>2. MaxMethods \in Nat /\ MaxMethods >= 1 /\ i \in Nat /\ i >= 1
        BY <2>2, <2>3
      <4> QED
        BY <4>1, <4>2
    <3> QED
      BY <3>1, <3>2
  <2>7. goUses \subseteq {"context", "iter", "http", "connect", "connectaip", "pb", "fmt",
                          "strings", "json", "connectsse"}
    <3>1. goUses = UNION {UNION {RouteUses(r) : r \in Range(RoutesOf(k))} : k \in Printed}
      BY <2>1 DEF GoPrinted
    <3> QED
      BY <3>1, UsesAreKnown
  <2> QED
    BY <2>2, <2>6, <2>7 DEF TypeOK
<1>2. ResolverInv => ResolverTypeOK
  BY DEF ResolverInv
<1> QED
  BY <1>1, <1>2, FilesFollowServices, PluginsUseResolvers, ResolverInvariant, PTL

\* A file that is done has been printed whole.
LEMMA AllPrinted ==
    ASSUME LoopInv, phase = "done"
    PROVE  /\ Printed = DOMAIN file /\ file \in Files /\ Routes # <<>>
           /\ \A k \in DOMAIN file : /\ k \in Nat /\ RoutesOf(k) \in Seq(Methods)
                                     /\ RpcsDistinct(RoutesOf(k))
           /\ \A r : r \in AllRoutes <=> \E k \in DOMAIN file : r \in Range(RoutesOf(k))
           /\ AllRoutes \subseteq Methods /\ AllRoutes # {}
<1>1. file \in Files /\ i = Len(file) + 1 /\ Routes # <<>>
  BY DEF LoopInv
<1>2. PICK n \in 1 .. 2 : n = Len(file)
  BY <1>1, RoutesFacts, Zenon
<1>3. DOMAIN file = 1 .. n
  BY <1>1, <1>2, RoutesFacts
<1>4. Printed = 1 .. n
  BY <1>1, <1>2 DEF Printed
<1>5. \A k \in DOMAIN file : RoutesOf(k) \in Seq(Methods) /\ RpcsDistinct(RoutesOf(k))
  BY <1>1, RoutesFacts DEF RpcsDistinct
<1>6. AllRoutes = UNION {Range(RoutesOf(k)) : k \in 1 .. n}
  BY <1>1, <1>2, RoutesFacts
<1>7. Routes \in Seq(Methods) /\ Routes # <<>>
  BY <1>1, RoutesFacts
<1>8. AllRoutes \subseteq Methods /\ AllRoutes # {}
  <2>1. DOMAIN Routes # {} /\ \A k \in DOMAIN Routes : Routes[k] \in Methods
    BY <1>7, Places
  <2> QED
    BY <2>1 DEF AllRoutes
<1>9. \A k \in 1 .. n : k \in Nat
  OBVIOUS
<1>10. \A r : r \in AllRoutes <=> \E k \in DOMAIN file : r \in Range(RoutesOf(k))
  BY <1>3, <1>6
<1> QED
  BY <1>1, <1>3, <1>4, <1>5, <1>8, <1>9, <1>10

\* Every package the Go file refers to is imported and, fmt and the package of
\* the messages aside where the property says, the other way round.
THEOREM GoImportsAreUsed == Spec => []GoImportsUsed
<1>1. FileInv => GoImportsUsed
  <2> SUFFICES ASSUME FileInv, phase = "done"
      PROVE /\ goUses \subseteq goImports
            /\ goImports \ goUses =
                 When(fileNeedsFmt /\ \A r \in AllRoutes : ByQuery(r) /\ hasNumericQueryParams(r) => r.stream, "fmt")
                 \cup When(\A r \in AllRoutes : \A s \in {r.in, r.out} :
                               GoPackage[s] # GoPackage[CurrentFile], "pb")
    BY DEF GoImportsUsed
  <2>1. LoopInv /\ GoPrinted
    BY DEF FileInv
  <2>2. Printed = DOMAIN file /\ AllRoutes # {} /\ AllRoutes \subseteq Methods
    BY <2>1, AllPrinted
  <2>3. \A r : r \in AllRoutes <=> \E k \in DOMAIN file : r \in Range(RoutesOf(k))
    BY <2>1, AllPrinted
  <2>4. goUses = UNION {UNION {RouteUses(r) : r \in Range(RoutesOf(k))} : k \in DOMAIN file}
    BY <2>1, <2>2 DEF GoPrinted
  <2>5. \A x : x \in goUses <=> \E r \in AllRoutes : x \in RouteUses(r)
    BY <2>3, <2>4
  <2>6. goImports = generateImports
    BY <2>1 DEF LoopInv
  <2> DEFINE ours == \E r \in AllRoutes : \E s \in {r.in, r.out} : GoPackage[s] = GoPackage[CurrentFile]
             fmt == \E r \in AllRoutes : ~r.stream /\ ByQuery(r) /\ hasNumericQueryParams(r)
  <2>7. \A x : x \in goUses <=>
          \/ x \in {"iter", "http", "context", "connect", "connectaip"}
          \/ x = "pb" /\ ours
          \/ x = "strings" /\ fileNeedsStrings
          \/ x = "connectsse" /\ fileNeedsConnectSSE
          \/ x = "json" /\ fileNeedsEncodingJSON
          \/ x = "fmt" /\ fmt
    <3> SUFFICES ASSUME NEW x PROVE x \in goUses <=>
          \/ x \in {"iter", "http", "context", "connect", "connectaip"}
          \/ x = "pb" /\ ours
          \/ x = "strings" /\ fileNeedsStrings
          \/ x = "connectsse" /\ fileNeedsConnectSSE
          \/ x = "json" /\ fileNeedsEncodingJSON
          \/ x = "fmt" /\ fmt
      OBVIOUS
    <3>1. \A r : x \in RouteUses(r) <=>
             \/ x \in {"iter", "http", "context", "connect", "connectaip"}
             \/ x = "pb" /\ \E s \in {r.in, r.out} : GoPackage[s] = GoPackage[CurrentFile]
             \/ x = "strings" /\ (r.verb \/ (r.stream /\ Prefixed(r)))
             \/ x = "connectsse" /\ r.stream
             \/ x = "json" /\ r.stream /\ HasVars(r)
             \/ x = "fmt" /\ ~r.stream /\ ByQuery(r) /\ hasNumericQueryParams(r)
      BY DEF RouteUses, qualifiedTypeName, When
    <3> QED
      BY <2>2, <2>5, <3>1 DEF fileNeedsStrings, fileNeedsConnectSSE, fileNeedsEncodingJSON
  <2>8. \A x : x \in goImports <=>
          \/ x \in {"iter", "http", "context", "connect", "connectaip", "pb"}
          \/ x = "strings" /\ fileNeedsStrings
          \/ x = "connectsse" /\ fileNeedsConnectSSE
          \/ x = "json" /\ fileNeedsEncodingJSON
          \/ x = "fmt" /\ fileNeedsFmt
    BY <2>6 DEF generateImports, When
  <2>9. fmt => fileNeedsFmt
    BY DEF fileNeedsFmt
  <2>10. /\ (fileNeedsFmt /\ \A r \in AllRoutes : ByQuery(r) /\ hasNumericQueryParams(r) => r.stream)
            <=> fileNeedsFmt /\ ~fmt
         /\ (\A r \in AllRoutes : \A s \in {r.in, r.out} : GoPackage[s] # GoPackage[CurrentFile]) <=> ~ours
    OBVIOUS
  <2> HIDE DEF ours, fmt
  <2>11. goImports \ goUses = When(fileNeedsFmt /\ ~fmt, "fmt") \cup When(~ours, "pb")
    BY <2>7, <2>8, <2>9 DEF When
  <2>12. goUses \subseteq goImports
    BY <2>7, <2>8, <2>9
  <2> QED
    BY <2>10, <2>11, <2>12
<1> QED
  BY <1>1, FilesFollowServices, PTL

\* A group with a verb has a first route, and so a dispatcher.
LEMMA GroupsHaveDispatchers ==
    ASSUME NEW rs \in Seq(Methods), NEW k \in Dispatched(rs)
    PROVE  \E f \in HasDispatcher(rs) : SameGroup(rs[f], rs[k])
<1> DEFINE Group == {j \in DOMAIN rs : SameGroup(rs[j], rs[k])}
<1>1. Len(rs) \in Nat /\ DOMAIN rs = 1 .. Len(rs)
  BY Places
<1>2. PICK n \in Nat : n = Len(rs)
  BY <1>1
<1>3. k \in 1 .. n /\ \E j \in 1 .. n : rs[j].verb /\ SameGroup(rs[j], rs[k])
  BY <1>1, <1>2 DEF Dispatched
<1>4. Group \in SUBSET Nat /\ k \in Group
  BY <1>1, <1>2, <1>3 DEF SameGroup
<1>5. PICK f \in Group : \A j \in Group : <<j, f>> \notin OpToRel(<, Nat)
  BY <1>4, NatLessThanWellFounded, WFMin
<1>6. f \in Nat /\ \A j \in Group : j \in Nat /\ ~(j < f)
  BY <1>4, <1>5 DEF OpToRel
<1>7. f \in 1 .. n /\ SameGroup(rs[f], rs[k])
  BY <1>1, <1>2
<1>8. First(rs, f)
  <2>1. ASSUME NEW j \in 1 .. f - 1, SameGroup(rs[j], rs[f]) PROVE FALSE
    <3>1. j \in 1 .. n /\ j \in Nat /\ j < f
      BY <1>2, <1>7
    <3>2. SameGroup(rs[j], rs[k])
      BY <1>7, <2>1 DEF SameGroup
    <3>3. j \in Group
      BY <1>1, <1>2, <3>1, <3>2
    <3> QED
      BY <1>6, <3>1, <3>3
  <2> QED
    BY <2>1 DEF First
<1>9. f \in Dispatched(rs)
  <2>1. PICK j \in 1 .. n : rs[j].verb /\ SameGroup(rs[j], rs[k])
    BY <1>3
  <2>2. SameGroup(rs[j], rs[f])
    BY <1>7, <2>1 DEF SameGroup
  <2> QED
    BY <1>1, <1>2, <1>7, <2>1, <2>2 DEF Dispatched
<1> QED
  BY <1>1, <1>2, <1>7, <1>8, <1>9 DEF HasDispatcher

\* Two dispatchers of a service have one name exactly if two of its dispatched
\* paths differ in punctuation only.
LEMMA DispatcherNames ==
    ASSUME NEW svc \in Nat, NEW rs \in Seq(Methods)
    PROVE  (\A j, k \in HasDispatcher(rs) : DispatcherOf(svc, rs, j) = DispatcherOf(svc, rs, k) => j = k)
           <=> \A a, b \in Dispatched(rs) :
                  rs[a].http = rs[b].http /\ Letters[rs[a].path] = Letters[rs[b].path] => rs[a].path = rs[b].path
<1>1. ASSUME \A j, k \in HasDispatcher(rs) : DispatcherOf(svc, rs, j) = DispatcherOf(svc, rs, k) => j = k,
             NEW a \in Dispatched(rs), NEW b \in Dispatched(rs),
             rs[a].http = rs[b].http, Letters[rs[a].path] = Letters[rs[b].path]
      PROVE  rs[a].path = rs[b].path
  <2>1. PICK f \in HasDispatcher(rs) : SameGroup(rs[f], rs[a])
    BY GroupsHaveDispatchers
  <2>2. PICK g \in HasDispatcher(rs) : SameGroup(rs[g], rs[b])
    BY GroupsHaveDispatchers
  <2>3. /\ rs[f].http = rs[a].http /\ rs[f].path = rs[a].path
        /\ rs[g].http = rs[b].http /\ rs[g].path = rs[b].path
    BY <2>1, <2>2 DEF SameGroup
  <2>4. DispatcherOf(svc, rs, f) = DispatcherOf(svc, rs, g)
    BY <1>1, <2>3 DEF DispatcherOf, dispatcherFuncName
  <2>5. f = g
    BY <1>1, <2>4
  <2> QED
    BY <2>3, <2>5
<1>2. ASSUME \A a, b \in Dispatched(rs) :
                rs[a].http = rs[b].http /\ Letters[rs[a].path] = Letters[rs[b].path] => rs[a].path = rs[b].path,
             NEW j \in HasDispatcher(rs), NEW k \in HasDispatcher(rs),
             DispatcherOf(svc, rs, j) = DispatcherOf(svc, rs, k)
      PROVE  j = k
  <2>1. j \in Dispatched(rs) /\ k \in Dispatched(rs) /\ First(rs, j) /\ First(rs, k)
    BY DEF HasDispatcher
  <2>0. rs[j].http = rs[k].http /\ Letters[rs[j].path] = Letters[rs[k].path]
    <3>1. <<svc, "dispatch", rs[j].http, Letters[rs[j].path]>> = <<svc, "dispatch", rs[k].http, Letters[rs[k].path]>>
      BY <1>2 DEF DispatcherOf, dispatcherFuncName
    <3> QED
      BY <3>1
  <2>2. SameGroup(rs[j], rs[k]) /\ SameGroup(rs[k], rs[j])
    <3>1. rs[j].path = rs[k].path
      BY <1>2, <2>0, <2>1
    <3> QED
      BY <2>0, <3>1 DEF SameGroup
  <2>3. j \in Nat /\ k \in Nat /\ j >= 1 /\ k >= 1
    <3>1. Len(rs) \in Nat /\ DOMAIN rs = 1 .. Len(rs)
      BY Places
    <3>2. PICK n \in Nat : n = Len(rs)
      BY <3>1
    <3>3. j \in 1 .. n /\ k \in 1 .. n
      BY <3>1, <3>2, <2>1 DEF Dispatched
    <3> QED
      BY <3>3
  <2>4. ~(j < k)
    <3>1. j < k => j \in 1 .. k - 1
      BY <2>3
    <3> QED
      BY <2>1, <2>2, <3>1 DEF First
  <2>5. ~(k < j)
    <3>1. k < j => k \in 1 .. j - 1
      BY <2>3
    <3> QED
      BY <2>1, <2>2, <3>1 DEF First
  <2> QED
    BY <2>3, <2>4, <2>5
<1> QED
  BY <1>1, <1>2

\* What a service's Go code names it declares, if the streaming RPCs that share a
\* dispatcher are annotated POST.
LEMMA ServiceResolves ==
    ASSUME NEW svc \in Nat, NEW rs \in Seq(Methods), RpcsDistinct(rs),
           \A a \in Dispatched(rs) : rs[a].stream => rs[a].http = "POST"
    PROVE  GoReferencesOf(svc, rs) \subseteq Range(GoFunctionsOf(svc, rs))
<1>1. \A y : y \in Range(GoFunctionsOf(svc, rs)) <=>
      \/ \E k \in DOMAIN rs : y = <<svc, "handle", rs[k].rpc>>
      \/ \E k \in HasDispatcher(rs) : y = DispatcherOf(svc, rs, k)
      \/ \E k \in DOMAIN rs : ~rs[k].stream /\ HasVars(rs[k]) /\ y = <<svc, "PathVars", rs[k].rpc>>
      \/ \E k \in DOMAIN rs : rs[k].stream /\ HasVars(rs[k]) /\ y = <<svc, "SSEPathVars", rs[k].rpc>>
      \/ \E k \in DOMAIN rs : Asked(rs[k]) /\ y = <<svc, "Query", rs[k].rpc>>
  BY ServiceFunctions
<1>2. ASSUME NEW k \in Dispatched(rs)
      PROVE  dispatcherFuncName(svc, RegisteredMethod(rs, k), rs[k].path) \in Range(GoFunctionsOf(svc, rs))
  <2>1. RegisteredMethod(rs, k) = rs[k].http
    <3>1. ASSUME NEW j \in DOMAIN rs, rs[j].stream, SameGroup(rs[j], rs[k]) PROVE rs[k].http = "POST"
      <4>1. PICK l \in DOMAIN rs : rs[l].verb /\ SameGroup(rs[l], rs[k])
        BY DEF Dispatched
      <4>2. SameGroup(rs[l], rs[j])
        BY <3>1, <4>1 DEF SameGroup
      <4>3. j \in Dispatched(rs)
        BY <4>1, <4>2 DEF Dispatched
      <4> QED
        BY <3>1, <4>3 DEF SameGroup
    <3> QED
      BY <3>1 DEF RegisteredMethod
  <2>2. PICK f \in HasDispatcher(rs) : SameGroup(rs[f], rs[k])
    BY GroupsHaveDispatchers
  <2>3. dispatcherFuncName(svc, rs[k].http, rs[k].path) = DispatcherOf(svc, rs, f)
    BY <2>2 DEF SameGroup, DispatcherOf
  <2> QED
    BY <1>1, <2>1, <2>3
<1>3. ASSUME NEW k \in DOMAIN rs, HasVars(rs[k])
      PROVE  <<svc, IF rs[k].stream THEN "SSEPathVars" ELSE "PathVars", rs[k].rpc>> \in Range(GoFunctionsOf(svc, rs))
  <2>1. CASE rs[k].stream
    BY <1>1, <1>3, <2>1
  <2>2. CASE ~rs[k].stream
    BY <1>1, <1>3, <2>2
  <2> QED
    BY <2>1, <2>2
<1>4. ASSUME NEW k \in DOMAIN rs, Asked(rs[k])
      PROVE  <<svc, "Query", rs[k].rpc>> \in Range(GoFunctionsOf(svc, rs))
  BY <1>1, <1>4
<1>5. ASSUME NEW k \in DOMAIN rs
      PROVE  <<svc, "handle", rs[k].rpc>> \in Range(GoFunctionsOf(svc, rs))
  BY <1>1
<1> QED
  BY <1>2, <1>3, <1>4, <1>5 DEF GoReferencesOf

\* Every function the Go file names is declared in it, and two declarations have
\* one name exactly if the file has dispatched paths that are homographs.
THEOREM GoNamesResolve == Spec => [](StreamsArePosted => GoFunctionsResolve)
<1>1. FileInv => (StreamsArePosted => GoFunctionsResolve)
  <2> SUFFICES ASSUME FileInv, StreamsArePosted, phase = "done"
      PROVE goRefs \subseteq Range(goFuncs) /\ (IsInjective(goFuncs) <=> ~Homographs)
    BY DEF GoFunctionsResolve
  <2>1. LoopInv /\ GoPrinted
    BY DEF FileInv
  <2>2. /\ Printed = DOMAIN file
        /\ \A k \in DOMAIN file : /\ k \in Nat /\ RoutesOf(k) \in Seq(Methods)
                                  /\ RpcsDistinct(RoutesOf(k))
    BY <2>1, AllPrinted
  <2>3. /\ goRefs = UNION {GoReferencesOf(k, RoutesOf(k)) : k \in DOMAIN file}
        /\ Range(goFuncs) = UNION {Range(GoFunctionsOf(k, RoutesOf(k))) : k \in DOMAIN file}
        /\ IsInjective(goFuncs) <=> \A k \in DOMAIN file : IsInjective(GoFunctionsOf(k, RoutesOf(k)))
    BY <2>1, <2>2 DEF GoPrinted
  <2>4. ASSUME NEW k \in DOMAIN file
        PROVE  GoReferencesOf(k, RoutesOf(k)) \subseteq Range(GoFunctionsOf(k, RoutesOf(k)))
    <3>1. \A a \in Dispatched(RoutesOf(k)) : RoutesOf(k)[a].stream => RoutesOf(k)[a].http = "POST"
      BY DEF StreamsArePosted
    <3> QED
      BY <2>2, <3>1, ServiceResolves
  <2>5. goRefs \subseteq Range(goFuncs)
    BY <2>3, <2>4
  <2>6. ASSUME NEW k \in DOMAIN file
        PROVE  IsInjective(GoFunctionsOf(k, RoutesOf(k)))
               <=> \A a, b \in Dispatched(RoutesOf(k)) :
                      RoutesOf(k)[a].http = RoutesOf(k)[b].http /\ Letters[RoutesOf(k)[a].path] = Letters[RoutesOf(k)[b].path]
                      => RoutesOf(k)[a].path = RoutesOf(k)[b].path
    <3>1. PICK rs \in Seq(Methods) : rs = RoutesOf(k) /\ RpcsDistinct(rs)
      BY <2>2
    <3>2. k \in Nat
      BY <2>2
    <3>3. IsInjective(GoFunctionsOf(k, rs)) <=>
            \A j, l \in HasDispatcher(rs) : DispatcherOf(k, rs, j) = DispatcherOf(k, rs, l) => j = l
      BY <3>1, <3>2, ServiceFunctions
    <3>4. (\A j, l \in HasDispatcher(rs) : DispatcherOf(k, rs, j) = DispatcherOf(k, rs, l) => j = l)
          <=> \A a, b \in Dispatched(rs) :
                 rs[a].http = rs[b].http /\ Letters[rs[a].path] = Letters[rs[b].path] => rs[a].path = rs[b].path
      BY <3>2, DispatcherNames
    <3> QED
      BY <3>1, <3>3, <3>4
  <2>7. Homographs <=> \E k \in DOMAIN file : \E a, b \in Dispatched(RoutesOf(k)) :
           /\ RoutesOf(k)[a].http = RoutesOf(k)[b].http /\ RoutesOf(k)[a].path # RoutesOf(k)[b].path
           /\ Letters[RoutesOf(k)[a].path] = Letters[RoutesOf(k)[b].path]
    BY DEF Homographs, RoutesOf
  <2> QED
    BY <2>3, <2>5, <2>6, <2>7
<1> QED
  BY <1>1, FilesFollowServices, PTL

\* A number that is the greatest of some places of a sequence.
LEMMA LastPlace ==
    ASSUME NEW n \in Nat, NEW A \in SUBSET (1 .. n), A # {}
    PROVE  \E k \in A : \A j \in A : j <= k
<1> DEFINE Behind == {n - k : k \in A}
<1>1. Behind \in SUBSET Nat /\ Behind # {}
  <2>1. \A k \in A : n - k \in Nat
    <3>1. \A k \in 1 .. n : n - k \in Nat
      OBVIOUS
    <3> QED
      BY <3>1
  <2>2. \E k \in A : n - k \in Behind
    OBVIOUS
  <2> QED
    BY <2>1, <2>2
<1>2. PICK b \in Behind : \A c \in Behind : <<c, b>> \notin OpToRel(<, Nat)
  BY <1>1, NatLessThanWellFounded, WFMin
<1>3. \A c \in Behind : ~(c < b)
  BY <1>1, <1>2 DEF OpToRel
<1>4. PICK k \in A : b = n - k
  OBVIOUS
<1>5. ASSUME NEW j \in A PROVE j <= k
  <2>1. ~(n - j < n - k)
    BY <1>3, <1>4
  <2> QED
    BY <2>1
<1> QED
  BY <1>5

\* A function a constructor names is a definition of its service.
LEMMA ReferencesAreDefinitions ==
    ASSUME NEW svc \in Nat, NEW rs \in Seq(Methods), NEW f \in PyRefsOf(svc, rs)
    PROVE  f \in Range(PyDefsOf(svc, rs)) /\ f.svc = svc
<1>1. \A x : x \in Range(PyDefsOf(svc, rs)) <=>
                \E k \in DOMAIN rs :
                   \/ HasVars(rs[k]) /\ x = [name |-> <<rs[k].rpc, "path_vars">>, svc |-> svc]
                   \/ PyHasQuery(rs[k]) /\ x = [name |-> <<rs[k].rpc, "query">>, svc |-> svc]
  BY ServiceDefinitions
<1>2. PICK k \in DOMAIN rs : f \in InitRefs(svc, rs[k])
  BY DEF PyRefsOf
<1>3. \/ HasVars(rs[k]) /\ f = [name |-> <<rs[k].rpc, "path_vars">>, svc |-> svc]
      \/ PyHasQuery(rs[k]) /\ f = [name |-> <<rs[k].rpc, "query">>, svc |-> svc]
  BY <1>2 DEF InitRefs, When
<1> QED
  BY <1>1, <1>3

\* The functions Python's constructors name are defined, for the RPC of the same
\* service or for one of that name of a later service; and what the file uses it
\* imports.
THEOREM PyNamesResolve == Spec => []PyFunctionsResolve
<1>1. FileInv => PyFunctionsResolve
  <2> SUFFICES ASSUME FileInv, phase = "done"
      PROVE /\ pyUses \subseteq pyImports
            /\ \A f \in pyRefs :
                 /\ Loaded(f.name) # {}
                 /\ \A owner \in Loaded(f.name) \ {f.svc} :
                       owner > f.svc /\ \E r \in Range(UsableOf(file[owner])) : r.rpc = f.name[1]
    BY DEF PyFunctionsResolve
  <2>1. LoopInv /\ PyPrinted
    BY DEF FileInv
  <2>2. /\ Printed = DOMAIN file
        /\ \A k \in DOMAIN file : k \in Nat /\ RoutesOf(k) \in Seq(Methods)
        /\ \A r : r \in AllRoutes <=> \E k \in DOMAIN file : r \in Range(RoutesOf(k))
    BY <2>1, AllPrinted
  <2>3. /\ pyUses = UNION {UNION {PyUsesOf(r) : r \in Range(RoutesOf(k))} : k \in DOMAIN file}
        /\ pyRefs = UNION {PyRefsOf(k, RoutesOf(k)) : k \in DOMAIN file}
        /\ pyDefs \in Seq(PyDefinitions)
        /\ Range(pyDefs) = UNION {Range(PyDefsOf(k, RoutesOf(k))) : k \in DOMAIN file}
        /\ \A a, b \in DOMAIN pyDefs : a <= b => pyDefs[a].svc <= pyDefs[b].svc
    BY <2>1, <2>2 DEF PyPrinted
  <2>4. pyUses \subseteq pyImports
    <3>1. \A r \in AllRoutes : PyUsesOf(r) \subseteq generatePyImports
      BY DEF PyUsesOf, generatePyImports, When
    <3>2. pyImports = generatePyImports
      BY <2>1 DEF LoopInv
    <3> QED
      BY <2>2, <2>3, <3>1, <3>2
  <2>5. ASSUME NEW f \in pyRefs
        PROVE  /\ Loaded(f.name) # {}
               /\ \A owner \in Loaded(f.name) \ {f.svc} :
                     owner > f.svc /\ \E r \in Range(UsableOf(file[owner])) : r.rpc = f.name[1]
    <3>1. PICK k \in DOMAIN file : f \in PyRefsOf(k, RoutesOf(k))
      BY <2>3
    <3>2. f \in Range(pyDefs) /\ f.svc = k /\ k \in Nat
      BY <2>2, <2>3, <3>1, ReferencesAreDefinitions
    <3>3. PICK n \in Nat : n = Len(pyDefs)
      BY <2>3
    <3>4. DOMAIN pyDefs = 1 .. n
      BY <2>3, <3>3
    <3>5. PICK y \in 1 .. n : pyDefs[y] = f
      BY <3>2, <3>4 DEF Range
    <3> DEFINE at == {x \in 1 .. n : pyDefs[x].name = f.name}
    <3>6. at \in SUBSET (1 .. n) /\ y \in at
      BY <3>5
    <3>7. Loaded(f.name) = {pyDefs[x].svc : x \in {x \in at : \A j \in at : j <= x}}
      BY <3>4 DEF Loaded
    <3> HIDE DEF at
    <3>8. PICK x \in at : \A j \in at : j <= x
      BY <3>3, <3>6, LastPlace
    <3>9. Loaded(f.name) # {}
      BY <3>7, <3>8
    <3>10. ASSUME NEW owner \in Loaded(f.name), owner # f.svc
           PROVE  owner > f.svc /\ \E r \in Range(UsableOf(file[owner])) : r.rpc = f.name[1]
      <4>1. PICK z \in at : (\A j \in at : j <= z) /\ owner = pyDefs[z].svc
        BY <3>7
      <4>2. z \in 1 .. n /\ y <= z /\ pyDefs[z].name = f.name
        BY <3>6, <4>1 DEF at
      <4>3. f.svc <= owner
        BY <2>3, <3>4, <3>5, <4>1, <4>2
      <4>4. pyDefs[z] \in Range(pyDefs)
        BY <3>4, <4>2 DEF Range
      <4>5. PICK l \in DOMAIN file : pyDefs[z] \in Range(PyDefsOf(l, RoutesOf(l)))
        BY <2>3, <4>4
      <4>6. l \in Nat /\ RoutesOf(l) \in Seq(Methods)
        BY <2>2
      <4>7. owner = l
        BY <4>1, <4>5, <4>6, DefinitionsOwned
      <4>8. \E j \in DOMAIN RoutesOf(l) : RoutesOf(l)[j].rpc = f.name[1]
        <5>1. \A d : d \in Range(PyDefsOf(l, RoutesOf(l))) <=>
                \E j \in DOMAIN RoutesOf(l) :
                   \/ HasVars(RoutesOf(l)[j]) /\ d = [name |-> <<RoutesOf(l)[j].rpc, "path_vars">>, svc |-> l]
                   \/ PyHasQuery(RoutesOf(l)[j]) /\ d = [name |-> <<RoutesOf(l)[j].rpc, "query">>, svc |-> l]
          BY <4>6, ServiceDefinitions
        <5>2. PICK j \in DOMAIN RoutesOf(l) :
                 \/ pyDefs[z] = [name |-> <<RoutesOf(l)[j].rpc, "path_vars">>, svc |-> l]
                 \/ pyDefs[z] = [name |-> <<RoutesOf(l)[j].rpc, "query">>, svc |-> l]
          BY <4>5, <5>1
        <5>3. pyDefs[z].name[1] = RoutesOf(l)[j].rpc
          BY <5>2
        <5> QED
          BY <4>2, <5>3
      <4>9. \E r \in Range(UsableOf(file[owner])) : r.rpc = f.name[1]
        <5>1. PICK j \in DOMAIN RoutesOf(l) : RoutesOf(l)[j].rpc = f.name[1]
          BY <4>8
        <5>2. RoutesOf(l)[j] \in Range(RoutesOf(l))
          BY DEF Range
        <5>3. RoutesOf(l) = UsableOf(file[owner])
          BY <4>7 DEF RoutesOf
        <5> QED
          BY <5>1, <5>2, <5>3
      <4> QED
        BY <3>2, <3>10, <4>3, <4>6, <4>7, <4>9
    <3> QED
      BY <3>9, <3>10
  <2> QED
    BY <2>4, <2>5
<1> QED
  BY <1>1, FilesFollowServices, PTL
=============================================================================
