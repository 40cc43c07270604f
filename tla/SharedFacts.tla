--------------------------- MODULE SharedFacts ---------------------------
(***************************************************************************)
(* What several proof modules rest on.                                     *)
(*                                                                         *)
(* First sequences: what FlattenSeq returns, which sequences are parts or  *)
(* beginnings of which, and small facts the provers have to be told.  The  *)
(* community module defines FlattenSeq with a recursive function that is   *)
(* chosen; here that function is shown to exist and to be the only one,    *)
(* and FlattenSeq to concatenate the elements of its argument in order     *)
(* (FlattenNext).  What is said of every length is shown with SetInduction.*)
(*                                                                         *)
(* Then the pure modules below the routes, for every text and every        *)
(* annotation: trimming undoes prepending, a cut loses nothing, unescaping *)
(* undoes escaping; and the n-th wildcard of the path an annotation becomes*)
(* has the n-th name of its variables.                                     *)
(***************************************************************************)
EXTENDS PathText, ServeMux, SequenceTheorems, FiniteSetTheorems,
        WellFoundedInduction, NaturalsInduction, TLAPS

\* Induction, for a set: the one with 0 and every successor is Nat.
LEMMA SetInduction ==
    ASSUME NEW T \in SUBSET Nat, 0 \in T, \A n \in T : n + 1 \in T
    PROVE  T = Nat
<1> SUFFICES ASSUME Nat \ T # {} PROVE FALSE
  OBVIOUS
<1>1. PICK n \in Nat \ T : \A m \in Nat \ T : ~(<<m, n>> \in OpToRel(<, Nat))
  BY NatLessThanWellFounded, WFMin, Nat \ T \in SUBSET Nat
<1>2. \A m \in Nat \ T : ~(m < n)
  BY <1>1 DEF OpToRel
<1>3. n # 0 /\ n - 1 \in Nat /\ n - 1 < n
  OBVIOUS
<1>4. n - 1 \in T
  BY <1>2, <1>3
<1>5. (n - 1) + 1 \in T /\ (n - 1) + 1 = n
  BY <1>4
<1> QED
  BY <1>5

\* f is the recursive function of FlattenSeq for the first m elements of s.
Flattens(s, f, m) ==
    /\ DOMAIN f = 1 .. m
    /\ \A i \in 1 .. m : f[i] = IF i = 1 THEN s[i] ELSE f[i - 1] \o s[i]

\* There is such a function.
LEMMA FlattensExists ==
    ASSUME NEW S, NEW n \in Nat, NEW s \in [1 .. n -> Seq(S)]
    PROVE  \E f \in [1 .. n -> Seq(S)] : Flattens(s, f, n)
<1> DEFINE T == {m \in Nat : m <= n => \E f \in [1 .. m -> Seq(S)] : Flattens(s, f, m)}
<1>1. 0 \in T
  <2>1. [i \in 1 .. 0 |-> <<>>] \in [1 .. 0 -> Seq(S)] /\ Flattens(s, [i \in 1 .. 0 |-> <<>>], 0)
    BY DEF Flattens
  <2> QED
    BY <2>1
<1>2. ASSUME NEW m \in T PROVE m + 1 \in T
  <2> SUFFICES ASSUME m + 1 <= n PROVE \E f \in [1 .. m + 1 -> Seq(S)] : Flattens(s, f, m + 1)
    OBVIOUS
  <2>1. PICK f \in [1 .. m -> Seq(S)] : Flattens(s, f, m)
    OBVIOUS
  <2> DEFINE last == IF m = 0 THEN s[1] ELSE f[m] \o s[m + 1]
             g == [i \in 1 .. m + 1 |-> IF i = m + 1 THEN last ELSE f[i]]
  <2>2. last \in Seq(S)
    <3>1. CASE m = 0
      BY <3>1
    <3>2. CASE m # 0
      <4>1. f[m] \in Seq(S) /\ s[m + 1] \in Seq(S)
        BY <3>2
      <4> QED
        BY <3>2, <4>1
    <3> QED
      BY <3>1, <3>2
  <2>3. g \in [1 .. m + 1 -> Seq(S)]
    <3> HIDE DEF last
    <3>1. \A i \in 1 .. m + 1 : i # m + 1 => i \in 1 .. m
      OBVIOUS
    <3> QED
      BY <2>2, <3>1
  <2>4. Flattens(s, g, m + 1)
    <3>1. DOMAIN g = 1 .. m + 1
      OBVIOUS
    <3>2. ASSUME NEW i \in 1 .. m + 1 PROVE g[i] = IF i = 1 THEN s[i] ELSE g[i - 1] \o s[i]
      <4>1. CASE i = m + 1
        <5>1. g[i] = last
          BY <4>1
        <5>2. i # 1 => i - 1 \in 1 .. m + 1 /\ i - 1 # m + 1 /\ i - 1 = m /\ m # 0
          BY <4>1
        <5>3. i # 1 => g[i - 1] = f[m]
          BY <5>2
        <5> QED
          BY <4>1, <5>1, <5>2, <5>3
      <4>2. CASE i # m + 1
        <5>1. i \in 1 .. m /\ g[i] = f[i]
          BY <4>2
        <5>2. i # 1 => i - 1 \in 1 .. m + 1 /\ i - 1 # m + 1 /\ g[i - 1] = f[i - 1]
          BY <5>1
        <5>3. f[i] = IF i = 1 THEN s[i] ELSE f[i - 1] \o s[i]
          BY <2>1, <5>1 DEF Flattens
        <5> HIDE DEF g
        <5> QED
          BY <5>1, <5>2, <5>3
      <4> QED
        BY <4>1, <4>2
    <3> HIDE DEF g
    <3> QED
      BY <3>1, <3>2 DEF Flattens
  <2> HIDE DEF g
  <2> QED
    BY <2>3, <2>4
<1> HIDE DEF T
<1>3. n \in T
  <2>1. T \in SUBSET Nat
    BY DEF T
  <2> QED
    BY <1>1, <1>2, <2>1, SetInduction
<1> QED
  BY <1>3 DEF T

\* There is one such function.
LEMMA FlattensUnique ==
    ASSUME NEW n \in Nat, NEW s, NEW f, NEW g, Flattens(s, f, n), Flattens(s, g, n)
    PROVE  \A i \in 1 .. n : f[i] = g[i]
<1> DEFINE T == {m \in Nat : m \in 1 .. n => f[m] = g[m]}
<1>1. 0 \in T
  OBVIOUS
<1>2. ASSUME NEW m \in T PROVE m + 1 \in T
  <2> SUFFICES ASSUME m + 1 \in 1 .. n PROVE f[m + 1] = g[m + 1]
    OBVIOUS
  <2>1. /\ f[m + 1] = IF m + 1 = 1 THEN s[m + 1] ELSE f[m + 1 - 1] \o s[m + 1]
        /\ g[m + 1] = IF m + 1 = 1 THEN s[m + 1] ELSE g[m + 1 - 1] \o s[m + 1]
    <3>1. PICK k \in 1 .. n : k = m + 1
      OBVIOUS
    <3>2. /\ f[k] = IF k = 1 THEN s[k] ELSE f[k - 1] \o s[k]
          /\ g[k] = IF k = 1 THEN s[k] ELSE g[k - 1] \o s[k]
      BY Zenon DEF Flattens
    <3> QED
      BY <3>1, <3>2
  <2>2. m + 1 - 1 = m /\ (m + 1 # 1 => m \in 1 .. n)
    OBVIOUS
  <2>3. m + 1 # 1 => f[m] = g[m]
    BY <2>2
  <2> QED
    BY <2>1, <2>2, <2>3
<1> HIDE DEF T
<1>3. T = Nat
  <2>1. T \in SUBSET Nat
    BY DEF T
  <2> QED
    BY <1>1, <1>2, <2>1, SetInduction
<1> QED
  BY <1>3 DEF T

\* FlattenSeq is the last of any such function.
LEMMA FlattenIsLast ==
    ASSUME NEW S, NEW n \in Nat \ {0}, NEW s \in [1 .. n -> Seq(S)],
           NEW f, Flattens(s, f, n)
    PROVE  FlattenSeq(s) = f[n]
<1> DEFINE Is(h) == h = [i \in 1 .. Len(s) |-> IF i = 1 THEN s[i] ELSE h[i - 1] \o s[i]]
<1>1. Len(s) = n
  OBVIOUS
<1>2. FlattenSeq(s) = (CHOOSE h : Is(h))[n]
  BY <1>1 DEF FlattenSeq
<1>3. PICK g \in [1 .. n -> Seq(S)] : Flattens(s, g, n)
  BY FlattensExists
<1>4. Is(g)
  BY <1>1, <1>3 DEF Flattens
<1>5. Is(CHOOSE h : Is(h))
  BY <1>4
<1> DEFINE c == CHOOSE h : Is(h)
<1>6. Flattens(s, c, n)
  <2> HIDE DEF c
  <2>1. c = [i \in 1 .. Len(s) |-> IF i = 1 THEN s[i] ELSE c[i - 1] \o s[i]]
    BY <1>5 DEF c
  <2> QED
    BY <1>1, <2>1 DEF Flattens
<1> HIDE DEF c
<1>7. c[n] = f[n]
  BY <1>6, FlattensUnique
<1> QED
  BY <1>2, <1>7 DEF c

\* Nothing flattens to nothing.
LEMMA FlattenEmpty ==
    ASSUME NEW s, DOMAIN s = 1 .. 0
    PROVE  FlattenSeq(s) = <<>>
<1>1. s = <<>> /\ Len(s) = 0
  OBVIOUS
<1> QED
  BY <1>1 DEF FlattenSeq

\* With one element more, FlattenSeq has that element appended.
LEMMA FlattenNext ==
    ASSUME NEW S, NEW n \in Nat, NEW t \in [1 .. n + 1 -> Seq(S)],
           NEW s, s = [i \in 1 .. n |-> t[i]]
    PROVE  FlattenSeq(t) = FlattenSeq(s) \o t[n + 1]
<1>1. PICK f \in [1 .. n + 1 -> Seq(S)] : Flattens(t, f, n + 1)
  BY FlattensExists, n + 1 \in Nat
<1>2. FlattenSeq(t) = f[n + 1] /\ f[n + 1] = IF n + 1 = 1 THEN t[n + 1] ELSE f[n + 1 - 1] \o t[n + 1]
  <2>1. PICK N : N = n + 1
    OBVIOUS
  <2>2. N \in Nat \ {0} /\ N \in 1 .. N /\ f \in [1 .. N -> Seq(S)] /\ t \in [1 .. N -> Seq(S)] /\ Flattens(t, f, N)
    BY <1>1, <2>1
  <2>3. FlattenSeq(t) = f[N]
    BY <2>2, FlattenIsLast, Zenon
  <2>4. f[N] = IF N = 1 THEN t[N] ELSE f[N - 1] \o t[N]
    BY <2>2, Zenon DEF Flattens
  <2> QED
    BY <2>1, <2>3, <2>4
<1>3. s \in [1 .. n -> Seq(S)]
  OBVIOUS
<1>4. CASE n = 0
  <2>1. FlattenSeq(s) = <<>>
    BY <1>4, FlattenEmpty
  <2>2. t[n + 1] \in Seq(S)
    OBVIOUS
  <2>3. <<>> \o t[n + 1] = t[n + 1]
    BY <2>2
  <2> QED
    BY <1>2, <1>4, <2>1, <2>3
<1>5. CASE n # 0
  <2> DEFINE g == [i \in 1 .. n |-> f[i]]
  <2>1. Flattens(s, g, n)
    <3>1. \A i \in 1 .. n : i \in 1 .. n + 1 /\ s[i] = t[i] /\ g[i] = f[i] /\ (i # 1 => i - 1 \in 1 .. n /\ g[i - 1] = f[i - 1])
      OBVIOUS
    <3>2. \A i \in 1 .. n : f[i] = IF i = 1 THEN t[i] ELSE f[i - 1] \o t[i]
      BY <1>1, <3>1 DEF Flattens
    <3>3. DOMAIN g = 1 .. n
      OBVIOUS
    <3> HIDE DEF g
    <3> QED
      BY <3>1, <3>2, <3>3 DEF Flattens
  <2>2. g[n] = f[n] /\ n + 1 - 1 = n /\ n \in Nat \ {0}
    BY <1>5
  <2> HIDE DEF g
  <2>3. FlattenSeq(s) = f[n]
    BY <1>3, <2>1, <2>2, FlattenIsLast
  <2>4. n + 1 # 1
    BY <1>5
  <2>5. FlattenSeq(t) = f[n] \o t[n + 1]
    <3>1. f[n + 1 - 1] = f[n]
      BY <2>2
    <3> QED
      BY <1>2, <2>4, <3>1, Zenon
  <2> QED
    BY <2>3, <2>5
<1> QED
  BY <1>4, <1>5

\* The elements of the result are elements of the elements.
LEMMA FlattenType ==
    ASSUME NEW S, NEW s \in Seq(Seq(S))
    PROVE  FlattenSeq(s) \in Seq(S)
<1>1. Len(s) \in Nat /\ s \in [1 .. Len(s) -> Seq(S)] /\ DOMAIN s = 1 .. Len(s)
  OBVIOUS
<1>2. CASE Len(s) = 0
  <2>1. FlattenSeq(s) = <<>>
    BY <1>1, <1>2, FlattenEmpty
  <2>2. <<>> \in Seq(S)
    OBVIOUS
  <2> QED
    BY <2>1, <2>2, Zenon
<1>3. CASE Len(s) # 0
  <2>1. PICK f \in [1 .. Len(s) -> Seq(S)] : Flattens(s, f, Len(s))
    BY <1>1, FlattensExists
  <2>2. FlattenSeq(s) = f[Len(s)]
    BY <1>1, <1>3, <2>1, FlattenIsLast
  <2> QED
    BY <1>1, <1>3, <2>2
<1> QED
  BY <1>2, <1>3

\* An element of a sequence, and a sequence known by its elements.
LEMMA ElementOf ==
    ASSUME NEW S, NEW s \in Seq(S)
    PROVE  Len(s) \in Nat /\ DOMAIN s = 1 .. Len(s) /\ \A i \in 1 .. Len(s) : s[i] \in S
OBVIOUS

\* Sequences over a larger set.
LEMMA LargerSet ==
    ASSUME NEW S, NEW T, S \subseteq T
    PROVE  Seq(S) \subseteq Seq(T)
OBVIOUS

\* Sequences written out.
LEMMA OneOf ==
    ASSUME NEW S, NEW a \in S
    PROVE  <<a>> \in Seq(S) /\ Len(<<a>>) = 1
OBVIOUS

\* Two elements.
LEMMA TwoOf ==
    ASSUME NEW S, NEW a \in S, NEW b \in S
    PROVE  <<a, b>> \in Seq(S) /\ Len(<<a, b>>) = 2
OBVIOUS

\* What two sequences make together, and its elements.
LEMMA Concatenated ==
    ASSUME NEW S, NEW s \in Seq(S), NEW t \in Seq(S)
    PROVE  s \o t \in Seq(S) /\ Len(s \o t) = Len(s) + Len(t)
OBVIOUS

\* The elements of a concatenation.
LEMMA JoinedAt ==
    ASSUME NEW S, NEW s \in Seq(S), NEW t \in Seq(S)
    PROVE  /\ \A i \in 1 .. Len(s) : (s \o t)[i] = s[i]
           /\ \A i \in 1 .. Len(t) : (s \o t)[Len(s) + i] = t[i]
OBVIOUS

\* The head of what begins with a known element.
LEMMA HeadOfTwo ==
    ASSUME NEW S, NEW a \in S, NEW b \in S
    PROVE  <<a, b>> # <<>> /\ Head(<<a, b>>) = a /\ <<a, b>>[2] = b /\ Len(<<a, b>>) = 2
OBVIOUS

\* The head and tail after one element.
LEMMA HeadOfJoined ==
    ASSUME NEW S, NEW a \in S, NEW t \in Seq(S)
    PROVE  <<a>> \o t # <<>> /\ Head(<<a>> \o t) = a /\ Tail(<<a>> \o t) = t
<1>1. Len(<<a>> \o t) = 1 + Len(t) /\ <<a>> \o t \in Seq(S) /\ \A i \in 1 .. Len(t) : (<<a>> \o t)[i + 1] = t[i]
  OBVIOUS
<1> QED
  BY <1>1

\* Concatenation: one element more, nothing more, and associativity.
LEMMA AppendJoined ==
    ASSUME NEW S, NEW s \in Seq(S), NEW t \in Seq(S), NEW a \in S
    PROVE  s \o Append(t, a) = (s \o t) \o <<a>> /\ Append(s, a) = s \o <<a>>
OBVIOUS

\* Nothing behind a sequence.
LEMMA NothingBehind ==
    ASSUME NEW S, NEW s \in Seq(S)
    PROVE  s \o <<>> = s
OBVIOUS

\* Nothing ahead of it.
LEMMA NothingAhead ==
    ASSUME NEW S, NEW s \in Seq(S)
    PROVE  <<>> \o s = s
OBVIOUS

\* Concatenation is associative.
LEMMA Associative ==
    ASSUME NEW S, NEW s \in Seq(S), NEW t \in Seq(S), NEW u \in Seq(S)
    PROVE  s \o (t \o u) = (s \o t) \o u
OBVIOUS

\* The type of a sequence is that of its elements.
LEMMA Retyped ==
    ASSUME NEW S, NEW T, NEW s \in Seq(S), \A i \in 1 .. Len(s) : s[i] \in T
    PROVE  s \in Seq(T)
OBVIOUS

-----------------------------------------------------------------------------
\* Where a part of a sequence is found in the whole.

Beginning(s, m) == [i \in 1 .. m |-> s[i]]

\* part stands in whole behind the first at elements.
Within(part, at, whole) ==
    /\ at \in Nat /\ at + Len(part) <= Len(whole)
    /\ \A j \in 1 .. Len(part) : whole[at + j] = part[j]

\* Both parts of a concatenation stand in it, one behind the other.
LEMMA WithinConcat ==
    ASSUME NEW S, NEW s \in Seq(S), NEW t \in Seq(S)
    PROVE  Within(s, 0, s \o t) /\ Within(t, Len(s), s \o t)
<1>1. Len(s) \in Nat /\ Len(t) \in Nat /\ Len(s \o t) = Len(s) + Len(t)
  OBVIOUS
<1>2. \A j \in 1 .. Len(s) : (s \o t)[0 + j] = s[j]
  OBVIOUS
<1>3. \A j \in 1 .. Len(t) : (s \o t)[Len(s) + j] = t[j]
  OBVIOUS
<1> QED
  BY <1>1, <1>2, <1>3 DEF Within

\* A part of a part is a part.
LEMMA WithinPart ==
    ASSUME NEW S, NEW s \in Seq(S), NEW t \in Seq(S), NEW u \in Seq(S),
           NEW a, NEW b, Within(s, a, t), Within(t, b, u)
    PROVE  Within(s, b + a, u)
<1>1. Len(s) \in Nat /\ Len(t) \in Nat /\ Len(u) \in Nat /\ a \in Nat /\ b \in Nat
  BY DEF Within
<1>2. b + a \in Nat /\ b + a + Len(s) <= Len(u)
  BY <1>1 DEF Within
<1>3. ASSUME NEW j \in 1 .. Len(s) PROVE u[b + a + j] = s[j]
  <2>1. a + j \in 1 .. Len(t) /\ t[a + j] = s[j]
    <3>1. a + Len(s) <= Len(t) /\ t[a + j] = s[j]
      BY DEF Within
    <3> QED
      BY <1>1, <3>1
  <2>2. PICK k \in 1 .. Len(t) : k = a + j
    BY <2>1
  <2>3. u[b + k] = t[k]
    BY DEF Within
  <2>4. b + k = b + a + j
    BY <1>1, <2>2
  <2> QED
    BY <2>1, <2>2, <2>3, <2>4
<1> QED
  BY <1>2, <1>3 DEF Within

\* The parts of h \o x \o f \o x.
LEMMA FourParts ==
    ASSUME NEW S, NEW h \in Seq(S), NEW x \in Seq(S), NEW f \in Seq(S),
           NEW e, e = h \o x \o f \o x
    PROVE  /\ e \in Seq(S)
           /\ Within(h \o x, 0, e)
           /\ Within(f, Len(h) + Len(x), e)
           /\ Within(x, Len(h) + Len(x) + Len(f), e)
           /\ Len(e) = Len(h) + Len(x) + Len(f) + Len(x)
<1> DEFINE a == h \o x
           b == a \o f
<1>1. a \in Seq(S) /\ Len(a) = Len(h) + Len(x)
  BY Concatenated
<1>2. b \in Seq(S) /\ Len(b) = Len(a) + Len(f)
  <2> HIDE DEF a
  <2> QED
    BY <1>1, Concatenated
<1>3. e = b \o x /\ b = a \o f
  OBVIOUS
<1> HIDE DEF a, b
<1>4. e \in Seq(S) /\ Len(e) = Len(b) + Len(x)
  BY <1>2, <1>3, Concatenated
<1>5. Within(b, 0, e) /\ Within(x, Len(b), e) /\ Within(a, 0, b) /\ Within(f, Len(a), b)
  BY <1>1, <1>2, <1>3, WithinConcat
<1>6. Within(a, 0 + 0, e) /\ Within(f, 0 + Len(a), e)
  BY <1>1, <1>2, <1>4, <1>5, WithinPart
<1>7. Len(a) \in Nat
  BY <1>1, ElementOf, Zenon
<1>8. 0 + 0 = 0 /\ 0 + Len(a) = Len(a)
  BY <1>7
<1> QED
  BY <1>1, <1>2, <1>4, <1>5, <1>6, <1>8, Zenon DEF a

\* The flattened beginnings of a sequence of sequences.
LEMMA BeginningType ==
    ASSUME NEW S, NEW n \in Nat, NEW s \in [1 .. n -> Seq(S)], NEW m \in 0 .. n
    PROVE  /\ Beginning(s, m) \in [1 .. m -> Seq(S)]
           /\ Beginning(s, n) = s
           /\ FlattenSeq(Beginning(s, m)) \in Seq(S)
<1>1. Beginning(s, m) \in [1 .. m -> Seq(S)] /\ Beginning(s, n) = s
  BY DEF Beginning
<1>2. Beginning(s, m) \in Seq(Seq(S))
  BY <1>1
<1> QED
  BY <1>1, <1>2, FlattenType

\* A beginning one longer.
LEMMA BeginningNext ==
    ASSUME NEW S, NEW n \in Nat, NEW s \in [1 .. n -> Seq(S)], NEW m \in Nat, m < n
    PROVE  FlattenSeq(Beginning(s, m + 1)) = FlattenSeq(Beginning(s, m)) \o s[m + 1]
<1>1. Beginning(s, m + 1) \in [1 .. m + 1 -> Seq(S)]
  <2>1. m + 1 \in 0 .. n
    OBVIOUS
  <2> QED
    BY <2>1, BeginningType
<1>2. Beginning(s, m) = [i \in 1 .. m |-> Beginning(s, m + 1)[i]] /\ Beginning(s, m + 1)[m + 1] = s[m + 1]
  BY DEF Beginning
<1>3. FlattenSeq(Beginning(s, m + 1)) = FlattenSeq(Beginning(s, m)) \o Beginning(s, m + 1)[m + 1]
  BY <1>1, <1>2, FlattenNext
<1> QED
  BY <1>2, <1>3

\* The next beginning has the next element appended.
LEMMA BeginningAppend ==
    ASSUME NEW S, NEW s \in Seq(S), NEW m \in Nat, m < Len(s)
    PROVE  /\ Beginning(s, 0) = <<>>
           /\ Append(Beginning(s, m), s[m + 1]) = Beginning(s, m + 1)
           /\ Beginning(s, m) \in Seq(S)
           /\ Beginning(s, Len(s)) = s
<1>1. /\ Beginning(s, m) \in Seq(S) /\ Beginning(s, m + 1) \in Seq(S)
      /\ Len(Beginning(s, m)) = m /\ Len(Beginning(s, m + 1)) = m + 1
  BY DEF Beginning
<1>2. Append(Beginning(s, m), s[m + 1]) = Beginning(s, m + 1)
  <2> DEFINE a == Append(Beginning(s, m), s[m + 1])
  <2>1. a \in Seq(S) /\ Len(a) = m + 1
    BY <1>1
  <2>2. ASSUME NEW i \in 1 .. m + 1 PROVE a[i] = Beginning(s, m + 1)[i]
    <3>1. Beginning(s, m + 1)[i] = s[i]
      BY DEF Beginning
    <3>2. CASE i = m + 1
      BY <1>1, <3>1, <3>2
    <3>3. CASE i # m + 1
      <4>1. i \in 1 .. m /\ Beginning(s, m)[i] = s[i]
        BY <3>3 DEF Beginning
      <4> QED
        BY <1>1, <3>1, <4>1
    <3> QED
      BY <3>2, <3>3
  <2> HIDE DEF a
  <2>3. a = Beginning(s, m + 1)
    BY <1>1, <2>1, <2>2
  <2> QED
    BY <2>3 DEF a
<1>3. Beginning(s, 0) = <<>> /\ Beginning(s, Len(s)) = s
  BY DEF Beginning
<1> QED
  BY <1>1, <1>2, <1>3

\* A beginning flattened is the beginning of the whole flattened.
LEMMA FlattenPrefix ==
    ASSUME NEW S, NEW n \in Nat, NEW s \in [1 .. n -> Seq(S)], NEW m \in 0 .. n
    PROVE  Within(FlattenSeq(Beginning(s, m)), 0, FlattenSeq(s))
<1> DEFINE T == {d \in Nat : m + d <= n => Within(FlattenSeq(Beginning(s, m)), 0, FlattenSeq(Beginning(s, m + d)))}
<1>0. FlattenSeq(Beginning(s, m)) \in Seq(S)
  BY BeginningType
<1>1. 0 \in T
  <2>1. m + 0 = m
    OBVIOUS
  <2>2. Within(FlattenSeq(Beginning(s, m)), 0, FlattenSeq(Beginning(s, m)))
    BY <1>0 DEF Within
  <2> QED
    BY <2>1, <2>2
<1>2. ASSUME NEW d \in T PROVE d + 1 \in T
  <2> SUFFICES ASSUME m + (d + 1) <= n
               PROVE  Within(FlattenSeq(Beginning(s, m)), 0, FlattenSeq(Beginning(s, m + (d + 1))))
    OBVIOUS
  <2>1. PICK k \in Nat : k = m + d
    OBVIOUS
  <2>2. k < n /\ m + (d + 1) = k + 1 /\ k + 1 \in Nat
    BY <2>1
  <2>3. Within(FlattenSeq(Beginning(s, m)), 0, FlattenSeq(Beginning(s, k)))
    BY <2>1
  <2>4. FlattenSeq(Beginning(s, k + 1)) = FlattenSeq(Beginning(s, k)) \o s[k + 1]
    BY <2>2, BeginningNext
  <2>5. FlattenSeq(Beginning(s, k)) \in Seq(S) /\ s[k + 1] \in Seq(S) /\ FlattenSeq(Beginning(s, k + 1)) \in Seq(S)
    <3>1. k \in 0 .. n /\ k + 1 \in 0 .. n /\ k + 1 \in 1 .. n
      BY <2>2
    <3> QED
      BY <3>1, BeginningType
  <2>6. Within(FlattenSeq(Beginning(s, k)), 0, FlattenSeq(Beginning(s, k + 1)))
    BY <2>4, <2>5, WithinConcat
  <2>7. Within(FlattenSeq(Beginning(s, m)), 0 + 0, FlattenSeq(Beginning(s, k + 1)))
    BY <1>0, <2>3, <2>5, <2>6, WithinPart
  <2> QED
    BY <2>2, <2>7
<1> HIDE DEF T
<1>3. T = Nat
  <2>1. T \in SUBSET Nat
    BY DEF T
  <2> QED
    BY <1>1, <1>2, <2>1, SetInduction
<1>4. n - m \in Nat /\ m + (n - m) = n
  OBVIOUS
<1>5. Within(FlattenSeq(Beginning(s, m)), 0, FlattenSeq(Beginning(s, n)))
  <2>1. n - m \in T
    BY <1>3, <1>4
  <2> QED
    BY <1>4, <2>1 DEF T
<1> QED
  BY <1>5, BeginningType, SMTT(30)

\* And element m + 1 stands behind it.
LEMMA FlattenPart ==
    ASSUME NEW S, NEW n \in Nat, NEW s \in [1 .. n -> Seq(S)], NEW m \in Nat, m < n
    PROVE  Within(s[m + 1], Len(FlattenSeq(Beginning(s, m))), FlattenSeq(s))
<1>1. m \in 0 .. n /\ m + 1 \in 0 .. n /\ m + 1 \in 1 .. n
  OBVIOUS
<1>2. FlattenSeq(Beginning(s, m + 1)) = FlattenSeq(Beginning(s, m)) \o s[m + 1]
  BY BeginningNext
<1>3. /\ s[m + 1] \in Seq(S) /\ FlattenSeq(Beginning(s, m)) \in Seq(S)
      /\ FlattenSeq(Beginning(s, m + 1)) \in Seq(S) /\ FlattenSeq(s) \in Seq(S)
  <2>1. n \in 0 .. n
    OBVIOUS
  <2> QED
    BY <1>1, <2>1, BeginningType
<1>4. Within(s[m + 1], Len(FlattenSeq(Beginning(s, m))), FlattenSeq(Beginning(s, m + 1)))
  BY <1>2, <1>3, WithinConcat
<1>5. Within(FlattenSeq(Beginning(s, m + 1)), 0, FlattenSeq(s))
  BY <1>1, FlattenPrefix
<1>6. Within(s[m + 1], 0 + Len(FlattenSeq(Beginning(s, m))), FlattenSeq(s))
  BY <1>3, <1>4, <1>5, WithinPart
<1>7. 0 + Len(FlattenSeq(Beginning(s, m))) = Len(FlattenSeq(Beginning(s, m)))
  BY <1>3
<1> QED
  BY <1>6, <1>7

\* x is nowhere in the k elements of s but at the end of the last.
OnlyAtTheEnd(s, k, x) ==
    \A j \in 1 .. k : \A y \in 1 .. Len(s[j]) : s[j][y] = x => j = k /\ y = Len(s[j])

\* Then x is nowhere in the whole but at its end.
LEMMA FlattenEnd ==
    ASSUME NEW S, NEW x, NEW k \in Nat \ {0}, NEW s \in [1 .. k -> Seq(S)],
           OnlyAtTheEnd(s, k, x)
    PROVE  \A y \in 1 .. Len(FlattenSeq(s)) : FlattenSeq(s)[y] = x => y = Len(FlattenSeq(s))
<1>1. PICK m \in Nat : k = m + 1 /\ m < k /\ m \in 0 .. k
  <2>1. k - 1 \in Nat /\ k = (k - 1) + 1 /\ k - 1 < k /\ k - 1 \in 0 .. k
    OBVIOUS
  <2> QED
    BY <2>1
<1>2. k \in 0 .. k /\ k \in 1 .. k
  OBVIOUS
<1>3. PICK b \in Seq(S \ {x}) : b = FlattenSeq(Beginning(s, m))
  <2>1. ASSUME NEW j \in 1 .. m PROVE s[j] \in Seq(S \ {x})
    <3>1. j \in 1 .. k /\ j # k /\ s[j] \in Seq(S)
      BY <1>1
    <3>2. \A y \in 1 .. Len(s[j]) : s[j][y] \in S \ {x}
      BY <3>1, ElementOf DEF OnlyAtTheEnd
    <3> QED
      BY <3>1, <3>2, Retyped
  <2>2. Beginning(s, m) \in Seq(Seq(S \ {x}))
    BY <2>1 DEF Beginning
  <2> QED
    BY <2>2, FlattenType
<1>4. b \in Seq(S) /\ s[k] \in Seq(S)
  <2>1. S \ {x} \subseteq S
    OBVIOUS
  <2>2. Seq(S \ {x}) \subseteq Seq(S)
    BY <2>1, LargerSet, Zenon
  <2> QED
    BY <1>2, <2>2
<1>5. PICK w \in Seq(S) : w = b \o s[k] /\ w = FlattenSeq(s)
  <2>1. FlattenSeq(Beginning(s, m + 1)) = FlattenSeq(Beginning(s, m)) \o s[m + 1]
    BY <1>1, BeginningNext
  <2>2. Beginning(s, k) = s
    BY <1>2, BeginningType, ZenonT(60)
  <2>3. FlattenSeq(s) = b \o s[k]
    BY <1>1, <1>3, <2>1, <2>2, Zenon
  <2> QED
    BY <1>4, <2>3, Concatenated
<1>6. Len(w) = Len(b) + Len(s[k]) /\ Len(b) \in Nat /\ Len(s[k]) \in Nat
  BY <1>4, <1>5, Concatenated, ElementOf
<1>0. /\ \A i \in 1 .. Len(b) : w[i] = b[i]
      /\ \A i \in 1 .. Len(s[k]) : w[Len(b) + i] = s[k][i]
  <2>1. /\ \A i \in 1 .. Len(b) : (b \o s[k])[i] = b[i]
        /\ \A i \in 1 .. Len(s[k]) : (b \o s[k])[Len(b) + i] = s[k][i]
    BY <1>4, JoinedAt
  <2> QED
    BY <1>5, <2>1
<1>7. ASSUME NEW y \in 1 .. Len(w), w[y] = x PROVE y = Len(w)
  <2>1. CASE y <= Len(b)
    <3>1. y \in 1 .. Len(b)
      BY <1>6, <2>1
    <3>2. w[y] = b[y]
      BY <1>0, <3>1, Zenon
    <3>3. b[y] \in S \ {x}
      BY <3>1, ElementOf
    <3> QED
      BY <1>7, <3>2, <3>3
  <2>2. CASE y > Len(b)
    <3>1. PICK z \in 1 .. Len(s[k]) : y = Len(b) + z
      <4>1. y - Len(b) \in 1 .. Len(s[k]) /\ y = Len(b) + (y - Len(b))
        BY <1>6, <2>2
      <4> QED
        BY <4>1
    <3>2. w[Len(b) + z] = s[k][z]
      BY <1>0, <3>1, Zenon
    <3>3. z = Len(s[k])
      BY <1>2, <1>7, <3>1, <3>2 DEF OnlyAtTheEnd
    <3> QED
      BY <1>6, <3>1, <3>3
  <2> QED
    BY <1>6, <2>1, <2>2
<1> QED
  BY <1>5, <1>7

\* A part at the beginning is the whole if it is as long.
LEMMA WholePart ==
    ASSUME NEW S, NEW p \in Seq(S), NEW w \in Seq(S), Within(p, 0, w)
    PROVE  /\ Len(p) \in Nat /\ Len(w) \in Nat /\ Len(p) <= Len(w)
           /\ \A j \in 1 .. Len(p) : w[j] = p[j]
           /\ Len(p) = Len(w) => p = w
<1>1. 0 + Len(p) <= Len(w) /\ \A j \in 1 .. Len(p) : w[0 + j] = p[j]
  BY DEF Within
<1>2. Len(p) \in Nat /\ Len(w) \in Nat
  OBVIOUS
<1>3. Len(p) <= Len(w) /\ \A j \in 1 .. Len(p) : w[j] = p[j]
  BY <1>1, <1>2
<1> QED
  BY <1>2, <1>3

\* What is left of a sequence without its last element.
LEMMA FrontAndLast ==
    ASSUME NEW S, NEW s \in Seq(S), NEW n \in Nat, Len(s) = n + 1
    PROVE  /\ s # <<>> /\ Last(s) = s[n + 1]
           /\ Front(s) \in Seq(S) /\ Len(Front(s)) = n /\ \A j \in 1 .. n : Front(s)[j] = s[j]
<1>1. s # <<>> /\ Len(s) - 1 = n /\ Last(s) = s[n + 1]
  BY DEF Last
<1>2. Front(s) = SubSeq(s, 1, n)
  BY <1>1, Zenon DEF Front
<1>3. SubSeq(s, 1, n) \in Seq(S) /\ Len(SubSeq(s, 1, n)) = n /\ \A j \in 1 .. n : SubSeq(s, 1, n)[j] = s[j]
  BY <1>1
<1> QED
  BY <1>1, <1>2, <1>3

\* A part that goes on with the part behind it.
LEMMA WithinJoined ==
    ASSUME NEW S, NEW a \in Seq(S), NEW q \in Seq(S), NEW w \in Seq(S),
           Within(a, 0, w), Within(q, Len(a), w)
    PROVE  Within(a \o q, 0, w)
<1>1. PICK A \in Nat, Q \in Nat, W \in Nat : A = Len(a) /\ Q = Len(q) /\ W = Len(w)
  BY ElementOf
<1>2. Len(a \o q) = A + Q /\ (\A j \in 1 .. A : (a \o q)[j] = a[j]) /\ \A j \in 1 .. Q : (a \o q)[A + j] = q[j]
  BY <1>1, Concatenated, JoinedAt
<1>3. A + Q <= W /\ (\A j \in 1 .. Q : w[A + j] = q[j])
  BY <1>1 DEF Within
<1>4. \A j \in 1 .. A : w[j] = a[j]
  BY <1>1, WholePart
<1>5. ASSUME NEW j \in 1 .. A + Q PROVE w[0 + j] = (a \o q)[j]
  <2>1. 0 + j = j
    OBVIOUS
  <2>2. CASE j \in 1 .. A
    BY <1>2, <1>4, <2>1, <2>2
  <2>3. CASE j \notin 1 .. A
    <3>1. PICK k \in 1 .. Q : j = A + k
      <4>1. j - A \in 1 .. Q /\ j = A + (j - A)
        BY <1>1, <2>3
      <4> QED
        BY <4>1
    <3> QED
      BY <1>2, <1>3, <2>1, <3>1, Zenon
  <2> QED
    BY <2>2, <2>3
<1>6. 0 + Len(a \o q) <= Len(w)
  BY <1>1, <1>2, <1>3
<1>7. 0 \in Nat
  OBVIOUS
<1> QED
  BY <1>2, <1>5, <1>6, <1>7, Zenon DEF Within

\* The beginning of <<a>> \o t, without a.
LEMMA WithinTail ==
    ASSUME NEW S, NEW a \in S, NEW t \in Seq(S), NEW p \in Seq(S), p # <<>>,
           Within(p, 0, <<a>> \o t)
    PROVE  Head(p) = a /\ Tail(p) \in Seq(S) /\ Within(Tail(p), 0, t)
<1>1. PICK P \in Nat, T \in Nat : P = Len(p) /\ T = Len(t) /\ P # 0
  BY ElementOf
<1>2. <<a>> \o t \in Seq(S) /\ Len(<<a>> \o t) = 1 + T /\ (<<a>> \o t)[1] = a /\ \A j \in 1 .. T : (<<a>> \o t)[1 + j] = t[j]
  BY <1>1
<1>3. P <= 1 + T /\ \A j \in 1 .. P : (<<a>> \o t)[j] = p[j]
  <2>1. PICK w \in Seq(S) : w = <<a>> \o t /\ Len(w) = 1 + T
    BY <1>2
  <2>2. Within(p, 0, w)
    BY <2>1
  <2>3. Len(p) <= Len(w) /\ \A j \in 1 .. Len(p) : w[j] = p[j]
    BY <2>2, WholePart
  <2> QED
    BY <1>1, <2>1, <2>3, Zenon
<1>4. /\ Head(p) = p[1] /\ Tail(p) \in Seq(S) /\ Len(Tail(p)) = P - 1
      /\ \A j \in 1 .. P - 1 : Tail(p)[j] = p[1 + j]
  BY <1>1
<1>5. Head(p) = a
  <2>1. 1 \in 1 .. P
    BY <1>1
  <2> QED
    BY <1>2, <1>3, <1>4, <2>1, Zenon
<1>6. ASSUME NEW j \in 1 .. P - 1 PROVE t[0 + j] = Tail(p)[j]
  <2>1. 0 + j = j /\ 1 + j \in 1 .. P /\ j \in 1 .. T
    BY <1>1, <1>3
  <2> QED
    BY <1>2, <1>3, <1>4, <2>1, Zenon
<1>7. 0 \in Nat /\ 0 + Len(Tail(p)) <= Len(t)
  BY <1>1, <1>3, <1>4
<1> QED
  BY <1>4, <1>5, <1>6, <1>7, Zenon DEF Within

\* A sequence more, for FlattenSeq.
LEMMA FlattenAppend ==
    ASSUME NEW S, NEW m \in Nat, NEW b \in [1 .. m -> Seq(S)], NEW q \in Seq(S)
    PROVE  Append(b, q) \in Seq(Seq(S)) /\ FlattenSeq(Append(b, q)) = FlattenSeq(b) \o q
<1>1. PICK T : T = Seq(S)
  OBVIOUS
<1>2. b \in Seq(T) /\ Len(b) = m /\ q \in T
  BY <1>1
<1>3. Append(b, q) \in Seq(T) /\ Len(Append(b, q)) = m + 1 /\ Append(b, q)[m + 1] = q
  BY <1>2
<1>4. b = [j \in 1 .. m |-> Append(b, q)[j]]
  BY <1>2
<1>5. PICK N \in Nat : N = m + 1
  OBVIOUS
<1>6. PICK e \in Seq(T) : e = Append(b, q) /\ Len(e) = N
  BY <1>3, <1>5, Zenon
<1>7. e \in [1 .. Len(e) -> T]
  OBVIOUS
<1>8. e \in [1 .. m + 1 -> Seq(S)] /\ b = [j \in 1 .. m |-> e[j]] /\ e[m + 1] = q
  BY <1>1, <1>3, <1>4, <1>5, <1>6, <1>7, Zenon
<1>9. FlattenSeq(e) = FlattenSeq(b) \o e[m + 1]
  BY <1>8, FlattenNext
<1> QED
  BY <1>1, <1>3, <1>6, <1>8, <1>9, Zenon

-----------------------------------------------------------------------------
\* Which elements a sequence has, and how often.

\* The elements of a concatenation.
LEMMA RangeJoined ==
    ASSUME NEW S, NEW s \in Seq(S), NEW t \in Seq(S)
    PROVE  Range(s \o t) = Range(s) \cup Range(t)
<1>1. PICK m \in Nat : m = Len(s)
  OBVIOUS
<1>2. PICK n \in Nat : n = Len(t)
  OBVIOUS
<1>3. DOMAIN s = 1 .. m /\ DOMAIN t = 1 .. n /\ DOMAIN (s \o t) = 1 .. m + n
  BY <1>1, <1>2
<1>4. /\ \A i \in 1 .. m : (s \o t)[i] = s[i]
      /\ \A i \in 1 .. n : (s \o t)[m + i] = t[i]
  BY <1>1, <1>2, JoinedAt
<1>5. \A x \in 1 .. m + n : x \in 1 .. m \/ (x - m \in 1 .. n /\ m + (x - m) = x)
  BY <1>1, <1>2
<1>6. /\ \A i \in 1 .. m : i \in 1 .. m + n
      /\ \A i \in 1 .. n : m + i \in 1 .. m + n
  BY <1>1, <1>2
<1>7. ASSUME NEW x \in 1 .. m + n PROVE (s \o t)[x] \in Range(s) \cup Range(t)
  <2>1. CASE x \in 1 .. m
    BY <1>3, <1>4, <2>1 DEF Range
  <2>2. CASE x - m \in 1 .. n /\ m + (x - m) = x
    <3>1. (s \o t)[x] = t[x - m]
      BY <1>4, <2>2
    <3> QED
      BY <1>3, <2>2, <3>1 DEF Range
  <2> QED
    BY <1>5, <2>1, <2>2
<1>8. ASSUME NEW i \in 1 .. m PROVE s[i] \in Range(s \o t)
  BY <1>3, <1>4, <1>6 DEF Range
<1>9. ASSUME NEW i \in 1 .. n PROVE t[i] \in Range(s \o t)
  BY <1>3, <1>4, <1>6 DEF Range
<1> QED
  BY <1>3, <1>7, <1>8, <1>9 DEF Range

\* A concatenation repeats nothing if neither part does and they share nothing.
LEMMA InjectiveJoined ==
    ASSUME NEW S, NEW s \in Seq(S), NEW t \in Seq(S)
    PROVE  IsInjective(s \o t) <=>
              IsInjective(s) /\ IsInjective(t) /\ Range(s) \cap Range(t) = {}
<1>1. PICK m \in Nat : m = Len(s)
  OBVIOUS
<1>2. PICK n \in Nat : n = Len(t)
  OBVIOUS
<1>3. DOMAIN s = 1 .. m /\ DOMAIN t = 1 .. n /\ DOMAIN (s \o t) = 1 .. m + n
  BY <1>1, <1>2
<1>4. /\ \A i \in 1 .. m : (s \o t)[i] = s[i]
      /\ \A i \in 1 .. n : (s \o t)[m + i] = t[i]
  BY <1>1, <1>2, JoinedAt
<1>5. \A x \in 1 .. m + n : x \in 1 .. m \/ (x - m \in 1 .. n /\ m + (x - m) = x)
  BY <1>1, <1>2
<1>6. /\ \A i \in 1 .. m : i \in 1 .. m + n
      /\ \A i \in 1 .. n : m + i \in 1 .. m + n
      /\ \A i \in 1 .. m : \A j \in 1 .. n : i # m + j
      /\ \A i, j \in 1 .. n : m + i = m + j => i = j
  BY <1>1, <1>2
<1>7. ASSUME IsInjective(s \o t)
      PROVE  IsInjective(s) /\ IsInjective(t) /\ Range(s) \cap Range(t) = {}
  <2>1. \A x, y \in 1 .. m + n : (s \o t)[x] = (s \o t)[y] => x = y
    BY <1>3, <1>7 DEF IsInjective
  <2>2. \A x, y \in 1 .. m : s[x] = s[y] => x = y
    BY <1>4, <1>6, <2>1
  <2>3. \A x, y \in 1 .. n : t[x] = t[y] => x = y
    BY <1>4, <1>6, <2>1
  <2>4. \A x \in 1 .. m : \A y \in 1 .. n : s[x] # t[y]
    BY <1>4, <1>6, <2>1
  <2> QED
    BY <1>3, <2>2, <2>3, <2>4 DEF IsInjective, Range
<1>8. ASSUME IsInjective(s), IsInjective(t), Range(s) \cap Range(t) = {}
      PROVE  IsInjective(s \o t)
  <2>1. /\ \A x, y \in 1 .. m : s[x] = s[y] => x = y
        /\ \A x, y \in 1 .. n : t[x] = t[y] => x = y
        /\ \A x \in 1 .. m : \A y \in 1 .. n : s[x] # t[y]
    <3>1. \A x, y \in 1 .. m : s[x] = s[y] => x = y
      BY <1>3, <1>8 DEF IsInjective
    <3>2. \A x, y \in 1 .. n : t[x] = t[y] => x = y
      BY <1>3, <1>8 DEF IsInjective
    <3>3. ASSUME NEW x \in 1 .. m, NEW y \in 1 .. n PROVE s[x] # t[y]
      BY <1>3, <1>8 DEF Range
    <3> QED
      BY <3>1, <3>2, <3>3
  <2>2. ASSUME NEW x \in 1 .. m + n, NEW y \in 1 .. m + n, (s \o t)[x] = (s \o t)[y]
        PROVE  x = y
    <3>1. CASE x \in 1 .. m /\ y \in 1 .. m
      <4>1. (s \o t)[x] = s[x] /\ (s \o t)[y] = s[y]
        BY <1>4, <3>1
      <4> QED
        BY <2>1, <2>2, <3>1, <4>1
    <3>2. CASE x \in 1 .. m /\ y \notin 1 .. m
      <4>1. y - m \in 1 .. n /\ m + (y - m) = y
        BY <1>5, <3>2
      <4>2. (s \o t)[y] = t[y - m] /\ (s \o t)[x] = s[x]
        BY <1>4, <3>2, <4>1
      <4> QED
        BY <2>1, <2>2, <3>2, <4>1, <4>2
    <3>3. CASE x \notin 1 .. m /\ y \in 1 .. m
      <4>1. x - m \in 1 .. n /\ m + (x - m) = x
        BY <1>5, <3>3
      <4>2. (s \o t)[x] = t[x - m] /\ (s \o t)[y] = s[y]
        BY <1>4, <3>3, <4>1
      <4> QED
        BY <2>1, <2>2, <3>3, <4>1, <4>2
    <3>4. CASE x \notin 1 .. m /\ y \notin 1 .. m
      <4>1. /\ x - m \in 1 .. n /\ m + (x - m) = x
            /\ y - m \in 1 .. n /\ m + (y - m) = y
        BY <1>5, <3>4
      <4>2. (s \o t)[x] = t[x - m] /\ (s \o t)[y] = t[y - m]
        BY <1>4, <4>1
      <4>3. x - m = y - m
        BY <2>1, <2>2, <4>1, <4>2
      <4> QED
        BY <4>1, <4>3
    <3> QED
      BY <3>1, <3>2, <3>3, <3>4
  <2> QED
    BY <1>3, <2>2 DEF IsInjective
<1> QED
  BY <1>7, <1>8

\* Two sequences without a common element.
Apart(s, t, S) == s \in Seq(S) /\ t \in Seq(S) /\ Range(s) \cap Range(t) = {}

\* What is so of the two is so of their concatenation.
LEMMA DisjointJoined ==
    ASSUME NEW S, NEW s, NEW t, Apart(s, t, S)
    PROVE  /\ s \o t \in Seq(S)
           /\ Range(s \o t) = Range(s) \cup Range(t)
           /\ IsInjective(s \o t) <=> IsInjective(s) /\ IsInjective(t)
<1>1. s \in Seq(S) /\ t \in Seq(S) /\ Range(s) \cap Range(t) = {}
  BY DEF Apart
<1>2. s \o t \in Seq(S)
  BY <1>1
<1> QED
  BY <1>1, <1>2, RangeJoined, InjectiveJoined

\* The same of a sequence of sequences.
LEMMA FlattenOnce ==
    ASSUME NEW S, NEW n \in Nat, NEW s \in [1 .. n -> Seq(S)]
    PROVE  /\ FlattenSeq(s) \in Seq(S)
           /\ Range(FlattenSeq(s)) = UNION {Range(s[k]) : k \in 1 .. n}
           /\ IsInjective(FlattenSeq(s)) <=>
                /\ \A k \in 1 .. n : IsInjective(s[k])
                /\ \A k, j \in 1 .. n : k # j => Range(s[k]) \cap Range(s[j]) = {}
<1> DEFINE P(m) ==
      /\ FlattenSeq(Beginning(s, m)) \in Seq(S)
      /\ Range(FlattenSeq(Beginning(s, m))) = UNION {Range(s[k]) : k \in 1 .. m}
      /\ IsInjective(FlattenSeq(Beginning(s, m))) <=>
            /\ \A k \in 1 .. m : IsInjective(s[k])
            /\ \A k, j \in 1 .. m : k # j => Range(s[k]) \cap Range(s[j]) = {}
    T == {m \in Nat : m <= n => P(m)}
<1>1. 0 \in T
  <2>1. 0 \in 0 .. n /\ 1 .. 0 = {}
    OBVIOUS
  <2>2. FlattenSeq(Beginning(s, 0)) = <<>>
    BY FlattenEmpty DEF Beginning
  <2>3. P(0)
    <3>1. <<>> \in Seq(S) /\ DOMAIN <<>> = {}
      OBVIOUS
    <3>2. Range(<<>>) = {} /\ IsInjective(<<>>)
      BY <3>1 DEF Range, IsInjective
    <3>3. UNION {Range(s[k]) : k \in 1 .. 0} = {}
      BY <2>1
    <3>4. \A k : k \notin 1 .. 0
      BY <2>1
    <3> QED
      BY <2>2, <3>1, <3>2, <3>3, <3>4
  <2> QED
    BY <2>3
<1>2. ASSUME NEW m \in T PROVE m + 1 \in T
  <2>0. m \in Nat /\ m + 1 \in Nat
    BY <1>2
  <2> SUFFICES ASSUME m + 1 <= n PROVE P(m + 1)
    BY <2>0
  <2>1. m \in Nat /\ m < n /\ m <= n /\ m + 1 \in 1 .. n
    BY <1>2
  <2>2. P(m)
    BY <2>1
  <2> HIDE DEF T
  <2> DEFINE f == FlattenSeq(Beginning(s, m))
             x == s[m + 1]
  <2>3. FlattenSeq(Beginning(s, m + 1)) = f \o x
    BY <2>1, BeginningNext
  <2>4. f \in Seq(S) /\ x \in Seq(S)
    BY <2>1, <2>2
  <2>5. \A k : k \in 1 .. m + 1 <=> k \in 1 .. m \/ k = m + 1
    BY <2>1
  <2>6. m + 1 \notin 1 .. m
    BY <2>1
  <2>7. f \o x \in Seq(S) /\ Range(f \o x) = Range(f) \cup Range(x)
    BY <2>4, RangeJoined
  <2>8. IsInjective(f \o x) <=> IsInjective(f) /\ IsInjective(x) /\ Range(f) \cap Range(x) = {}
    BY <2>4, InjectiveJoined
  <2>9. Range(f) = UNION {Range(s[k]) : k \in 1 .. m}
    BY <2>2
  <2>10. IsInjective(f) <=>
            /\ \A k \in 1 .. m : IsInjective(s[k])
            /\ \A k, j \in 1 .. m : k # j => Range(s[k]) \cap Range(s[j]) = {}
    BY <2>2
  <2> HIDE DEF f, x
  <2>11. Range(f) \cap Range(s[m + 1]) = {} <=> \A k \in 1 .. m : Range(s[k]) \cap Range(s[m + 1]) = {}
    BY <2>9
  <2>12. x = s[m + 1]
    BY DEF x
  <2>13. Range(f \o x) = UNION {Range(s[k]) : k \in 1 .. m + 1}
    BY <2>5, <2>7, <2>9, <2>12
  <2>14. IsInjective(f \o x) <=>
            /\ \A k \in 1 .. m + 1 : IsInjective(s[k])
            /\ \A k, j \in 1 .. m + 1 : k # j => Range(s[k]) \cap Range(s[j]) = {}
    <3>1. ASSUME IsInjective(f \o x), NEW k \in 1 .. m + 1, NEW j \in 1 .. m + 1, k # j
          PROVE  Range(s[k]) \cap Range(s[j]) = {}
      BY <2>5, <2>6, <2>8, <2>10, <2>11, <2>12, <3>1
    <3>2. ASSUME IsInjective(f \o x), NEW k \in 1 .. m + 1
          PROVE  IsInjective(s[k])
      BY <2>5, <2>8, <2>10, <2>12, <3>2
    <3>3. ASSUME \A k \in 1 .. m + 1 : IsInjective(s[k]),
                 \A k, j \in 1 .. m + 1 : k # j => Range(s[k]) \cap Range(s[j]) = {}
          PROVE  IsInjective(f \o x)
      <4>1. IsInjective(f) /\ IsInjective(x)
        BY <2>5, <2>10, <2>12, <3>3
      <4>2. \A k \in 1 .. m : k # m + 1 /\ k \in 1 .. m + 1 /\ m + 1 \in 1 .. m + 1
        BY <2>5, <2>6
      <4>3. Range(f) \cap Range(x) = {}
        BY <2>11, <2>12, <3>3, <4>2
      <4> QED
        BY <2>8, <4>1, <4>3
    <3> QED
      BY <3>1, <3>2, <3>3
  <2> QED
    BY <2>3, <2>7, <2>13, <2>14
<1>3. T = Nat
  <2>1. T \in SUBSET Nat
    OBVIOUS
  <2> HIDE DEF T
  <2> QED
    BY <1>1, <1>2, <2>1, SetInduction
<1>4. n \in T
  <2> HIDE DEF T
  <2> QED
    BY <1>3
<1>5. P(n)
  <2>1. n <= n
    OBVIOUS
  <2>2. n <= n => P(n)
    BY <1>4
  <2> QED
    BY <2>1, <2>2
<1>6. Beginning(s, n) = s
  BY BeginningType, n \in 0 .. n
<1> QED
  BY <1>5, <1>6

\* How long a flattened sequence may be.
LEMMA FlattenLength ==
    ASSUME NEW S, NEW n \in Nat, NEW s \in [1 .. n -> Seq(S)]
    PROVE  /\ (\A k \in 1 .. n : Len(s[k]) <= 1) => Len(FlattenSeq(s)) <= n
           /\ (\A k \in 1 .. n : Len(s[k]) <= 2) => Len(FlattenSeq(s)) <= 2 * n
<1> DEFINE P(m) ==
      /\ (\A k \in 1 .. n : Len(s[k]) <= 1) => Len(FlattenSeq(Beginning(s, m))) <= m
      /\ (\A k \in 1 .. n : Len(s[k]) <= 2) => Len(FlattenSeq(Beginning(s, m))) <= 2 * m
    T == {m \in Nat : m <= n => P(m)}
<1>1. 0 \in T
  <2>1. FlattenSeq(Beginning(s, 0)) = <<>>
    BY FlattenEmpty DEF Beginning
  <2>2. Len(FlattenSeq(Beginning(s, 0))) = 0
    BY <2>1
  <2> QED
    BY <2>2
<1>2. ASSUME NEW m \in T PROVE m + 1 \in T
  <2>0. m \in Nat /\ m + 1 \in Nat
    BY <1>2
  <2> SUFFICES ASSUME m + 1 <= n PROVE P(m + 1)
    BY <2>0
  <2>1. m < n /\ m <= n /\ m \in 0 .. n /\ m + 1 \in 1 .. n
    BY <2>0
  <2>2. P(m)
    BY <2>1
  <2>3. FlattenSeq(Beginning(s, m + 1)) = FlattenSeq(Beginning(s, m)) \o s[m + 1]
    BY <2>0, <2>1, BeginningNext
  <2>4. PICK f \in Seq(S) : f = FlattenSeq(Beginning(s, m))
    BY <2>1, BeginningType
  <2>5. PICK x \in Seq(S) : x = s[m + 1]
    BY <2>1
  <2>6. Len(f \o x) = Len(f) + Len(x) /\ Len(f) \in Nat /\ Len(x) \in Nat
    BY Concatenated
  <2>7. FlattenSeq(Beginning(s, m + 1)) = f \o x
    BY <2>3, <2>4, <2>5
  <2>8. ASSUME \A k \in 1 .. n : Len(s[k]) <= 1 PROVE Len(FlattenSeq(Beginning(s, m + 1))) <= m + 1
    <3>1. Len(f) <= m /\ Len(x) <= 1
      BY <2>1, <2>2, <2>4, <2>5, <2>8
    <3> QED
      BY <2>0, <2>6, <2>7, <3>1
  <2>9. ASSUME \A k \in 1 .. n : Len(s[k]) <= 2 PROVE Len(FlattenSeq(Beginning(s, m + 1))) <= 2 * (m + 1)
    <3>1. Len(f) <= 2 * m /\ Len(x) <= 2
      BY <2>1, <2>2, <2>4, <2>5, <2>9
    <3> QED
      BY <2>0, <2>6, <2>7, <3>1
  <2> QED
    BY <2>8, <2>9
<1>3. T = Nat
  <2>1. T \in SUBSET Nat
    OBVIOUS
  <2> HIDE DEF T
  <2> QED
    BY <1>1, <1>2, <2>1, SetInduction
<1>4. n \in T
  <2> HIDE DEF T
  <2> QED
    BY <1>3
<1>5. P(n)
  <2>1. n <= n
    OBVIOUS
  <2>2. n <= n => P(n)
    BY <1>4
  <2> QED
    BY <2>1, <2>2
<1>6. Beginning(s, n) = s
  BY BeginningType, n \in 0 .. n
<1> QED
  BY <1>5, <1>6

\* One element, or none.
LEMMA OneOrNone ==
    ASSUME NEW x
    PROVE  /\ Range(<<x>>) = {x} /\ IsInjective(<<x>>) /\ Len(<<x>>) = 1
           /\ Range(<<>>) = {} /\ IsInjective(<<>>) /\ Len(<<>>) = 0
<1>1. DOMAIN <<x>> = {1} /\ <<x>>[1] = x /\ DOMAIN <<>> = {} /\ Len(<<x>>) = 1 /\ Len(<<>>) = 0
  OBVIOUS
<1> QED
  BY <1>1 DEF Range, IsInjective

\* s is g with what is not at the places D left out, before it is flattened.
Picks(s, g, D, n, S) ==
    /\ n \in Nat /\ D \subseteq 1 .. n
    /\ g \in [1 .. n -> S] /\ s \in [1 .. n -> Seq(S)]
    /\ \A k \in D : s[k] = <<g[k]>>
    /\ \A k \in (1 .. n) \ D : s[k] = <<>>

\* Flattened, such a sequence has what g has at D, and as often.
LEMMA Picked ==
    ASSUME NEW S, NEW n, NEW g, NEW D, NEW s, Picks(s, g, D, n, S)
    PROVE  /\ FlattenSeq(s) \in Seq(S)
           /\ Len(FlattenSeq(s)) <= n
           /\ \A x : x \in Range(FlattenSeq(s)) <=> \E k \in D : x = g[k]
           /\ IsInjective(FlattenSeq(s)) <=> \A j, k \in D : g[j] = g[k] => j = k
<1>0. /\ n \in Nat /\ D \subseteq 1 .. n
      /\ g \in [1 .. n -> S] /\ s \in [1 .. n -> Seq(S)]
      /\ \A k \in D : s[k] = <<g[k]>>
      /\ \A k \in (1 .. n) \ D : s[k] = <<>>
  BY DEF Picks
<1>1. \A k \in 1 .. n :
        /\ Range(s[k]) = IF k \in D THEN {g[k]} ELSE {}
        /\ IsInjective(s[k])
        /\ Len(s[k]) <= 1
  <2> SUFFICES ASSUME NEW k \in 1 .. n
      PROVE /\ Range(s[k]) = IF k \in D THEN {g[k]} ELSE {}
            /\ IsInjective(s[k])
            /\ Len(s[k]) <= 1
    OBVIOUS
  <2>1. CASE k \in D
    <3>1. s[k] = <<g[k]>>
      BY <1>0, <2>1
    <3> QED
      BY <2>1, <3>1, OneOrNone
  <2>2. CASE k \notin D
    <3>1. s[k] = <<>>
      BY <1>0, <2>2
    <3>2. Range(<<>>) = {} /\ IsInjective(<<>>) /\ Len(<<>>) = 0
      BY OneOrNone, Zenon
    <3>3. Range(s[k]) = {} /\ IsInjective(s[k]) /\ Len(s[k]) = 0
      BY <3>1, <3>2, Zenon
    <3> QED
      BY <2>2, <3>3
  <2> QED
    BY <2>1, <2>2
<1>2. Len(FlattenSeq(s)) <= n
  BY <1>0, <1>1, FlattenLength
<1>3. /\ FlattenSeq(s) \in Seq(S)
      /\ Range(FlattenSeq(s)) = UNION {Range(s[k]) : k \in 1 .. n}
      /\ IsInjective(FlattenSeq(s)) <=>
           /\ \A k \in 1 .. n : IsInjective(s[k])
           /\ \A k, j \in 1 .. n : k # j => Range(s[k]) \cap Range(s[j]) = {}
  BY <1>0, FlattenOnce
<1>4. \A x : x \in UNION {Range(s[k]) : k \in 1 .. n} <=> \E k \in D : x = g[k]
  BY <1>0, <1>1, SMTT(30)
<1>5. (\A k, j \in 1 .. n : k # j => Range(s[k]) \cap Range(s[j]) = {})
      <=> \A j, k \in D : g[j] = g[k] => j = k
  <2>1. \A k, j \in 1 .. n : Range(s[k]) \cap Range(s[j]) = {} <=> ~(k \in D /\ j \in D /\ g[k] = g[j])
    BY <1>0, <1>1
  <2> QED
    BY <1>0, <2>1
<1> QED
  BY <1>1, <1>2, <1>3, <1>4, <1>5

\* A flattened sequence of nonempty parts.
LEMMA FlattenNonempty ==
    ASSUME NEW S, NEW n \in Nat \ {0}, NEW s \in [1 .. n -> Seq(S)], s[1] # <<>>
    PROVE  FlattenSeq(s) # <<>>
<1>1. n \in Nat /\ 0 \in Nat /\ 0 < n /\ 1 \in 1 .. n
  OBVIOUS
<1>2. Within(s[0 + 1], Len(FlattenSeq(Beginning(s, 0))), FlattenSeq(s))
  BY <1>1, FlattenPart
<1>3. FlattenSeq(Beginning(s, 0)) = <<>>
  BY FlattenEmpty DEF Beginning
<1>4. FlattenSeq(s) \in Seq(S)
  <2>1. s \in Seq(Seq(S))
    OBVIOUS
  <2> QED
    BY <2>1, FlattenType
<1>5. s[1] \in Seq(S) /\ Len(s[1]) # 0
  BY <1>1
<1>6. Len(s[1]) <= Len(FlattenSeq(s))
  <2>1. Within(s[1], 0, FlattenSeq(s))
    BY <1>2, <1>3
  <2> QED
    BY <1>4, <1>5, <2>1 DEF Within
<1> QED
  BY <1>4, <1>5, <1>6

\* A flattened sequence of single elements, but for the last part.
\* A flattened sequence of single elements, but for the last part.
LEMMA FlattenOnes ==
    ASSUME NEW S, NEW n \in Nat \ {0}, NEW s \in [1 .. n -> Seq(S)],
           \A k \in 1 .. n - 1 : Len(s[k]) = 1
    PROVE  /\ FlattenSeq(s) \in Seq(S) /\ Len(FlattenSeq(s)) = n - 1 + Len(s[n])
           /\ \A k \in 1 .. n : Len(s[k]) # 0 => FlattenSeq(s)[k] = s[k][1]
           /\ Len(s[n]) # 0 => FlattenSeq(s)[n - 1 + Len(s[n])] = s[n][Len(s[n])]
<1> DEFINE F(m) == FlattenSeq(Beginning(s, m))
           T == {m \in Nat : m < n => Len(F(m)) = m}
<1>1. 0 \in T
  <2>1. F(0) = <<>>
    BY FlattenEmpty DEF Beginning
  <2>2. Len(<<>>) = 0
    OBVIOUS
  <2> HIDE DEF F
  <2> QED
    BY <2>1, <2>2
<1>2. ASSUME NEW m \in T PROVE m + 1 \in T
  <2>0. m \in Nat /\ m + 1 \in Nat
    BY <1>2
  <2> SUFFICES ASSUME m + 1 < n PROVE Len(F(m + 1)) = m + 1
    BY <2>0
  <2>1. m < n /\ m \in 0 .. n /\ m + 1 \in 1 .. n /\ m + 1 \in 1 .. n - 1
    BY <2>0
  <2>2. Len(F(m)) = m
    BY <2>1
  <2>3. F(m + 1) = F(m) \o s[m + 1]
    BY <2>0, <2>1, BeginningNext
  <2>4. PICK f \in Seq(S) : f = F(m)
    BY <2>1, BeginningType
  <2>5. PICK x \in Seq(S) : x = s[m + 1]
    BY <2>1
  <2>6. Len(f \o x) = Len(f) + Len(x)
    BY Concatenated
  <2> HIDE DEF F
  <2>7. Len(f) = m /\ Len(x) = 1 /\ F(m + 1) = f \o x
    BY <2>1, <2>2, <2>3, <2>4, <2>5
  <2> QED
    BY <2>6, <2>7
<1>3. T = Nat
  <2>1. T \in SUBSET Nat
    OBVIOUS
  <2> HIDE DEF T
  <2> QED
    BY <1>1, <1>2, <2>1, SetInduction
<1>4. ASSUME NEW m \in Nat, m < n PROVE Len(F(m)) = m
  <2>1. m \in T
    <3> HIDE DEF T
    <3> QED
      BY <1>3
  <2> HIDE DEF F
  <2> QED
    BY <1>4, <2>1
<1>5. s \in Seq(Seq(S)) /\ n \in Nat
  OBVIOUS
<1>6. FlattenSeq(s) \in Seq(S)
  BY <1>5, FlattenType
<1> DEFINE G == FlattenSeq(s)
<1>7. ASSUME NEW k \in 1 .. n PROVE Within(s[k], k - 1, G)
  <2>1. k - 1 \in Nat /\ k - 1 < n /\ (k - 1) + 1 = k
    BY <1>7
  <2>2. Len(F(k - 1)) = k - 1
    BY <1>4, <2>1
  <2>3. Within(s[(k - 1) + 1], Len(FlattenSeq(Beginning(s, k - 1))), FlattenSeq(s))
    BY <1>5, <2>1, FlattenPart
  <2> QED
    BY <2>1, <2>2, <2>3
<1> HIDE DEF G
<1>8. ASSUME NEW k \in 1 .. n, Len(s[k]) # 0
      PROVE  G[k] = s[k][1] /\ G[k - 1 + Len(s[k])] = s[k][Len(s[k])]
  <2>1. s[k] \in Seq(S) /\ Len(s[k]) \in Nat
    OBVIOUS
  <2>2. \A j \in 1 .. Len(s[k]) : G[k - 1 + j] = s[k][j]
    BY <1>7 DEF Within
  <2>3. 1 \in 1 .. Len(s[k]) /\ Len(s[k]) \in 1 .. Len(s[k]) /\ k - 1 + 1 = k
    BY <1>8, <2>1
  <2> QED
    BY <2>2, <2>3
<1>9. Len(G) = n - 1 + Len(s[n])
  <2>1. n - 1 \in Nat /\ n - 1 < n /\ (n - 1) + 1 = n
    OBVIOUS
  <2>2. F(n) = F(n - 1) \o s[n]
    <3>1. F((n - 1) + 1) = F(n - 1) \o s[(n - 1) + 1]
      BY <1>5, <2>1, BeginningNext
    <3> QED
      BY <2>1, <3>1
  <2>3. PICK f \in Seq(S) : f = F(n - 1)
    <3>1. n - 1 \in 0 .. n
      OBVIOUS
    <3> QED
      BY <1>5, <3>1, BeginningType
  <2>4. PICK x \in Seq(S) : x = s[n]
    OBVIOUS
  <2>5. Len(f \o x) = Len(f) + Len(x)
    BY Concatenated
  <2>6. F(n) = G
    <3>1. Beginning(s, n) = s
      BY DEF Beginning
    <3> QED
      BY <3>1 DEF G
  <2>7. Len(f) = n - 1
    BY <1>4, <2>1, <2>3
  <2> HIDE DEF F
  <2> QED
    BY <2>2, <2>3, <2>4, <2>5, <2>6, <2>7
<1>10. n \in 1 .. n
  OBVIOUS
<1> QED
  BY <1>6, <1>8, <1>9, <1>10 DEF G

-----------------------------------------------------------------------------
\* A prefix that was put in front is trimmed off again: the single-wildcard
\* path variable of the client and the handler's prefix + value.
THEOREM TrimAddedPrefix ==
    ASSUME NEW S, NEW p \in Seq(S), NEW s \in Seq(S)
    PROVE  TrimPrefix(p \o s, p) = s
<1>1. IsPrefix(p, p \o s)
  <2>1. Len(p) <= Len(p \o s)
    BY ConcatProperties, LenProperties
  <2>2. SubSeq(p, 1, Len(p)) = SubSeq(p \o s, 1, Len(p))
    <3>1. CASE p = <<>>
      BY <3>1, SubSeqEmpty, LenProperties, EmptySeq
    <3>2. CASE p # <<>>
      <4>1. Len(p) \in Nat \ {0}
        BY <3>2, EmptySeq
      <4> QED
        BY <4>1, SubSeqOfConcat1
    <3> QED
      BY <3>1, <3>2
  <2> QED
    BY <2>1, <2>2 DEF IsPrefix
<1>2. SubSeq(p \o s, Len(p) + 1, Len(p \o s)) = s
  <2> DEFINE t == SubSeq(p \o s, Len(p) + 1, Len(p \o s))
  <2>1. /\ p \o s \in Seq(S)
        /\ Len(p \o s) = Len(p) + Len(s)
        /\ Len(p) \in Nat /\ Len(s) \in Nat
    BY ConcatProperties, LenProperties
  <2>2. \A i \in Len(p) + 1 .. Len(p \o s) : (p \o s)[i] \in S
    BY <2>1, ElementOfSeq
  <2>3. /\ t \in Seq(S)
        /\ Len(t) = Len(s)
        /\ \A i \in 1 .. Len(s) : t[i] = (p \o s)[Len(p) + 1 + i - 1]
    BY <2>1, <2>2, SubSeqProperties
  <2>4. \A i \in 1 .. Len(s) : (p \o s)[Len(p) + 1 + i - 1] = s[i]
    BY <2>1, ConcatProperties
  <2> QED
    BY <2>3, <2>4, SeqEqual
<1> QED
  BY <1>1, <1>2 DEF TrimPrefix

\* Cutting a text at an occurrence of a separator loses nothing.
LEMMA CutIsExact ==
    ASSUME NEW S, NEW s \in Seq(S), NEW sep \in Seq(S), sep # <<>>, Occurs(s, sep),
           FirstAt(s, sep) \in 1 .. Len(s), OccursAt(s, sep, FirstAt(s, sep))
    PROVE  /\ Before(s, sep) \in Seq(S) /\ After(s, sep) \in Seq(S)
           /\ Before(s, sep) \o sep \o After(s, sep) = s
<1> DEFINE k == FirstAt(s, sep)
           e == k + Len(sep) - 1
<1>1. /\ Len(s) \in Nat /\ Len(sep) \in Nat \ {0}
      /\ k \in 1 .. Len(s) /\ e \in k .. Len(s)
  BY LenProperties, EmptySeq DEF OccursAt
<1>2. sep = SubSeq(s, k, e)
  BY DEF OccursAt
<1>3. SubSeq(s, 1, k - 1) \o SubSeq(s, k, e) = SubSeq(s, 1, e)
  <2>1. 1 \in 1 .. Len(s) + 1 /\ k - 1 \in 1 - 1 .. Len(s) /\ e \in k - 1 .. Len(s)
    BY <1>1
  <2>2. (k - 1) + 1 = k
    BY <1>1
  <2> HIDE DEF k, e
  <2> QED
    BY <2>1, <2>2, ConcatAdjacentSubSeq
<1>4. SubSeq(s, 1, e) \o SubSeq(s, e + 1, Len(s)) = SubSeq(s, 1, Len(s))
  <2>1. 1 \in 1 .. Len(s) + 1 /\ e \in 1 - 1 .. Len(s) /\ Len(s) \in e .. Len(s)
    BY <1>1
  <2> HIDE DEF k, e
  <2> QED
    BY <2>1, ConcatAdjacentSubSeq
<1>5. SubSeq(s, 1, Len(s)) = s
  BY SubSeqFull
<1>6. Before(s, sep) = SubSeq(s, 1, k - 1) /\ After(s, sep) = SubSeq(s, e + 1, Len(s))
  <2>1. e + 1 = k + Len(sep)
    BY <1>1
  <2> QED
    BY <2>1 DEF Before, After
<1>7. SubSeq(s, 1, k - 1) \in Seq(S) /\ SubSeq(s, e + 1, Len(s)) \in Seq(S)
  <2>1. /\ 1 \in Int /\ k - 1 \in Int /\ e + 1 \in Int /\ Len(s) \in Int
        /\ \A i \in 1 .. k - 1 : s[i] \in S
        /\ \A i \in e + 1 .. Len(s) : s[i] \in S
    BY <1>1, ElementOfSeq
  <2> HIDE DEF k, e
  <2> QED
    BY <2>1, SubSeqProperties
<1> HIDE DEF k, e
<1> QED
  BY <1>2, <1>3, <1>4, <1>5, <1>6, <1>7

\* A first occurrence exists as soon as there is one at all.
LEMMA FirstOccurrence ==
    ASSUME NEW S, NEW s \in Seq(S), NEW sep, Occurs(s, sep)
    PROVE  /\ FirstAt(s, sep) \in 1 .. Len(s) /\ OccursAt(s, sep, FirstAt(s, sep))
           /\ \A h \in 1 .. FirstAt(s, sep) - 1 : ~OccursAt(s, sep, h)
<1> DEFINE At_ == {k \in 1 .. Len(s) : OccursAt(s, sep, k)}
<1>1. Len(s) \in Nat
  BY LenProperties
<1>2. At_ \subseteq Nat /\ At_ # {}
  BY <1>1 DEF Occurs
<1>3. PICK k \in At_ : \A h \in At_ : k <= h
  <2>1. PICK k \in At_ : \A h \in At_ : <<h, k>> \notin OpToRel(<, Nat)
    BY <1>2, NatLessThanWellFounded, WFMin DEF OpToRel
  <2>2. \A h \in At_ : ~(h < k)
    BY <1>2, <2>1 DEF OpToRel
  <2> QED
    BY <1>2, <2>2
<1>4. OccursAt(s, sep, k) /\ \A h \in 1 .. k - 1 : ~OccursAt(s, sep, h)
  BY <1>1, <1>3
<1> QED
  BY <1>3, <1>4 DEF FirstAt

\* The Go client and the server agree on a two-wildcard name: the name is the
\* prefix, the first value, the separator and the second value, even when the
\* values contain the separator.
THEOREM SplitIsExact ==
    ASSUME NEW S, NEW prefix \in Seq(S), NEW rest \in Seq(S),
           NEW sep \in Seq(S), sep # <<>>, Occurs(rest, sep)
    PROVE  LET name == prefix \o rest
           IN prefix \o (SplitMultiWildcard(name, prefix, sep, 0)
                         \o sep \o SplitMultiWildcard(name, prefix, sep, 1)) = name
<1>1. TrimPrefix(prefix \o rest, prefix) = rest
  BY TrimAddedPrefix
<1>2. /\ SplitMultiWildcard(prefix \o rest, prefix, sep, 0) = Before(rest, sep)
      /\ SplitMultiWildcard(prefix \o rest, prefix, sep, 1) = After(rest, sep)
  BY <1>1 DEF SplitMultiWildcard
<1>3. Before(rest, sep) \o sep \o After(rest, sep) = rest
  BY FirstOccurrence, CutIsExact
<1> QED
  BY <1>2, <1>3

-----------------------------------------------------------------------------
\* A text whose tokens are characters, not escaped forms.
Plain(s) == \A k \in DOMAIN s : s[k] \notin {"%2F", "%25", "%3A", "%21"}

\* Whatever a client escapes in its language the server unescapes.
LEMMA TokenRoundTrip ==
    ASSUME NEW client, NEW t
    PROVE  /\ UnescapeToken(EscapeToken(client, t)) = UnescapeToken(t)
           /\ t \notin {"%2F", "%25", "%3A", "%21"} => UnescapeToken(EscapeToken(client, t)) = t
BY DEF EscapeToken, Encoded, UnescapeToken

\* The server unescapes what the client escaped, in a single segment and in a
\* rest-of-path value, whatever the language of the client.
THEOREM EscapeRoundTrip ==
    ASSUME NEW S, NEW s \in Seq(S), Plain(s), NEW client, NEW multiSegment \in BOOLEAN
    PROVE  Unescape(escapePathVar(client, s, multiSegment)) = s
<1> DEFINE e == escapePathVar(client, s, multiSegment)
<1>1. /\ DOMAIN e = DOMAIN s
      /\ \A k \in DOMAIN s : e[k] = IF multiSegment /\ s[k] = "/" THEN "/" ELSE EscapeToken(client, s[k])
  BY DEF escapePathVar
<1>2. ASSUME NEW k \in DOMAIN s PROVE UnescapeToken(e[k]) = s[k]
  <2>1. CASE multiSegment /\ s[k] = "/"
    BY <1>1, <2>1 DEF UnescapeToken
  <2>2. CASE ~(multiSegment /\ s[k] = "/")
    BY <1>1, <2>2, TokenRoundTrip DEF Plain
  <2> QED
    BY <2>1, <2>2
<1>3. Unescape(e) = [k \in DOMAIN s |-> s[k]]
  BY <1>1, <1>2 DEF Unescape
<1>4. s = [k \in DOMAIN s |-> s[k]]
  BY LenProperties
<1> QED
  BY <1>3, <1>4

\* The value of a single-segment variable stays in its segment.
THEOREM OneSegment ==
    ASSUME NEW S, NEW s \in Seq(S), NEW client
    PROVE  \A k \in DOMAIN escapePathVar(client, s, FALSE) : escapePathVar(client, s, FALSE)[k] # "/"
BY DEF escapePathVar, EscapeToken, Encoded, LeftAlone

-----------------------------------------------------------------------------
\* The wildcards of a path and their names.

\* Names of path variables; those of an expanded one are numbered.
VarTexts == {<<f>> : f \in STRING} \cup (STRING \X Nat)

\* The wildcards of a path up to k.
UpTo(W, k) == {h \in W : h <= k}
NthOf(W, k) == Cardinality(UpTo(W, k))

\* The n-th wildcard has the n-th name; a path the ServeMux refuses may differ.
Well(path) == \A k \in DOMAIN path : path[k].kind # "bad"
Named(path, ns) ==
    /\ Len(ns) = Cardinality(Wildcards(path))
    /\ \A k \in Wildcards(path) :
         NthOf(Wildcards(path), k) \in DOMAIN ns /\ ns[NthOf(Wildcards(path), k)] = path[k].text
Aligned(path, ns) == ns \in Seq(VarTexts) /\ (Well(path) => Named(path, ns))

-----------------------------------------------------------------------------
\* Counting the members of a set up to one of them.

Below(W, n) == W \subseteq 1 .. n

LEMMA Counted ==
    ASSUME NEW n \in Nat, NEW W, Below(W, n)
    PROVE  /\ IsFiniteSet(W) /\ Cardinality(W) \in Nat /\ W \subseteq Nat
           /\ \A k \in W : k \in Nat /\ 1 <= k /\ k <= n
<1> USE DEF Below
<1>1. IsFiniteSet(1 .. n)
  BY FS_Interval
<1>2. IsFiniteSet(W)
  BY <1>1, FS_Subset
<1> QED
  BY <1>2, FS_CardinalityType

LEMMA UpToFacts ==
    ASSUME NEW n \in Nat, NEW W, Below(W, n), NEW k \in Nat
    PROVE  /\ IsFiniteSet(W) /\ Cardinality(W) \in Nat
           /\ UpTo(W, k) \in SUBSET W /\ IsFiniteSet(UpTo(W, k)) /\ NthOf(W, k) \in Nat
           /\ NthOf(W, k) <= Cardinality(W)
<1>2. IsFiniteSet(W) /\ Cardinality(W) \in Nat
  BY Counted
<1>3. UpTo(W, k) \in SUBSET W
  BY Zenon DEF UpTo
<1>4. IsFiniteSet(UpTo(W, k)) /\ Cardinality(UpTo(W, k)) <= Cardinality(W)
  BY <1>2, <1>3, FS_Subset
<1> QED
  BY <1>2, <1>3, <1>4, FS_CardinalityType DEF NthOf

\* Different members have different ranks.
LEMMA RanksDiffer ==
    ASSUME NEW n \in Nat, NEW W, Below(W, n), NEW k \in W, NEW h \in W, k < h
    PROVE  NthOf(W, k) < NthOf(W, h)
<1>1. k \in Nat /\ h \in Nat
  BY Counted
<1>2. IsFiniteSet(UpTo(W, h)) /\ UpTo(W, k) \in SUBSET UpTo(W, h) /\ h \in UpTo(W, h) \ UpTo(W, k)
  <2>1. IsFiniteSet(UpTo(W, h))
    BY <1>1, UpToFacts
  <2>2. \A x \in W : x <= k => x <= h
    BY Counted
  <2>3. UpTo(W, k) \in SUBSET UpTo(W, h)
    BY <2>2, Zenon DEF UpTo
  <2>4. h \in UpTo(W, h) \ UpTo(W, k)
    BY <1>1 DEF UpTo
  <2> QED
    BY <2>1, <2>3, <2>4
<1>3. /\ Cardinality(UpTo(W, k)) <= Cardinality(UpTo(W, h))
      /\ Cardinality(UpTo(W, h)) = Cardinality(UpTo(W, k)) => UpTo(W, h) = UpTo(W, k)
  BY <1>2, FS_Subset
<1>4. NthOf(W, k) \in Nat /\ NthOf(W, h) \in Nat
  BY <1>1, UpToFacts
<1> QED
  BY <1>2, <1>3, <1>4 DEF NthOf

\* The ranks are the numbers up to the size of the set, each once; the last
\* possible member, if it is one, has the size of the set as its rank.
LEMMA RanksOnce ==
    ASSUME NEW n \in Nat, NEW W, Below(W, n)
    PROVE  /\ \A k \in W : NthOf(W, k) \in 1 .. Cardinality(W)
           /\ \A k, h \in W : NthOf(W, k) = NthOf(W, h) => k = h
           /\ \A j \in 1 .. Cardinality(W) : \E k \in W : NthOf(W, k) = j
           /\ n \in W => NthOf(W, n) = Cardinality(W)
<1> DEFINE c == Cardinality(W)
           f == [k \in W |-> NthOf(W, k)]
<1>1. IsFiniteSet(W) /\ c \in Nat /\ W \subseteq Nat /\ \A k \in W : k <= n
  BY Counted
<1>2. ASSUME NEW k \in W PROVE NthOf(W, k) \in 1 .. c
  <2>1. k \in Nat /\ k \in UpTo(W, k)
    BY <1>1 DEF UpTo
  <2>2. NthOf(W, k) \in Nat /\ NthOf(W, k) <= c /\ IsFiniteSet(UpTo(W, k))
    BY <2>1, UpToFacts
  <2>3. NthOf(W, k) # 0
    BY <2>1, <2>2, FS_EmptySet DEF NthOf
  <2> QED
    BY <1>1, <2>2, <2>3
<1>3. ASSUME NEW k \in W, NEW h \in W, NthOf(W, k) = NthOf(W, h) PROVE k = h
  <2>1. k \in Nat /\ h \in Nat /\ (k < h \/ h < k \/ k = h)
    BY Counted
  <2>2. NthOf(W, k) \in Nat /\ NthOf(W, h) \in Nat
    BY <1>2
  <2> QED
    <3>1. ASSUME k < h PROVE NthOf(W, k) < NthOf(W, h)
      BY <3>1, RanksDiffer
    <3>2. ASSUME h < k PROVE NthOf(W, h) < NthOf(W, k)
      BY <3>2, RanksDiffer
    <3> QED
      BY <1>3, <2>1, <2>2, <3>1, <3>2
<1>4. f \in Injection(W, 1 .. c)
  BY <1>2, <1>3 DEF Injection, IsInjective
<1>5. IsFiniteSet(1 .. c) /\ Cardinality(1 .. c) = c
  BY <1>1, FS_Interval
<1>6. f \in Surjection(W, 1 .. c)
  BY <1>4, <1>5, FS_Injection, Zenon
<1>7. \A j \in 1 .. c : \E k \in W : f[k] = j
  BY <1>6 DEF Surjection
<1>8. ASSUME n \in W PROVE NthOf(W, n) = c
  <2>1. UpTo(W, n) = W
    BY <1>1, Zenon DEF UpTo
  <2> QED
    BY <2>1 DEF NthOf
<1> QED
  BY <1>2, <1>3, <1>7, <1>8

\* A set moved up.
Moved(S, m) == {m + h : h \in S}

LEMMA MovedSize ==
    ASSUME NEW m \in Nat, NEW S, S \subseteq Nat, IsFiniteSet(S)
    PROVE  IsFiniteSet(Moved(S, m)) /\ Cardinality(Moved(S, m)) = Cardinality(S)
<1> DEFINE f == [h \in S |-> m + h]
<1>1. f \in [S -> Moved(S, m)] /\ \A h, k \in S : f[h] = f[k] => h = k
  BY DEF Moved
<1>2. f \in Injection(S, Moved(S, m))
  BY <1>1 DEF Injection, IsInjective
<1>3. \A x \in Moved(S, m) : \E h \in S : f[h] = x
  BY DEF Moved
<1>4. f \in Surjection(S, Moved(S, m))
  BY <1>1, <1>3 DEF Surjection
<1>5. f \in Bijection(S, Moved(S, m))
  BY <1>2, <1>4 DEF Bijection
<1>6. ExistsBijection(S, Moved(S, m))
  BY <1>5 DEF ExistsBijection
<1> QED
  BY <1>6, FS_Bijection

LEMMA MovedBehind ==
    ASSUME NEW m \in Nat, NEW n \in Nat, NEW V, Below(V, m), NEW S, Below(S, n)
    PROVE  Cardinality(V \cup Moved(S, m)) = Cardinality(V) + Cardinality(S)
<1>1. /\ IsFiniteSet(V) /\ Cardinality(V) \in Nat
      /\ IsFiniteSet(S) /\ Cardinality(S) \in Nat /\ S \subseteq Nat
  <2>1. IsFiniteSet(V) /\ Cardinality(V) \in Nat
    BY Counted
  <2> QED
    BY <2>1, Counted
<1>2. IsFiniteSet(Moved(S, m)) /\ Cardinality(Moved(S, m)) = Cardinality(S)
  BY <1>1, MovedSize
<1>3. V \cap Moved(S, m) = {}
  <2> SUFFICES ASSUME NEW h \in S, m + h \in V PROVE FALSE
    BY DEF Moved
  <2>1. h \in Nat /\ 1 <= h /\ m + h <= m
    BY Counted
  <2> QED
    BY <2>1
<1>4. Cardinality(V \cap Moved(S, m)) = 0
  BY <1>3, FS_EmptySet
<1> QED
  <2>1. Cardinality(V \cup Moved(S, m))
        = Cardinality(V) + Cardinality(Moved(S, m)) - Cardinality(V \cap Moved(S, m))
    BY <1>1, <1>2, FS_Union
  <2> QED
    BY <1>1, <1>2, <1>4, <2>1

\* RanksOnce in a set and one moved behind it.
LEMMA RanksAhead ==
    ASSUME NEW m \in Nat, NEW n \in Nat, NEW V, Below(V, m), NEW S, Below(S, n), NEW k \in V
    PROVE  NthOf(V \cup Moved(S, m), k) = NthOf(V, k)
<1>1. UpTo(V \cup Moved(S, m), k) = UpTo(V, k)
  <2>1. k \in Nat /\ k <= m
    BY Counted
  <2>2. \A x \in S : x \in Nat /\ 1 <= x
    BY Counted
  <2>3. \A x \in S : ~(m + x <= k)
    BY <2>1, <2>2
  <2> QED
    BY <2>3 DEF UpTo, Moved
<1> QED
  BY <1>1 DEF NthOf

LEMMA RanksBehind ==
    ASSUME NEW m \in Nat, NEW n \in Nat, NEW V, Below(V, m), NEW S, Below(S, n), NEW h \in S
    PROVE  NthOf(V \cup Moved(S, m), m + h) = Cardinality(V) + NthOf(S, h)
<1>1. UpTo(V \cup Moved(S, m), m + h) = V \cup Moved(UpTo(S, h), m)
  <2>1. \A x \in V : x <= m + h
    BY Counted
  <2>2. \A x \in S : m + x <= m + h <=> x <= h
    BY Counted
  <2>3. \A y : y \in UpTo(V \cup Moved(S, m), m + h)
               <=> y \in V \/ \E x \in S : y = m + x /\ m + x <= m + h
    BY <2>1, Zenon DEF UpTo, Moved
  <2>4. \A y : y \in V \cup Moved(UpTo(S, h), m)
               <=> y \in V \/ \E x \in S : y = m + x /\ x <= h
    BY Zenon DEF UpTo, Moved
  <2> QED
    BY <2>2, <2>3, <2>4, Zenon
<1>2. Below(UpTo(S, h), n)
  BY Zenon DEF UpTo, Below
<1>3. Cardinality(V \cup Moved(UpTo(S, h), m)) = Cardinality(V) + Cardinality(UpTo(S, h))
  BY <1>2, MovedBehind
<1> QED
  BY <1>1, <1>3 DEF NthOf

-----------------------------------------------------------------------------
\* Paths and the names of their wildcards.

SegRecords == [kind : {"lit", "var", "rest", "bad"}, text : VarTexts \cup {<<>>},
               tail : STRING \cup {""}, hidden : Seq(STRING)]
SegSet == {x \in SegRecords :
             /\ x.kind # "bad" => x.text \in VarTexts
             /\ x.kind # "rest" => x.hidden = <<>>}

LEMMA SegFields ==
    ASSUME NEW x \in SegSet
    PROVE  /\ x.kind \in {"lit", "var", "rest", "bad"} /\ x.tail \in STRING \cup {""} /\ x.hidden \in Seq(STRING)
           /\ x.text \in VarTexts \cup {<<>>}
           /\ x.kind # "bad" => x.text \in VarTexts
           /\ x.kind # "rest" => x.hidden = <<>>
BY DEF SegSet, SegRecords

LEMMA TextsAreNot ==
    ASSUME NEW t \in VarTexts
    PROVE  t # <<>>
<1>1. ASSUME NEW f \in STRING, NEW n \in Nat PROVE <<f>> # <<>> /\ <<f, n>> # <<>>
  OBVIOUS
<1>2. CASE t \in {<<f>> : f \in STRING}
  BY <1>1, <1>2
<1>3. CASE t \in STRING \X Nat
  <2>1. t = <<t[1], t[2]>> /\ t[1] \in STRING /\ t[2] \in Nat
    BY <1>3
  <2> QED
    BY <1>1, <2>1, Zenon
<1> QED
  BY <1>2, <1>3, Zenon DEF VarTexts

\* The constructors of segments.
LEMMA SegsMade ==
    /\ \A t \in STRING : Lit(t) \in SegSet /\ Lit(t).kind = "lit"
    /\ \A t \in VarTexts : Var(t) \in SegSet /\ Var(t).kind = "var" /\ Var(t).text = t
    /\ \A t \in VarTexts : \A l \in Seq(STRING) :
         Rest(t, l) \in SegSet /\ Rest(t, l).kind = "rest" /\ Rest(t, l).text = t
    /\ Bad \in SegSet /\ Bad.kind = "bad"
<1>1. <<>> \in Seq(STRING)
  OBVIOUS
<1>2. ASSUME NEW k \in {"lit", "var", "rest", "bad"}, NEW t \in VarTexts \cup {<<>>},
             NEW l \in Seq(STRING), k # "bad" => t \in VarTexts, k # "rest" => l = <<>>
      PROVE  [kind |-> k, text |-> t, tail |-> "", hidden |-> l] \in SegSet
  <2> DEFINE x == [kind |-> k, text |-> t, tail |-> "", hidden |-> l]
  <2>1. x.kind = k /\ x.text = t /\ x.hidden = l
    OBVIOUS
  <2>2. x \in SegRecords
    BY DEF SegRecords
  <2> HIDE DEF x
  <2>3. x \in SegSet
    BY <1>2, <2>1, <2>2, Zenon DEF SegSet
  <2> QED
    BY <2>3 DEF x
<1>3. ASSUME NEW k, NEW t
      PROVE  /\ Seg(k, t) = [kind |-> k, text |-> t, tail |-> "", hidden |-> <<>>]
             /\ Seg(k, t).kind = k /\ Seg(k, t).text = t
  BY DEF Seg
<1>4. ASSUME NEW t \in STRING PROVE Lit(t) \in SegSet /\ Lit(t).kind = "lit"
  <2>1. <<t>> \in VarTexts
    BY DEF VarTexts
  <2> QED
    <3>1. [kind |-> "lit", text |-> <<t>>, tail |-> "", hidden |-> <<>>] \in SegSet
      BY <1>1, <1>2, <2>1
    <3> QED
      BY <1>3, <3>1, Zenon DEF Lit
<1>5. ASSUME NEW t \in VarTexts
      PROVE  Var(t) \in SegSet /\ Var(t).kind = "var" /\ Var(t).text = t
  <2>1. [kind |-> "var", text |-> t, tail |-> "", hidden |-> <<>>] \in SegSet
    BY <1>1, <1>2
  <2> QED
    BY <1>3, <2>1, Zenon DEF Var
<1>6. ASSUME NEW t \in VarTexts, NEW l \in Seq(STRING)
      PROVE  Rest(t, l) \in SegSet /\ Rest(t, l).kind = "rest" /\ Rest(t, l).text = t
  <2>1. Seg("rest", t) \in SegRecords /\ Seg("rest", t).kind = "rest" /\ Seg("rest", t).text = t
    <3>1. [kind |-> "rest", text |-> t, tail |-> "", hidden |-> <<>>] \in SegSet
      BY <1>1, <1>2
    <3>2. Seg("rest", t) \in SegRecords
      BY <1>3, <3>1, Zenon DEF SegSet
    <3> QED
      BY <1>3, <3>2
  <2> DEFINE b == Seg("rest", t)
             x == [b EXCEPT !.hidden = l]
  <2> HIDE DEF b
  <2>2. x \in SegRecords /\ x.kind = b.kind /\ x.text = b.text
    BY <2>1 DEF SegRecords, b
  <2>3. x = Rest(t, l)
    BY DEF b, Rest
  <2> HIDE DEF x
  <2>4. x \in SegSet
    BY <2>1, <2>2, Zenon DEF SegSet, b
  <2> QED
    BY <2>1, <2>2, <2>3, <2>4 DEF b
<1>7. Bad \in SegSet /\ Bad.kind = "bad"
  <2>1. Bad = [kind |-> "bad", text |-> <<>>, tail |-> "", hidden |-> <<>>]
    BY <1>3, Zenon DEF Bad
  <2>2. [kind |-> "bad", text |-> <<>>, tail |-> "", hidden |-> <<>>] \in SegSet
    BY <1>1, <1>2
  <2> QED
    BY <1>3, <2>1, <2>2 DEF Bad
<1> QED
  BY <1>4, <1>5, <1>6, <1>7

LEMMA WildcardsBelow ==
    ASSUME NEW S, NEW p \in Seq(S)
    PROVE  Below(Wildcards(p), Len(p))
BY DEF Below, Wildcards

\* A path without wildcards, and one with one.
LEMMA NoWildcard ==
    ASSUME NEW p, Wildcards(p) = {}
    PROVE  Named(p, <<>>)
BY FS_EmptySet DEF Named

LEMMA OneWildcard ==
    ASSUME NEW p \in Seq(SegSet), NEW k \in 1 .. Len(p), Wildcards(p) = {k}
    PROVE  Named(p, <<p[k].text>>)
<1>1. Cardinality({k}) = 1
  BY FS_Singleton
<1>2. UpTo({k}, k) = {k}
  BY DEF UpTo
<1>3. NthOf({k}, k) = 1
  BY <1>1, <1>2 DEF NthOf
<1> QED
  BY <1>1, <1>3 DEF Named

\* Two paths, one behind the other.
LEMMA NamedJoined ==
    ASSUME NEW p \in Seq(SegSet), NEW s \in Seq(SegSet),
           NEW ns \in Seq(VarTexts), NEW ms \in Seq(VarTexts), Named(p, ns), Named(s, ms)
    PROVE  Named(p \o s, ns \o ms)
<1> DEFINE m == Len(p)
           n == Len(s)
           V == Wildcards(p)
           S == Wildcards(s)
           W == Wildcards(p \o s)
<1>1. /\ m \in Nat /\ n \in Nat /\ Below(V, m) /\ Below(S, n)
      /\ p \o s \in Seq(SegSet) /\ Len(p \o s) = m + n
      /\ \A k \in 1 .. m : (p \o s)[k] = p[k]
      /\ \A k \in 1 .. n : (p \o s)[m + k] = s[k]
  BY WildcardsBelow, Concatenated, JoinedAt
<1>2. W = V \cup Moved(S, m)
  <2>1. ASSUME NEW k \in 1 .. m PROVE k \in W <=> k \in V \cup Moved(S, m)
    <3>1. k \in W <=> k \in V
      BY <1>1 DEF Wildcards
    <3>2. \A h \in S : h \in Nat /\ 1 <= h
      BY <1>1, Counted
    <3>3. k \notin Moved(S, m)
      BY <3>2, <1>1 DEF Moved
    <3> QED
      BY <3>1, <3>3
  <2>2. ASSUME NEW k \in 1 .. n PROVE m + k \in W <=> m + k \in V \cup Moved(S, m)
    <3>1. m + k \in W <=> k \in S
      <4>1. m + k \in 1 .. m + n
        BY <1>1
      <4> QED
        BY <1>1, <4>1 DEF Wildcards
    <3>2. m + k \notin V
      BY <1>1, Counted
    <3>3. m + k \in Moved(S, m) <=> k \in S
      <4>1. \A h \in S : h \in Nat
        BY <1>1, Counted
      <4>2. \A h \in S : m + k = m + h => k = h
        BY <1>1, <4>1
      <4> QED
        BY <4>2 DEF Moved
    <3> QED
      BY <3>1, <3>2, <3>3
  <2>3. \A x \in W : x \in 1 .. m + n
    BY <1>1 DEF Wildcards
  <2>4. \A x \in V \cup Moved(S, m) : x \in 1 .. m + n
    <3>1. \A x \in V : x \in 1 .. m + n
      BY <1>1 DEF Below
    <3>2. \A x \in S : m + x \in 1 .. m + n
      BY <1>1 DEF Below
    <3> QED
      BY <3>1, <3>2 DEF Moved
  <2>5. \A x \in 1 .. m + n : x \in 1 .. m \/ (x - m \in 1 .. n /\ x = m + (x - m))
    BY <1>1
  <2> HIDE DEF W, V, S, m, n
  <2>6. ASSUME NEW x \in 1 .. m + n PROVE x \in W <=> x \in V \cup Moved(S, m)
    BY <2>1, <2>2, <2>5
  <2> QED
    BY <2>3, <2>4, <2>6
<1>3. /\ Len(ns) = Cardinality(V) /\ Len(ms) = Cardinality(S) /\ Len(ns) \in Nat /\ Len(ms) \in Nat
      /\ \A k \in V : NthOf(V, k) \in DOMAIN ns /\ ns[NthOf(V, k)] = p[k].text
      /\ \A k \in S : NthOf(S, k) \in DOMAIN ms /\ ms[NthOf(S, k)] = s[k].text
  BY DEF Named
<1>4. /\ ns \o ms \in Seq(VarTexts) /\ Len(ns \o ms) = Len(ns) + Len(ms)
      /\ \A k \in 1 .. Len(ns) : (ns \o ms)[k] = ns[k]
      /\ \A k \in 1 .. Len(ms) : (ns \o ms)[Len(ns) + k] = ms[k]
  BY Concatenated, JoinedAt
<1>d. DOMAIN ns = 1 .. Len(ns) /\ DOMAIN ms = 1 .. Len(ms) /\ DOMAIN (ns \o ms) = 1 .. Len(ns) + Len(ms)
  BY <1>4
<1> HIDE DEF m, n, V, S, W
<1>5. Cardinality(W) = Len(ns \o ms)
  BY <1>1, <1>2, <1>3, <1>4, MovedBehind
<1>6. ASSUME NEW k \in V
      PROVE  NthOf(W, k) \in DOMAIN (ns \o ms) /\ (ns \o ms)[NthOf(W, k)] = (p \o s)[k].text
  <2>1. NthOf(W, k) = NthOf(V, k)
    <3>0. m \in Nat /\ n \in Nat /\ Below(V, m) /\ Below(S, n)
      BY <1>1
    <3>1. NthOf(V \cup Moved(S, m), k) = NthOf(V, k)
      BY <3>0, RanksAhead
    <3> QED
      BY <1>2, <3>1
  <2>2. NthOf(V, k) \in 1 .. Len(ns) /\ ns[NthOf(V, k)] = p[k].text
    BY <1>3, <1>d
  <2>3. k \in 1 .. m
    BY <1>1 DEF Below
  <2>4. NthOf(V, k) \in 1 .. Len(ns) + Len(ms)
    BY <1>3, <2>2
  <2> QED
    BY <1>1, <1>2, <1>4, <1>d, <2>1, <2>2, <2>3, <2>4
<1>7. ASSUME NEW k \in S
      PROVE  /\ NthOf(W, m + k) \in DOMAIN (ns \o ms)
             /\ (ns \o ms)[NthOf(W, m + k)] = (p \o s)[m + k].text
  <2>1. NthOf(W, m + k) = Len(ns) + NthOf(S, k)
    BY <1>1, <1>2, <1>3, RanksBehind
  <2>2. NthOf(S, k) \in 1 .. Len(ms) /\ ms[NthOf(S, k)] = s[k].text
    BY <1>3, <1>d
  <2>3. k \in 1 .. n
    BY <1>1 DEF Below
  <2>4. Len(ns) + NthOf(S, k) \in 1 .. Len(ns) + Len(ms)
    BY <1>3, <2>2
  <2> QED
    BY <1>1, <1>2, <1>4, <1>d, <2>1, <2>2, <2>3, <2>4
<1>8. \A k \in W : k \in V \/ \E h \in S : k = m + h
  BY <1>2 DEF Moved
<1>9. \A k \in W : NthOf(W, k) \in DOMAIN (ns \o ms) /\ (ns \o ms)[NthOf(W, k)] = (p \o s)[k].text
  BY <1>6, <1>7, <1>8
<1> QED
  BY <1>5, <1>9 DEF Named, W

\* How many stars a sub-pattern has.
Element == [field : Seq(STRING), pat : Seq(STRING)]
StarsIn(pat) == {k \in DOMAIN pat : pat[k] \in {"*", "**"}}
Doubles(pat) == {k \in DOMAIN pat : pat[k] = "**"}

LEMMA StarsCounted ==
    ASSUME NEW pat \in Seq(STRING)
    PROVE  /\ Below(StarsIn(pat), Len(pat)) /\ Below(Doubles(pat), Len(pat))
           /\ Cardinality(StarsIn(pat)) \in Nat /\ Cardinality(Doubles(pat)) \in Nat
           /\ StarCount(pat) = Cardinality(StarsIn(pat)) + Cardinality(Doubles(pat))
           /\ StarCount(pat) \in Nat
           /\ Doubles(pat) = {} => Cardinality(Doubles(pat)) = 0
           /\ StarCount(pat) = 1 => Doubles(pat) = {} /\ \E a \in DOMAIN pat : StarsIn(pat) = {a}
<1>1. Below(StarsIn(pat), Len(pat)) /\ Below(Doubles(pat), Len(pat))
  BY DEF Below, StarsIn, Doubles
<1>2. /\ Cardinality(StarsIn(pat)) \in Nat /\ Cardinality(Doubles(pat)) \in Nat
      /\ IsFiniteSet(StarsIn(pat)) /\ IsFiniteSet(Doubles(pat))
  <2>1. Len(pat) \in Nat
    OBVIOUS
  <2> QED
    BY <1>1, <2>1, Counted
<1>3. StarCount(pat) = Cardinality(StarsIn(pat)) + Cardinality(Doubles(pat))
  BY DEF StarCount, StarsIn, Doubles
<1>4. Doubles(pat) = {} => Cardinality(Doubles(pat)) = 0
  BY FS_EmptySet
<1>5. ASSUME StarCount(pat) = 1
      PROVE  Doubles(pat) = {} /\ \E a \in DOMAIN pat : StarsIn(pat) = {a}
  <2>1. ASSUME Doubles(pat) # {} PROVE FALSE
    <3>1. StarsIn(pat) # {}
      BY <2>1 DEF StarsIn, Doubles
    <3>2. Cardinality(Doubles(pat)) # 0 /\ Cardinality(StarsIn(pat)) # 0
      BY <1>2, <2>1, <3>1, FS_EmptySet
    <3> QED
      BY <1>2, <1>3, <1>5, <3>2
  <2>2. Cardinality(StarsIn(pat)) = 1
    BY <1>2, <1>3, <1>4, <1>5, <2>1
  <2>3. PICK a : StarsIn(pat) = {a}
    BY <1>2, <2>2, FS_Singleton
  <2>4. a \in DOMAIN pat
    BY <2>3 DEF StarsIn
  <2> QED
    BY <2>1, <2>3, <2>4
<1> QED
  BY <1>1, <1>2, <1>3, <1>4, <1>5

\* The segments of a variable: expanded, with one wildcard, whole, or refused.
Expanded(f, pat) ==
    [k \in DOMAIN pat |->
       CASE pat[k] = "*"  -> Var(<<f, StarsBefore(pat, k)>>)
         [] pat[k] = "**" -> Bad
         [] OTHER         -> Lit(pat[k])]
Ahead(pat, k) == [h \in 1 .. k |-> Lit(pat[h])]
Single(f, pat, atEnd) ==
    IF pat[Len(pat)] # "*" /\ atEnd
    THEN Rest(<<f>>, SubSeq(pat, FirstStar(pat) + 1, Len(pat))) ELSE Var(<<f>>)
VarSegmentsCase(n, f, pat, atEnd) ==
    CASE n > 1 -> Expanded(f, pat)
      [] n = 1 -> Append(Ahead(pat, FirstStar(pat) - 1), Single(f, pat, atEnd))
      [] n = 0 /\ pat = <<>> -> <<Var(<<f>>)>>
      [] OTHER -> Append(Ahead(pat, Len(pat) - 1), Bad)
Numbered(f, n) == [k \in 1 .. n |-> <<f, k - 1>>]

LEMMA VarSegmentsAre ==
    ASSUME NEW e, NEW b, NEW f, f = Sanitized(e.field), NEW n \in Nat, n = StarCount(e.pat)
    PROVE  /\ n > 1 => VarSegments(e, b) = Expanded(f, e.pat) /\ VarNames(e) = Numbered(f, n)
           /\ n = 1 => VarSegments(e, b)
                         = Append(Ahead(e.pat, FirstStar(e.pat) - 1), Single(f, e.pat, b))
           /\ n = 0 /\ e.pat = <<>> => VarSegments(e, b) = <<Var(<<f>>)>>
           /\ n = 0 /\ e.pat # <<>> => VarSegments(e, b) = Append(Ahead(e.pat, Len(e.pat) - 1), Bad)
           /\ ~(n > 1) => VarNames(e) = <<<<f>>>>
<1>1. VarSegments(e, b) = VarSegmentsCase(StarCount(e.pat), Sanitized(e.field), e.pat, b)
  BY Zenon DEF VarSegments, VarSegmentsCase, Expanded, Ahead, Single
<1>2. VarSegments(e, b) = VarSegmentsCase(n, f, e.pat, b)
  BY <1>1, Zenon
<1>3. VarNames(e) = IF StarCount(e.pat) > 1 THEN Numbered(Sanitized(e.field), StarCount(e.pat))
                    ELSE <<<<Sanitized(e.field)>>>>
  BY Zenon DEF VarNames, Numbered
<1>4. VarNames(e) = IF n > 1 THEN Numbered(f, n) ELSE <<<<f>>>>
  BY <1>3, Zenon
<1> QED
  BY <1>2, <1>4 DEF VarSegmentsCase

LEMMA ExpandedAligned ==
    ASSUME NEW f \in STRING, NEW pat \in Seq(STRING), StarCount(pat) > 1
    PROVE  /\ Expanded(f, pat) \in Seq(SegSet) /\ Expanded(f, pat) # <<>>
           /\ Aligned(Expanded(f, pat), Numbered(f, StarCount(pat)))
<1> DEFINE p == Expanded(f, pat)
           n == StarCount(pat)
           ns == Numbered(f, n)
<1>1. n \in Nat /\ Below(StarsIn(pat), Len(pat)) /\ Len(pat) \in Nat /\ DOMAIN pat = 1 .. Len(pat)
  BY StarsCounted
<1>2. ASSUME NEW k \in DOMAIN pat
      PROVE  StarsBefore(pat, k) \in Nat /\ <<f, StarsBefore(pat, k)>> \in VarTexts
  <2>1. Below({h \in 1 .. k - 1 : pat[h] = "*"}, Len(pat))
    BY <1>1 DEF Below
  <2>2. StarsBefore(pat, k) \in Nat
    BY <1>1, <2>1, Counted DEF StarsBefore
  <2> QED
    BY <2>2 DEF VarTexts
<1>3. ASSUME NEW k \in DOMAIN pat
      PROVE  /\ p[k] \in SegSet
             /\ pat[k] = "*" => p[k].kind = "var" /\ p[k].text = <<f, StarsBefore(pat, k)>>
             /\ pat[k] = "**" => p[k].kind = "bad"
             /\ pat[k] \notin {"*", "**"} => p[k].kind = "lit"
  <2>1. pat[k] \in STRING
    OBVIOUS
  <2>2. /\ pat[k] = "*" => p[k] = Var(<<f, StarsBefore(pat, k)>>)
        /\ pat[k] = "**" => p[k] = Bad
        /\ pat[k] \notin {"*", "**"} => p[k] = Lit(pat[k])
    BY DEF Expanded
  <2> HIDE DEF p
  <2>3. CASE pat[k] = "*"
    <3> DEFINE t == <<f, StarsBefore(pat, k)>>
    <3>1. t \in VarTexts /\ p[k] = Var(t)
      BY <1>2, <2>2, <2>3
    <3>2. pat[k] # "**" /\ ~(pat[k] \notin {"*", "**"})
      BY <2>3
    <3> HIDE DEF t
    <3>3. p[k] \in SegSet /\ p[k].kind = "var" /\ p[k].text = t
      BY <3>1, SegsMade
    <3> QED
      BY <3>2, <3>3 DEF t
  <2>4. CASE pat[k] = "**"
    BY <2>2, <2>4, SegsMade
  <2>5. CASE pat[k] \notin {"*", "**"}
    <3>1. Lit(pat[k]) \in SegSet /\ Lit(pat[k]).kind = "lit"
      BY <2>1, SegsMade
    <3>2. pat[k] # "*" /\ pat[k] # "**"
      BY <2>5
    <3> QED
      BY <2>2, <2>5, <3>1, <3>2, Zenon
  <2> QED
    BY <2>3, <2>4, <2>5
<1>4. p \in Seq(SegSet) /\ DOMAIN p = DOMAIN pat /\ Len(p) = Len(pat)
  <2>1. DOMAIN p = DOMAIN pat /\ p = [k \in DOMAIN pat |-> p[k]]
    BY DEF Expanded
  <2> HIDE DEF p
  <2> QED
    BY <1>1, <1>3, <2>1
<1>5. pat # <<>>
  <2>1. ASSUME pat = <<>> PROVE FALSE
    <3>1. StarsIn(pat) = {} /\ Doubles(pat) = {}
      BY <2>1 DEF StarsIn, Doubles
    <3>2. StarCount(pat) = Cardinality(StarsIn(pat)) + Cardinality(Doubles(pat))
      BY Zenon DEF StarCount, StarsIn, Doubles
    <3>3. Cardinality({}) = 0
      BY FS_EmptySet
    <3>4. StarCount(pat) = 0
      BY <3>1, <3>2, <3>3
    <3> QED
      BY <3>4
  <2> QED
    BY <2>1
<1>6. /\ ns \in Seq(VarTexts) /\ Len(ns) = n /\ DOMAIN ns = 1 .. n
      /\ \A k \in 1 .. n : ns[k] = <<f, k - 1>>
  <2>1. \A k \in 1 .. n : <<f, k - 1>> \in VarTexts
    <3>1. \A k \in 1 .. n : k - 1 \in Nat
      BY <1>1
    <3>2. \A j \in Nat : <<f, j>> \in VarTexts
      BY DEF VarTexts
    <3> QED
      BY <3>1, <3>2
  <2> HIDE DEF n
  <2>2. ns \in [1 .. n -> VarTexts] /\ \A k \in 1 .. n : ns[k] = <<f, k - 1>>
    BY <2>1 DEF Numbered
  <2> HIDE DEF ns
  <2>3. ns \in [1 .. n -> VarTexts]
    BY <2>2
  <2>4. ns \in Seq(VarTexts) /\ Len(ns) = n /\ DOMAIN ns = 1 .. n
    <3>1. \A m \in Nat : \A x \in [1 .. m -> VarTexts] :
             x \in Seq(VarTexts) /\ Len(x) = m /\ DOMAIN x = 1 .. m
      OBVIOUS
    <3> QED
      BY <1>1, <2>3, <3>1, Zenon
  <2> QED
    BY <2>2, <2>4, Zenon
<1>7. ASSUME Well(p) PROVE Named(p, ns)
  <2>1. Doubles(pat) = {}
    BY <1>3, <1>4, <1>7 DEF Doubles, Well
  <2>2. n = Cardinality(StarsIn(pat))
    BY <2>1, StarsCounted
  <2>3. Wildcards(p) = StarsIn(pat)
    <3> HIDE DEF p
    <3> QED
      BY <1>3, <1>4, <2>1 DEF Wildcards, StarsIn, Doubles
  <2>4. ASSUME NEW k \in StarsIn(pat)
        PROVE  NthOf(StarsIn(pat), k) \in 1 .. n /\ NthOf(StarsIn(pat), k) = StarsBefore(pat, k) + 1
    <3> DEFINE B == {h \in 1 .. k - 1 : pat[h] = "*"}
    <3>1. k \in DOMAIN pat /\ k \in Nat
      BY <1>1 DEF StarsIn
    <3>2. \A h \in DOMAIN pat : h \in StarsIn(pat) <=> pat[h] = "*"
      BY <2>1 DEF StarsIn, Doubles
    <3>3. UpTo(StarsIn(pat), k) = B \cup {k}
      <4>1. ASSUME NEW x PROVE x \in UpTo(StarsIn(pat), k) <=> x \in B \/ x = k
        <5>1. x \in UpTo(StarsIn(pat), k) <=> x \in DOMAIN pat /\ pat[x] = "*" /\ x <= k
          BY <3>2 DEF UpTo, StarsIn
        <5>2. x \in DOMAIN pat /\ x <= k <=> x \in 1 .. k - 1 \/ x = k
          BY <1>1, <3>1
        <5> QED
          BY <3>2, <5>1, <5>2
      <4> QED
        BY <4>1
    <3>4. Below(B, Len(pat)) /\ k \notin B
      BY <1>1, <3>1 DEF Below
    <3>5. IsFiniteSet(B)
      BY <1>1, <3>4, Counted
    <3> HIDE DEF B
    <3>6. Cardinality(B \cup {k}) = Cardinality(B) + 1
      BY <3>4, <3>5, FS_AddElement
    <3>7. NthOf(StarsIn(pat), k) \in 1 .. Cardinality(StarsIn(pat))
      BY <1>1, RanksOnce
    <3> QED
      BY <2>2, <3>3, <3>6, <3>7 DEF NthOf, StarsBefore, B
  <2>5. ASSUME NEW k \in Wildcards(p)
        PROVE  /\ NthOf(Wildcards(p), k) \in DOMAIN ns
               /\ ns[NthOf(Wildcards(p), k)] = p[k].text
    <3>1. k \in StarsIn(pat) /\ k \in DOMAIN pat /\ pat[k] = "*"
      BY <2>1, <2>3 DEF StarsIn, Doubles
    <3>2. p[k].text = <<f, StarsBefore(pat, k)>>
      BY <1>3, <3>1
    <3>3. NthOf(StarsIn(pat), k) \in 1 .. n /\ NthOf(StarsIn(pat), k) = StarsBefore(pat, k) + 1
      BY <2>4, <3>1
    <3>4. StarsBefore(pat, k) \in Nat
      BY <1>2, <3>1
    <3>5. ns[StarsBefore(pat, k) + 1] = <<f, StarsBefore(pat, k)>>
      <4>1. StarsBefore(pat, k) + 1 \in 1 .. n /\ (StarsBefore(pat, k) + 1) - 1 = StarsBefore(pat, k)
        BY <3>3, <3>4
      <4> HIDE DEF ns
      <4> QED
        BY <1>6, <4>1
    <3> QED
      BY <1>6, <2>3, <3>2, <3>3, <3>5
  <2> HIDE DEF p, ns, n
  <2> QED
    BY <1>6, <2>2, <2>3, <2>5 DEF Named
<1>8. p # <<>>
  <2>1. Len(pat) # 0
    BY <1>5
  <2> HIDE DEF p
  <2> QED
    BY <1>4, <2>1
<1> QED
  BY <1>4, <1>6, <1>7, <1>8 DEF Aligned

\* Literals ahead of one more segment.
LEMMA BehindLiterals ==
    ASSUME NEW pat \in Seq(STRING), NEW n \in Nat, n < Len(pat) \/ n = 0, NEW x \in SegSet
    PROVE  LET p == Append(Ahead(pat, n), x) IN
           /\ p \in Seq(SegSet) /\ Len(p) = n + 1 /\ DOMAIN p = 1 .. n + 1
           /\ p[n + 1] = x /\ \A k \in 1 .. n : p[k].kind = "lit"
<1> DEFINE a == Ahead(pat, n)
           p == Append(a, x)
<1>1. ASSUME NEW k \in 1 .. n PROVE Lit(pat[k]) \in SegSet /\ Lit(pat[k]).kind = "lit"
  <2>1. pat[k] \in STRING
    <3>1. k \in 1 .. Len(pat)
      BY <1>1
    <3> QED
      BY <3>1
  <2> QED
    BY <2>1, SegsMade
<1>2. \A k \in 1 .. n : a[k] \in SegSet /\ a[k].kind = "lit"
  BY <1>1 DEF Ahead
<1>3. a \in [1 .. n -> SegSet]
  <2>1. a \in [1 .. n -> SegSet]
    BY <1>1 DEF Ahead
  <2> QED
    BY <2>1
<1> HIDE DEF a
<1>4. a \in Seq(SegSet) /\ Len(a) = n
  BY <1>3
<1>5. /\ p \in Seq(SegSet) /\ Len(p) = n + 1 /\ DOMAIN p = 1 .. n + 1
      /\ p[n + 1] = x /\ \A k \in 1 .. n : p[k] = a[k]
  BY <1>4
<1> HIDE DEF p
<1>6. \A k \in 1 .. n : p[k].kind = "lit"
  BY <1>2, <1>5
<1>7. p = Append(Ahead(pat, n), x)
  BY DEF p, a
<1> QED
  BY <1>5, <1>6, <1>7, Zenon

\* The first star of a sub-pattern with one.
LEMMA FirstStarIs ==
    ASSUME NEW pat \in Seq(STRING), StarCount(pat) = 1
    PROVE  FirstStar(pat) \in DOMAIN pat /\ pat[FirstStar(pat)] = "*"
<1>1. PICK a \in DOMAIN pat : StarsIn(pat) = {a} /\ Doubles(pat) = {}
  BY StarsCounted
<1>2. pat[a] = "*"
  BY <1>1 DEF StarsIn, Doubles
<1>3. DOMAIN pat = 1 .. Len(pat) /\ Len(pat) \in Nat
  OBVIOUS
<1>4. {h \in 1 .. a - 1 : pat[h] = "*"} = {}
  <2> SUFFICES ASSUME NEW h \in 1 .. a - 1, pat[h] = "*" PROVE FALSE
    OBVIOUS
  <2>1. h \in DOMAIN pat /\ h # a
    BY <1>1, <1>3
  <2>2. h \in StarsIn(pat)
    BY <2>1 DEF StarsIn
  <2> QED
    BY <1>1, <2>1, <2>2
<1>5. StarsBefore(pat, a) = 0
  BY <1>4, FS_EmptySet DEF StarsBefore
<1> QED
  BY <1>2, <1>5 DEF FirstStar

LEMMA SingleAligned ==
    ASSUME NEW f \in STRING, NEW pat \in Seq(STRING), NEW b \in BOOLEAN, StarCount(pat) = 1
    PROVE  LET p == Append(Ahead(pat, FirstStar(pat) - 1), Single(f, pat, b)) IN
           p \in Seq(SegSet) /\ p # <<>> /\ Aligned(p, <<<<f>>>>)
<1> DEFINE n == FirstStar(pat) - 1
           x == Single(f, pat, b)
           p == Append(Ahead(pat, n), x)
<1>1. n \in Nat /\ n < Len(pat) /\ n + 1 = FirstStar(pat)
  BY FirstStarIs
<1>2. x \in SegSet /\ x.kind \in {"var", "rest"} /\ x.text = <<f>>
  <2>1. <<f>> \in VarTexts
    BY DEF VarTexts
  <2>2. SubSeq(pat, FirstStar(pat) + 1, Len(pat)) \in Seq(STRING)
    BY FirstStarIs
  <2>3. /\ Var(<<f>>) \in SegSet /\ Var(<<f>>).kind = "var" /\ Var(<<f>>).text = <<f>>
        /\ \A l \in Seq(STRING) :
             Rest(<<f>>, l) \in SegSet /\ Rest(<<f>>, l).kind = "rest" /\ Rest(<<f>>, l).text = <<f>>
    BY <2>1, SegsMade
  <2>4. x = Var(<<f>>) \/ x = Rest(<<f>>, SubSeq(pat, FirstStar(pat) + 1, Len(pat)))
    BY Zenon DEF Single
  <2> HIDE DEF x
  <2> QED
    BY <2>2, <2>3, <2>4
<1> HIDE DEF n, x
<1>3. /\ p \in Seq(SegSet) /\ Len(p) = n + 1 /\ DOMAIN p = 1 .. n + 1
      /\ p[n + 1] = x /\ \A k \in 1 .. n : p[k].kind = "lit"
  BY <1>1, <1>2, BehindLiterals
<1> HIDE DEF p
<1>4. Wildcards(p) = {n + 1}
  <2>1. ASSUME NEW k \in 1 .. n + 1 PROVE p[k].kind \in {"var", "rest"} <=> k = n + 1
    BY <1>1, <1>2, <1>3
  <2>2. n + 1 \in 1 .. n + 1
    BY <1>1
  <2> QED
    BY <1>3, <2>1, <2>2 DEF Wildcards
<1>5. Named(p, <<<<f>>>>)
  <2>1. n + 1 \in 1 .. Len(p)
    BY <1>1, <1>3
  <2>2. Named(p, <<p[n + 1].text>>)
    BY <1>3, <1>4, <2>1, OneWildcard
  <2> QED
    BY <1>2, <1>3, <2>2
<1>6. <<<<f>>>> \in Seq(VarTexts)
  <2>1. <<f>> \in VarTexts
    BY DEF VarTexts
  <2> QED
    BY <2>1, OneOf
<1>7. p # <<>>
  BY <1>1, <1>3
<1> QED
  BY <1>3, <1>5, <1>6, <1>7 DEF Aligned, p, n, x

\* Variables without a wildcard.
LEMMA NoStarAligned ==
    ASSUME NEW f \in STRING, NEW pat \in Seq(STRING)
    PROVE  /\ <<Var(<<f>>)>> \in Seq(SegSet) /\ <<Var(<<f>>)>> # <<>>
           /\ Aligned(<<Var(<<f>>)>>, <<<<f>>>>)
           /\ pat # <<>> => LET p == Append(Ahead(pat, Len(pat) - 1), Bad) IN
                            p \in Seq(SegSet) /\ p # <<>> /\ Aligned(p, <<<<f>>>>)
<1>1. <<f>> \in VarTexts
  BY DEF VarTexts
<1>2. <<<<f>>>> \in Seq(VarTexts)
  BY <1>1, OneOf
<1>3. /\ <<Var(<<f>>)>> \in Seq(SegSet) /\ <<Var(<<f>>)>> # <<>>
      /\ Aligned(<<Var(<<f>>)>>, <<<<f>>>>)
  <2>1. PICK x \in SegSet : x = Var(<<f>>) /\ x.kind = "var" /\ x.text = <<f>>
    BY <1>1, SegsMade
  <2>2. <<x>> \in Seq(SegSet) /\ Len(<<x>>) = 1 /\ <<x>>[1] = x /\ DOMAIN <<x>> = {1}
    BY OneOf
  <2>3. Wildcards(<<x>>) = {1}
    BY <2>1, <2>2 DEF Wildcards
  <2>4. PICK p \in Seq(SegSet) : p = <<x>>
    BY <2>2
  <2>5. Named(<<x>>, <<<<f>>>>)
    <3>1. 1 \in 1 .. Len(p) /\ Wildcards(p) = {1} /\ p[1].text = <<f>>
      BY <2>1, <2>2, <2>3, <2>4
    <3>2. Named(p, <<p[1].text>>)
      BY <3>1, OneWildcard
    <3> QED
      BY <2>4, <3>1, <3>2
  <2>6. <<x>> # <<>>
    OBVIOUS
  <2> QED
    BY <1>2, <2>1, <2>2, <2>5, <2>6 DEF Aligned
<1>4. ASSUME pat # <<>>
      PROVE  LET p == Append(Ahead(pat, Len(pat) - 1), Bad) IN
             p \in Seq(SegSet) /\ p # <<>> /\ Aligned(p, <<<<f>>>>)
  <2> DEFINE n == Len(pat) - 1
             p == Append(Ahead(pat, n), Bad)
  <2>1. n \in Nat /\ n < Len(pat)
    BY <1>4
  <2>2. Bad \in SegSet /\ Bad.kind = "bad"
    BY SegsMade
  <2> HIDE DEF n
  <2>3. p \in Seq(SegSet) /\ Len(p) = n + 1 /\ DOMAIN p = 1 .. n + 1 /\ p[n + 1] = Bad
    BY <2>1, <2>2, BehindLiterals
  <2> HIDE DEF p
  <2>4. ~Well(p)
    <3>1. n + 1 \in DOMAIN p /\ p[n + 1].kind = "bad"
      BY <2>1, <2>2, <2>3
    <3> QED
      BY <3>1 DEF Well
  <2>5. p # <<>>
    BY <2>1, <2>3
  <2>6. Aligned(p, <<<<f>>>>)
    BY <1>2, <2>4, Zenon DEF Aligned
  <2> QED
    BY <2>3, <2>5, <2>6 DEF p, n
<1> QED
  BY <1>3, <1>4, Zenon

\* What one element of an annotation adds to the path and to the names.
Part(e, b) == IF IsVar(e) THEN VarSegments(e, b) ELSE <<Lit(e.pat[1])>>
PartNames(e) == IF IsVar(e) THEN VarNames(e) ELSE <<>>

LEMMA PartAligned ==
    ASSUME NEW e \in Element, NEW b \in BOOLEAN, ~IsVar(e) => Len(e.pat) = 1
    PROVE  Part(e, b) \in Seq(SegSet) /\ Part(e, b) # <<>> /\ Aligned(Part(e, b), PartNames(e))
<1>1. e.field \in Seq(STRING) /\ e.pat \in Seq(STRING)
  BY DEF Element
<1>2. CASE IsVar(e)
  <2> DEFINE f == Sanitized(e.field)
             n == StarCount(e.pat)
  <2>1. f \in STRING
    BY <1>1, <1>2 DEF Sanitized, IsVar
  <2>2. n \in Nat
    BY <1>1, StarsCounted
  <2>3. Part(e, b) = VarSegments(e, b) /\ PartNames(e) = VarNames(e)
    BY <1>2 DEF Part, PartNames
  <2>4. PICK pat \in Seq(STRING) : pat = e.pat
    BY <1>1
  <2>5. CASE n > 1
    <3>1. VarSegments(e, b) = Expanded(f, e.pat) /\ VarNames(e) = Numbered(f, n)
      BY <2>2, <2>5, VarSegmentsAre
    <3>2. StarCount(pat) > 1 /\ n = StarCount(pat)
      BY <2>4, <2>5
    <3> HIDE DEF f, n
    <3>3. /\ Expanded(f, pat) \in Seq(SegSet) /\ Expanded(f, pat) # <<>>
          /\ Aligned(Expanded(f, pat), Numbered(f, StarCount(pat)))
      BY <2>1, <3>2, ExpandedAligned
    <3> QED
      BY <2>3, <2>4, <3>1, <3>2, <3>3
  <2>6. CASE n = 1
    <3>1. /\ VarSegments(e, b) = Append(Ahead(e.pat, FirstStar(e.pat) - 1), Single(f, e.pat, b))
          /\ VarNames(e) = <<<<f>>>>
      <4>1. ~(n > 1)
        BY <2>6
      <4> QED
        BY <2>2, <2>6, <4>1, VarSegmentsAre
    <3>2. StarCount(pat) = 1
      BY <2>4, <2>6
    <3> HIDE DEF f, n
    <3> DEFINE p == Append(Ahead(pat, FirstStar(pat) - 1), Single(f, pat, b))
    <3>3. p \in Seq(SegSet) /\ p # <<>> /\ Aligned(p, <<<<f>>>>)
      BY <2>1, <3>2, SingleAligned
    <3> QED
      BY <2>3, <2>4, <3>1, <3>3
  <2>7. CASE n = 0
    <3>1. /\ e.pat = <<>> => VarSegments(e, b) = <<Var(<<f>>)>>
          /\ e.pat # <<>> => VarSegments(e, b) = Append(Ahead(e.pat, Len(e.pat) - 1), Bad)
          /\ VarNames(e) = <<<<f>>>>
      <4>1. ~(n > 1)
        BY <2>7
      <4> QED
        BY <2>2, <2>7, <4>1, VarSegmentsAre
    <3> HIDE DEF f, n
    <3> DEFINE p == Append(Ahead(pat, Len(pat) - 1), Bad)
    <3>2. /\ <<Var(<<f>>)>> \in Seq(SegSet) /\ <<Var(<<f>>)>> # <<>>
          /\ Aligned(<<Var(<<f>>)>>, <<<<f>>>>)
          /\ pat # <<>> => p \in Seq(SegSet) /\ p # <<>> /\ Aligned(p, <<<<f>>>>)
      BY <2>1, NoStarAligned, Zenon
    <3> HIDE DEF p
    <3>3. pat # <<>> => VarSegments(e, b) = p
      BY <2>4, <3>1, Zenon DEF p
    <3>4. CASE pat = <<>>
      BY <2>3, <2>4, <3>1, <3>2, <3>4
    <3>5. CASE pat # <<>>
      BY <2>3, <3>1, <3>2, <3>3, <3>5
    <3> QED
      BY <3>4, <3>5
  <2> QED
    BY <2>2, <2>5, <2>6, <2>7
<1>3. CASE ~IsVar(e)
  <2>1. e.pat[1] \in STRING
    BY <1>1, <1>3
  <2>2. PICK x \in SegSet : x = Lit(e.pat[1]) /\ x.kind = "lit"
    BY <2>1, SegsMade
  <2>3. Part(e, b) = <<x>> /\ PartNames(e) = <<>>
    BY <1>3, <2>2 DEF Part, PartNames
  <2>4. <<x>> \in Seq(SegSet) /\ <<x>> # <<>> /\ <<x>>[1] = x /\ DOMAIN <<x>> = {1}
    OBVIOUS
  <2>5. Wildcards(<<x>>) = {}
    BY <2>2, <2>4 DEF Wildcards
  <2>6. Named(<<x>>, <<>>)
    BY <2>5, NoWildcard
  <2>7. <<>> \in Seq(VarTexts)
    OBVIOUS
  <2> QED
    BY <2>3, <2>4, <2>6, <2>7, Zenon DEF Aligned
<1> QED
  BY <1>2, <1>3

LEMMA AlignedJoined ==
    ASSUME NEW p \in Seq(SegSet), NEW s \in Seq(SegSet), NEW ns, NEW ms,
           Aligned(p, ns), Aligned(s, ms)
    PROVE  p \o s \in Seq(SegSet) /\ Aligned(p \o s, ns \o ms)
<1>1. ns \in Seq(VarTexts) /\ ms \in Seq(VarTexts)
  BY DEF Aligned
<1>2. p \o s \in Seq(SegSet) /\ Len(p \o s) = Len(p) + Len(s) /\ ns \o ms \in Seq(VarTexts)
  BY <1>1, Concatenated
<1>3. ASSUME Well(p \o s) PROVE Well(p) /\ Well(s)
  <2>1. /\ \A k \in 1 .. Len(p) : (p \o s)[k] = p[k]
        /\ \A k \in 1 .. Len(s) : (p \o s)[Len(p) + k] = s[k]
    BY JoinedAt
  <2>2. DOMAIN (p \o s) = 1 .. Len(p) + Len(s) /\ DOMAIN p = 1 .. Len(p) /\ DOMAIN s = 1 .. Len(s)
        /\ Len(p) \in Nat /\ Len(s) \in Nat
    BY <1>2
  <2>3. ASSUME NEW k \in DOMAIN p PROVE p[k].kind # "bad"
    <3>1. k \in DOMAIN (p \o s)
      BY <2>2
    <3> QED
      BY <1>3, <2>1, <2>2, <3>1 DEF Well
  <2>4. ASSUME NEW k \in DOMAIN s PROVE s[k].kind # "bad"
    <3>1. Len(p) + k \in DOMAIN (p \o s)
      BY <2>2
    <3> QED
      BY <1>3, <2>1, <2>2, <3>1 DEF Well
  <2> QED
    BY <2>3, <2>4 DEF Well
<1>4. ASSUME Well(p \o s) PROVE Named(p \o s, ns \o ms)
  <2>1. Named(p, ns) /\ Named(s, ms)
    BY <1>3, <1>4, Zenon DEF Aligned
  <2> QED
    BY <1>1, <2>1, NamedJoined
<1> QED
  BY <1>2, <1>4, Zenon DEF Aligned

\* Parts of a path and their names, one behind the other.
Parts(n, s, t) ==
    /\ s \in [1 .. n -> Seq(SegSet)] /\ t \in [1 .. n -> Seq(VarTexts)]
    /\ \A k \in 1 .. n : Aligned(s[k], t[k])

LEMMA FlattenAligned ==
    ASSUME NEW n \in Nat, NEW s, NEW t, Parts(n, s, t)
    PROVE  FlattenSeq(s) \in Seq(SegSet) /\ Aligned(FlattenSeq(s), FlattenSeq(t))
<1>0. /\ s \in [1 .. n -> Seq(SegSet)] /\ t \in [1 .. n -> Seq(VarTexts)]
      /\ \A k \in 1 .. n : Aligned(s[k], t[k])
  BY DEF Parts
<1> DEFINE P(m) == /\ FlattenSeq(Beginning(s, m)) \in Seq(SegSet)
                   /\ Aligned(FlattenSeq(Beginning(s, m)), FlattenSeq(Beginning(t, m)))
           T == {m \in Nat : m <= n => P(m)}
<1>1. 0 \in T
  <2>1. FlattenSeq(Beginning(s, 0)) = <<>> /\ FlattenSeq(Beginning(t, 0)) = <<>>
    BY FlattenEmpty DEF Beginning
  <2>2. Wildcards(<<>>) = {}
    BY DEF Wildcards
  <2>3. Named(<<>>, <<>>)
    BY <2>2, NoWildcard
  <2>4. <<>> \in Seq(VarTexts) /\ <<>> \in Seq(SegSet)
    OBVIOUS
  <2>5. Aligned(<<>>, <<>>)
    BY <2>3, <2>4, Zenon DEF Aligned
  <2>6. P(0)
    BY <2>1, <2>4, <2>5
  <2> HIDE DEF P
  <2> QED
    BY <2>6
<1>2. ASSUME NEW m \in T PROVE m + 1 \in T
  <2>0. m \in Nat /\ m + 1 \in Nat
    BY <1>2
  <2> SUFFICES ASSUME m + 1 <= n PROVE P(m + 1)
    BY <2>0
  <2>1. m < n /\ m <= n /\ m \in 0 .. n /\ m + 1 \in 1 .. n
    BY <2>0
  <2>2. P(m)
    BY <2>1
  <2>3. /\ FlattenSeq(Beginning(s, m + 1)) = FlattenSeq(Beginning(s, m)) \o s[m + 1]
        /\ FlattenSeq(Beginning(t, m + 1)) = FlattenSeq(Beginning(t, m)) \o t[m + 1]
    BY <1>0, <2>0, <2>1, BeginningNext
  <2>4. s[m + 1] \in Seq(SegSet) /\ Aligned(s[m + 1], t[m + 1])
    BY <1>0, <2>1
  <2>5. PICK p \in Seq(SegSet) : p = FlattenSeq(Beginning(s, m))
    BY <2>2
  <2>6. PICK q \in Seq(SegSet) : q = s[m + 1]
    BY <2>4
  <2>7. PICK ns, ms : ns = FlattenSeq(Beginning(t, m)) /\ ms = t[m + 1]
    OBVIOUS
  <2>8. Aligned(p, ns) /\ Aligned(q, ms)
    BY <2>2, <2>4, <2>5, <2>6, <2>7
  <2>9. p \o q \in Seq(SegSet) /\ Aligned(p \o q, ns \o ms)
    BY <2>8, AlignedJoined
  <2> QED
    BY <2>3, <2>5, <2>6, <2>7, <2>9
<1>3. T = Nat
  <2>1. T \in SUBSET Nat
    OBVIOUS
  <2> HIDE DEF T
  <2> QED
    BY <1>1, <1>2, <2>1, SetInduction
<1>4. P(n)
  <2>1. n \in T
    <3> HIDE DEF T
    <3> QED
      BY <1>3
  <2>2. n <= n
    OBVIOUS
  <2> HIDE DEF P
  <2> QED
    BY <2>1, <2>2
<1>5. Beginning(s, n) = s /\ Beginning(t, n) = t
  <2>2. Beginning(s, n) = s
    BY <1>0 DEF Beginning
  <2>3. Beginning(t, n) = t
    BY <1>0 DEF Beginning
  <2> QED
    BY <2>2, <2>3
<1> QED
  BY <1>4, <1>5

\* The path of an annotation and the names of its variables.
UncutPath(tmpl) == FlattenSeq([k \in DOMAIN tmpl |-> Part(tmpl[k], k = Len(tmpl))])

LEMMA UncutAligned ==
    ASSUME NEW m, Annotated(m)
    PROVE  /\ UncutPath(m.tmpl) \in Seq(SegSet) /\ UncutPath(m.tmpl) # <<>>
           /\ Aligned(UncutPath(m.tmpl), VarNamesOf(m.tmpl))
<1> DEFINE tmpl == m.tmpl
           n == Len(tmpl)
           s == [k \in 1 .. n |-> Part(tmpl[k], k = n)]
           t == [k \in 1 .. n |-> PartNames(tmpl[k])]
<1>1. tmpl \in Seq(Element) /\ tmpl # <<>> /\ \A k \in DOMAIN tmpl : ~IsVar(tmpl[k]) => Len(tmpl[k].pat) = 1
  BY DEF Annotated, Element
<1> HIDE DEF tmpl
<1>2. n \in Nat \ {0} /\ DOMAIN tmpl = 1 .. n /\ \A k \in 1 .. n : tmpl[k] \in Element
  BY <1>1
<1>3. UncutPath(m.tmpl) = FlattenSeq(s)
  BY <1>2, Zenon DEF UncutPath, tmpl
<1>4. VarNamesOf(m.tmpl) = FlattenSeq(t)
  BY <1>2, Zenon DEF VarNamesOf, PartNames, tmpl
<1>5. ASSUME NEW k \in 1 .. n
      PROVE  /\ Part(tmpl[k], k = n) \in Seq(SegSet) /\ Part(tmpl[k], k = n) # <<>>
             /\ Aligned(Part(tmpl[k], k = n), PartNames(tmpl[k]))
             /\ PartNames(tmpl[k]) \in Seq(VarTexts)
  <2>1. tmpl[k] \in Element /\ (~IsVar(tmpl[k]) => Len(tmpl[k].pat) = 1) /\ (k = n) \in BOOLEAN
    BY <1>1, <1>2
  <2>2. PICK e \in Element : e = tmpl[k]
    BY <2>1
  <2>3. PICK b \in BOOLEAN : b = (k = n)
    BY <2>1
  <2>4. Part(e, b) \in Seq(SegSet) /\ Part(e, b) # <<>> /\ Aligned(Part(e, b), PartNames(e))
    BY <2>1, <2>2, PartAligned
  <2>5. PartNames(e) \in Seq(VarTexts)
    BY <2>4, Zenon DEF Aligned
  <2> QED
    BY <2>2, <2>3, <2>4, <2>5, Zenon
<1>6. /\ s \in [1 .. n -> Seq(SegSet)] /\ t \in [1 .. n -> Seq(VarTexts)]
      /\ \A k \in 1 .. n : s[k] = Part(tmpl[k], k = n) /\ t[k] = PartNames(tmpl[k])
  BY <1>5
<1> HIDE DEF s, t, n
<1>7. Parts(n, s, t)
  BY <1>5, <1>6, Zenon DEF Parts
<1>8. FlattenSeq(s) \in Seq(SegSet) /\ Aligned(FlattenSeq(s), FlattenSeq(t))
  BY <1>2, <1>7, FlattenAligned
<1>9. FlattenSeq(s) # <<>>
  <2>1. 1 \in 1 .. n
    BY <1>2
  <2>2. s[1] # <<>>
    BY <1>5, <1>6, <2>1
  <2> QED
    BY <1>2, <1>6, <2>2, FlattenNonempty
<1> QED
  BY <1>3, <1>4, <1>8, <1>9

\* A verb left at the end changes no kind and no name.
LEMMA TailAligned ==
    ASSUME NEW p \in Seq(SegSet), p # <<>>, NEW v \in STRING, NEW ns, Aligned(p, ns)
    PROVE  LET q == [p EXCEPT ![Len(p)].tail = v] IN
           q \in Seq(SegSet) /\ q # <<>> /\ Aligned(q, ns)
<1> DEFINE n == Len(p)
           q == [p EXCEPT ![n].tail = v]
<1>1. n \in Nat \ {0} /\ n \in 1 .. n /\ DOMAIN p = 1 .. n /\ \A k \in 1 .. n : p[k] \in SegSet
  OBVIOUS
<1>2. ASSUME NEW x \in SegSet
      PROVE  /\ [x EXCEPT !.tail = v] \in SegSet
             /\ [x EXCEPT !.tail = v].kind = x.kind /\ [x EXCEPT !.tail = v].text = x.text
  <2> DEFINE y == [x EXCEPT !.tail = v]
  <2>1. x \in SegRecords
    BY DEF SegSet
  <2>2. y \in SegRecords /\ y.kind = x.kind /\ y.text = x.text /\ y.hidden = x.hidden
    BY <2>1 DEF SegRecords
  <2> HIDE DEF y
  <2>3. y \in SegSet
    BY <2>2, SegFields, Zenon DEF SegSet
  <2> QED
    BY <2>2, <2>3 DEF y
<1>3. DOMAIN q = 1 .. n /\ Len(q) = n /\ \A k \in 1 .. n : q[k] = IF k = n THEN [p[n] EXCEPT !.tail = v] ELSE p[k]
  BY <1>1
<1>4. q \in Seq(SegSet)
  <2>1. \A k \in 1 .. n : q[k] \in SegSet
    BY <1>1, <1>2, <1>3
  <2>2. q = [k \in 1 .. n |-> q[k]]
    BY <1>1
  <2> HIDE DEF q
  <2> QED
    BY <1>1, <2>1, <2>2
<1> HIDE DEF q
<1>5. \A k \in 1 .. n : q[k].kind = p[k].kind /\ q[k].text = p[k].text
  BY <1>1, <1>2, <1>3
<1>6. Wildcards(q) = Wildcards(p) /\ (Well(q) <=> Well(p)) /\ \A k \in Wildcards(p) : k \in 1 .. n
  BY <1>1, <1>3, <1>5 DEF Wildcards, Well
<1>7. Named(p, ns) => Named(q, ns)
  BY <1>5, <1>6, Zenon DEF Named
<1>8. Aligned(q, ns)
  BY <1>6, <1>7, Zenon DEF Aligned
<1>9. q # <<>>
  BY <1>1, <1>3
<1> QED
  BY <1>4, <1>8, <1>9 DEF q, n

\* The n-th wildcard of the path parseURLPatternToServeMux makes of an annotation
\* has the name of the n-th path variable it returns.
THEOREM MuxPathAligned ==
    ASSUME NEW m, Annotated(m)
    PROVE  /\ MuxPath(m.tmpl, m.verb) \in Seq(SegSet) /\ MuxPath(m.tmpl, m.verb) # <<>>
           /\ Aligned(MuxPath(m.tmpl, m.verb), VarNamesOf(m.tmpl))
<1> DEFINE p == UncutPath(m.tmpl)
<1>1. p \in Seq(SegSet) /\ p # <<>> /\ Aligned(p, VarNamesOf(m.tmpl))
  BY UncutAligned
<1>2. m.verb \in STRING
  BY DEF Annotated
<1>3. MuxPath(m.tmpl, m.verb) = IF m.verb = "" \/ VerbIsCut(m.tmpl) THEN p
                                ELSE [p EXCEPT ![Len(p)].tail = m.verb]
  BY Zenon DEF MuxPath, UncutPath, Part
<1> HIDE DEF p
<1>4. LET q == [p EXCEPT ![Len(p)].tail = m.verb] IN
      q \in Seq(SegSet) /\ q # <<>> /\ Aligned(q, VarNamesOf(m.tmpl))
  BY <1>1, <1>2, TailAligned
<1> QED
  BY <1>1, <1>3, <1>4, Zenon

-----------------------------------------------------------------------------
\* Paths of one shape.

LEMMA NormalizedAt ==
    ASSUME NEW x \in SegSet
    PROVE  [x EXCEPT !.text = <<"_">>, !.hidden = <<>>].kind = x.kind
BY DEF SegSet, SegRecords

LEMMA SameShape ==
    ASSUME NEW p \in Seq(SegSet), NEW q \in Seq(SegSet), Normalize(p) = Normalize(q)
    PROVE  /\ DOMAIN p = DOMAIN q /\ Len(p) = Len(q)
           /\ \A k \in DOMAIN p :
                /\ p[k].kind = q[k].kind
                /\ p[k].kind = "lit" => p[k] = q[k]
           /\ Wildcards(p) = Wildcards(q) /\ (Well(p) <=> Well(q))
<1>1. DOMAIN p = 1 .. Len(p) /\ DOMAIN q = 1 .. Len(q) /\ Len(p) \in Nat /\ Len(q) \in Nat
      /\ (\A k \in DOMAIN p : p[k] \in SegSet) /\ (\A k \in DOMAIN q : q[k] \in SegSet)
  OBVIOUS
<1>2. DOMAIN Normalize(p) = DOMAIN p /\ DOMAIN Normalize(q) = DOMAIN q
  BY DEF Normalize
<1>3. DOMAIN p = DOMAIN q /\ Len(p) = Len(q)
  <2>1. DOMAIN p = DOMAIN q
    BY <1>2
  <2>2. 1 .. Len(p) = 1 .. Len(q)
    BY <1>1, <2>1
  <2>3. ASSUME NEW a \in Nat, NEW b \in Nat, 1 .. a = 1 .. b, a < b PROVE FALSE
    <3>1. b \in 1 .. b /\ b \notin 1 .. a
      BY <2>3
    <3> QED
      BY <2>3, <3>1
  <2>4. ~(Len(p) < Len(q)) /\ ~(Len(q) < Len(p))
    BY <1>1, <2>2, <2>3
  <2>5. \A a, b \in Nat : ~(a < b) /\ ~(b < a) => a = b
    OBVIOUS
  <2> QED
    BY <1>1, <2>1, <2>4, <2>5, Zenon
<1>4. ASSUME NEW k \in DOMAIN p
      PROVE  p[k].kind = q[k].kind /\ (p[k].kind = "lit" => p[k] = q[k])
  <2> DEFINE x == p[k]
             y == q[k]
  <2>1. x \in SegSet /\ y \in SegSet
    BY <1>1, <1>3
  <2>2. /\ Normalize(p)[k] = IF x.kind = "lit" THEN x ELSE [x EXCEPT !.text = <<"_">>, !.hidden = <<>>]
        /\ Normalize(q)[k] = IF y.kind = "lit" THEN y ELSE [y EXCEPT !.text = <<"_">>, !.hidden = <<>>]
    BY <1>3, Zenon DEF Normalize
  <2> HIDE DEF x, y
  <2>3. Normalize(p)[k].kind = x.kind /\ Normalize(q)[k].kind = y.kind
    BY <2>1, <2>2, NormalizedAt
  <2>4. x.kind = y.kind /\ (x.kind = "lit" => x = y)
    BY <2>2, <2>3
  <2> QED
    BY <2>4 DEF x, y
<1>5. Wildcards(p) = Wildcards(q) /\ (Well(p) <=> Well(q))
  BY <1>3, <1>4 DEF Wildcards, Well
<1> QED
  BY <1>3, <1>4, <1>5

\* The element at a position, inside a path and behind it.
LEMMA AtIs ==
    ASSUME NEW p \in Seq(SegSet), p # <<>>, NEW k \in Nat \ {0}
    PROVE  /\ k <= Len(p) => k \in DOMAIN p /\ At(p, k) = p[k]
           /\ ~(k <= Len(p)) => At(p, k).kind = IF p[Len(p)].kind = "rest" THEN "rest" ELSE "end"
<1>1. Seg("end", <<>>).kind = "end"
  BY DEF Seg
<1>2. DOMAIN p = 1 .. Len(p)
  OBVIOUS
<1> QED
  BY <1>1, <1>2 DEF At

LEMMA WidthIs ==
    ASSUME NEW e
    PROVE  /\ e.kind = "lit" => Width(e) = 1
           /\ e.kind = "var" => Width(e) = 2
           /\ e.kind = "rest" => Width(e) = 3
           /\ e.kind \notin {"lit", "var", "rest"} => Width(e) = 0
BY DEF Width

LEMMA SameWidths ==
    ASSUME NEW p \in Seq(SegSet), p # <<>>, NEW q \in Seq(SegSet), Normalize(p) = Normalize(q),
           NEW k \in Nat \ {0}
    PROVE  Width(At(p, k)) = Width(At(q, k))
<1>1. DOMAIN p = DOMAIN q /\ Len(p) = Len(q) /\ \A h \in DOMAIN p : p[h].kind = q[h].kind
  BY SameShape
<1>2. q # <<>> /\ Len(p) \in DOMAIN p
  BY <1>1
<1>3. At(p, k).kind = At(q, k).kind
  <2>1. CASE k <= Len(p)
    BY <1>1, <1>2, <2>1, AtIs
  <2>2. CASE ~(k <= Len(p))
    BY <1>1, <1>2, <2>2, AtIs
  <2> QED
    BY <2>1, <2>2
<1> QED
  BY <1>3 DEF Width

LEMMA LongerIs ==
    ASSUME NEW p \in Seq(SegSet), NEW q \in Seq(SegSet)
    PROVE  /\ Longer(p, q) \subseteq Nat \ {0}
           /\ \A k \in Longer(p, q) : k <= Len(p) \/ k <= Len(q)
BY DEF Longer

\* What is more specific than a path is so than another of its shape.
LEMMA MoreAlike ==
    ASSUME NEW p \in Seq(SegSet), p # <<>>, NEW q \in Seq(SegSet), Normalize(p) = Normalize(q),
           NEW x \in Seq(SegSet), MoreSpecific(x, q)
    PROVE  MoreSpecific(x, p)
<1>1. Len(p) = Len(q)
  BY SameShape
<1>2. Longer(x, p) = Longer(x, q)
  BY <1>1 DEF Longer
<1>3. \A k \in Longer(x, q) : Width(At(p, k)) = Width(At(q, k))
  BY LongerIs, SameWidths
<1> QED
  BY <1>2, <1>3 DEF MoreSpecific

\* What the names of a path with wildcards end in.
LEMMA LastName ==
    ASSUME NEW q \in Seq(SegSet), Well(q), NEW ns \in Seq(VarTexts), Named(q, ns)
    PROVE  /\ Wildcards(q) = {} <=> ns = <<>>
           /\ ns # <<>> =>
                \E k \in Wildcards(q) :
                  /\ ns[Len(ns)] = q[k].text /\ q[k].text # <<>>
                  /\ q[Len(q)].kind # "lit" => k = Len(q)
<1> DEFINE W == Wildcards(q)
<1>n. PICK n \in Nat : n = Len(q) /\ DOMAIN q = 1 .. n
  <2>1. Len(q) \in Nat /\ DOMAIN q = 1 .. Len(q)
    OBVIOUS
  <2> QED
    BY <2>1
<1>1. Below(W, n)
  BY <1>n, WildcardsBelow
<1>2. /\ \A k \in W : NthOf(W, k) \in 1 .. Cardinality(W)
      /\ \A k, h \in W : NthOf(W, k) = NthOf(W, h) => k = h
      /\ \A j \in 1 .. Cardinality(W) : \E k \in W : NthOf(W, k) = j
      /\ n \in W => NthOf(W, n) = Cardinality(W)
  BY <1>1, RanksOnce
<1>3. /\ Len(ns) = Cardinality(W)
      /\ \A k \in W : ns[NthOf(W, k)] = q[k].text
  BY Zenon DEF Named
<1>4. Len(ns) \in Nat /\ (ns = <<>> <=> Len(ns) = 0) /\ (Len(ns) # 0 => Len(ns) \in 1 .. Len(ns))
  OBVIOUS
<1>5. \A k \in W : k \in DOMAIN q /\ q[k].kind # "lit" /\ q[k].kind # "bad"
  BY DEF Wildcards
<1>6. \A k \in W : q[k].text # <<>>
  <2> SUFFICES ASSUME NEW k \in W PROVE q[k].text # <<>>
    OBVIOUS
  <2>1. q[k] \in SegSet /\ q[k].kind # "bad"
    <3>1. k \in DOMAIN q
      BY <1>5
    <3> QED
      BY <1>5, <3>1
  <2> QED
    BY <2>1, SegFields, TextsAreNot
<1>7. q # <<>> /\ q[Len(q)].kind # "lit" => n \in W
  <2> SUFFICES ASSUME q # <<>>, q[Len(q)].kind # "lit" PROVE n \in W
    OBVIOUS
  <2>1. n \in DOMAIN q
    BY <1>n
  <2>2. q[n] \in SegSet /\ q[n].kind # "bad"
    BY <2>1 DEF Well
  <2>3. q[n].kind \in {"var", "rest"}
    BY <1>n, <2>2, SegFields
  <2> QED
    BY <2>1, <2>3 DEF Wildcards
<1>8. W = {} <=> ns = <<>>
  <2>1. ASSUME W = {} PROVE ns = <<>>
    <3>1. Cardinality(W) = 0
      BY <2>1, FS_EmptySet
    <3> QED
      BY <1>3, <1>4, <3>1
  <2>2. ASSUME ns = <<>>, NEW k \in W PROVE FALSE
    <3>1. Cardinality(W) = 0
      BY <1>3, <1>4, <2>2
    <3>2. NthOf(W, k) \in 1 .. 0
      BY <1>2, <3>1
    <3> QED
      BY <3>2
  <2> QED
    BY <2>1, <2>2
<1> HIDE DEF W
<1>9. ASSUME ns # <<>>
      PROVE  \E k \in W : /\ ns[Len(ns)] = q[k].text /\ q[k].text # <<>>
                          /\ q[Len(q)].kind # "lit" => k = Len(q)
  <2>1. PICK k \in W : NthOf(W, k) = Len(ns)
    BY <1>2, <1>3, <1>4, <1>9
  <2>2. ns[Len(ns)] = q[k].text /\ q[k].text # <<>>
    BY <1>3, <1>6, <2>1
  <2>3. q # <<>>
    <3>1. k \in DOMAIN q
      BY <1>5
    <3> QED
      BY <3>1
  <2>4. q[Len(q)].kind # "lit" => k = n
    BY <1>2, <1>3, <1>7, <2>1, <2>3
  <2> QED
    BY <1>n, <2>2, <2>4
<1> QED
  BY <1>8, <1>9, Zenon DEF W
=============================================================================
