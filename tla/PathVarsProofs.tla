--------------------------- MODULE PathVarsProofs ---------------------------
(***************************************************************************)
(* What is proved of a resource name on its way through a call, for every  *)
(* service, every client and every ID.                                     *)
(*                                                                         *)
(* PathVarsInv says what is so of a call in each of its steps: the URL is  *)
(* the one its client writes, the slot one that matches best, the values   *)
(* those its path captures, the operation the one the dispatcher chooses.  *)
(* What a property says of the end of a call is then a fact about the      *)
(* functions on the way, and the lemmas follow the name along them: a      *)
(* client takes the values out of it (ValuesSplit); escaped, they are      *)
(* segments of the URL (UrlSegments), which is clean where the values can  *)
(* be carried (CarriedClean), matches its own path (OwnMatch) and is       *)
(* captured again value by value (OwnCaptured), on any path of that shape  *)
(* (Alike); the dispatcher finds the verb behind the last (RightCase), and *)
(* the handler puts the name together (RebuiltIs).                         *)
(***************************************************************************)
EXTENDS PathVars, SharedFacts

-----------------------------------------------------------------------------
\* Sets in ascending order.

Lower(S, k) == {h \in S : h < k}
RankIn(S, k) == Cardinality(Lower(S, k))
Numbers(S) == S \subseteq Nat /\ IsFiniteSet(S)

\* Fewer elements of a set are below one of them than the set has, and below a
\* greater one there are more.
LEMMA LowerFacts ==
    ASSUME NEW S, Numbers(S), NEW k \in S
    PROVE  /\ IsFiniteSet(Lower(S, k)) /\ RankIn(S, k) \in Nat /\ RankIn(S, k) < Cardinality(S)
           /\ Cardinality(S) \in Nat
           /\ \A h \in S : k < h => RankIn(S, k) < RankIn(S, h)
<1>1. IsFiniteSet(S) /\ S \subseteq Nat /\ Cardinality(S) \in Nat
  BY FS_CardinalityType DEF Numbers
<1>2. Lower(S, k) \in SUBSET S /\ k \notin Lower(S, k)
  BY <1>1 DEF Lower
<1>3. IsFiniteSet(Lower(S, k)) /\ RankIn(S, k) \in Nat /\ RankIn(S, k) < Cardinality(S)
  <2>1. IsFiniteSet(Lower(S, k)) /\ RankIn(S, k) <= Cardinality(S)
        /\ (Cardinality(S) = RankIn(S, k) => S = Lower(S, k))
    BY <1>1, <1>2, FS_Subset DEF RankIn
  <2>2. RankIn(S, k) \in Nat
    BY <2>1, FS_CardinalityType DEF RankIn
  <2>3. S # Lower(S, k)
    BY <1>2
  <2> QED
    BY <1>1, <2>1, <2>2, <2>3
<1>4. ASSUME NEW h \in S, k < h PROVE RankIn(S, k) < RankIn(S, h)
  <2>1. Lower(S, h) \in SUBSET S /\ Lower(S, k) \in SUBSET Lower(S, h) /\ k \in Lower(S, h)
    <3>1. \A x \in S : x < k => x < h
      BY <1>1, <1>4
    <3> QED
      BY <1>4, <3>1, Zenon DEF Lower
  <2>2. IsFiniteSet(Lower(S, h))
    BY <1>1, <2>1, FS_Subset
  <2>3. RankIn(S, k) <= RankIn(S, h) /\ (RankIn(S, h) = RankIn(S, k) => Lower(S, h) = Lower(S, k))
    BY <2>1, <2>2, FS_Subset DEF RankIn
  <2>4. RankIn(S, h) \in Nat
    BY <2>2, FS_CardinalityType DEF RankIn
  <2> QED
    BY <1>2, <1>3, <2>1, <2>3, <2>4
<1> QED
  BY <1>1, <1>3, <1>4

\* The ranks are the numbers below the size of the set, each once.
LEMMA LowerRanks ==
    ASSUME NEW S, Numbers(S)
    PROVE  /\ \A k, h \in S : RankIn(S, k) = RankIn(S, h) => k = h
           /\ \A j \in 1 .. Cardinality(S) : \E k \in S : RankIn(S, k) = j - 1
<1> DEFINE c == Cardinality(S)
           f == [k \in S |-> RankIn(S, k) + 1]
<1>1. S \subseteq Nat /\ c \in Nat
  BY FS_CardinalityType DEF Numbers
<1>2. ASSUME NEW k \in S, NEW h \in S, RankIn(S, k) = RankIn(S, h) PROVE k = h
  <2>1. ASSUME k < h PROVE FALSE
    BY <1>2, <2>1, LowerFacts
  <2>2. ASSUME h < k PROVE FALSE
    BY <1>2, <2>2, LowerFacts
  <2> QED
    BY <1>1, <2>1, <2>2
<1>3. \A k \in S : RankIn(S, k) \in Nat /\ RankIn(S, k) + 1 \in 1 .. c
  BY LowerFacts
<1>4. f \in Injection(S, 1 .. c)
  BY <1>2, <1>3 DEF Injection, IsInjective
<1>5. IsFiniteSet(1 .. c) /\ Cardinality(1 .. c) = c
  BY <1>1, FS_Interval
<1>6. f \in Surjection(S, 1 .. c)
  BY <1>4, <1>5, FS_Injection, Zenon
<1>7. ASSUME NEW j \in 1 .. c PROVE \E k \in S : RankIn(S, k) = j - 1
  <2>1. PICK k \in S : f[k] = j
    BY <1>6 DEF Surjection
  <2> QED
    BY <1>3, <2>1
<1> QED
  BY <1>2, <1>7

\* A set in ascending order has its elements, each once and the lesser ahead.
LEMMA AscendingIs ==
    ASSUME NEW S, Numbers(S)
    PROVE  /\ Cardinality(S) \in Nat
           /\ Ascending(S) \in Seq(S) /\ Len(Ascending(S)) = Cardinality(S)
           /\ \A j \in 1 .. Cardinality(S) : RankIn(S, Ascending(S)[j]) = j - 1
           /\ \A j \in 1 .. Cardinality(S) : \A k \in S : RankIn(S, k) = j - 1 => Ascending(S)[j] = k
<1>1. Cardinality(S) \in Nat
  BY FS_CardinalityType DEF Numbers
<1>2. ASSUME NEW j \in 1 .. Cardinality(S)
      PROVE  /\ Ascending(S)[j] \in S /\ RankIn(S, Ascending(S)[j]) = j - 1
             /\ \A k \in S : RankIn(S, k) = j - 1 => Ascending(S)[j] = k
  <2>1. \E k \in S : Cardinality({h \in S : h < k}) = j - 1
    BY LowerRanks DEF RankIn, Lower
  <2>2. Ascending(S)[j] = CHOOSE k \in S : Cardinality({h \in S : h < k}) = j - 1
    BY DEF Ascending
  <2>3. Ascending(S)[j] \in S /\ RankIn(S, Ascending(S)[j]) = j - 1
    BY <2>1, <2>2 DEF RankIn, Lower
  <2> QED
    BY <2>3, LowerRanks
<1> DEFINE Choice(j) == CHOOSE k \in S : Cardinality({h \in S : h < k}) = j - 1
<1>3. Ascending(S) = [j \in 1 .. Cardinality(S) |-> Choice(j)]
  BY DEF Ascending
<1> HIDE DEF Choice
<1>4. Ascending(S) \in [1 .. Cardinality(S) -> S]
  BY <1>2, <1>3
<1> QED
  BY <1>1, <1>2, <1>4

\* A number above all others comes last.
LEMMA AscendingNext ==
    ASSUME NEW S, Numbers(S), NEW m \in Nat, \A k \in S : k < m
    PROVE  Numbers(S \cup {m}) /\ Ascending(S \cup {m}) = Append(Ascending(S), m)
<1> DEFINE R == S \cup {m}
           c == Cardinality(S)
<1>1. S \subseteq Nat /\ IsFiniteSet(S) /\ c \in Nat /\ m \notin S
  BY FS_CardinalityType DEF Numbers
<1>2. Numbers(R) /\ Cardinality(R) = c + 1
  BY <1>1, FS_AddElement DEF Numbers
<1>3. \A k \in S : Lower(R, k) = Lower(S, k)
  BY <1>1 DEF Lower
<1>4. Lower(R, m) = S
  <2>1. ~(m < m) /\ \A k \in S : k < m
    OBVIOUS
  <2> QED
    BY <2>1, Zenon DEF Lower
<1>5. ASSUME NEW j \in 1 .. c PROVE Ascending(R)[j] = Ascending(S)[j]
  <2>1. Ascending(S)[j] \in S /\ RankIn(S, Ascending(S)[j]) = j - 1
    BY AscendingIs
  <2>2. RankIn(R, Ascending(S)[j]) = j - 1 /\ Ascending(S)[j] \in R
    BY <1>3, <2>1 DEF RankIn
  <2>3. j \in 1 .. Cardinality(R)
    BY <1>1, <1>2
  <2> QED
    BY <1>2, <2>2, <2>3, AscendingIs
<1>6. Ascending(R)[c + 1] = m
  <2>1. RankIn(R, m) = (c + 1) - 1
    BY <1>1, <1>4 DEF RankIn
  <2>2. c + 1 \in 1 .. Cardinality(R)
    BY <1>1, <1>2
  <2> QED
    BY <1>2, <2>1, <2>2, AscendingIs
<1>7. Ascending(S) \in Seq(Nat) /\ Len(Ascending(S)) = c /\ Ascending(R) \in Seq(Nat) /\ Len(Ascending(R)) = c + 1
  <2>1. R \subseteq Nat
    BY <1>1
  <2> QED
    BY <1>1, <1>2, <2>1, AscendingIs, LargerSet
<1> HIDE DEF R, c
<1>8. Append(Ascending(S), m) \in Seq(Nat) /\ Len(Append(Ascending(S), m)) = c + 1
      /\ (\A j \in 1 .. c : Append(Ascending(S), m)[j] = Ascending(S)[j]) /\ Append(Ascending(S), m)[c + 1] = m
  BY <1>7, AppendProperties
<1>9. \A j \in 1 .. c + 1 : Ascending(R)[j] = Append(Ascending(S), m)[j]
  BY <1>1, <1>5, <1>6, <1>8
<1>10. Ascending(R) = Append(Ascending(S), m)
  BY <1>7, <1>8, <1>9, SeqEqual
<1> QED
  BY <1>2, <1>10 DEF R

\* Nothing is in order already.
LEMMA AscendingNone ==
    Numbers({}) /\ Ascending({}) = <<>>
<1>1. Numbers({}) /\ Cardinality({}) = 0
  BY FS_EmptySet DEF Numbers
<1> QED
  BY <1>1, AscendingIs

\* The rank of a wildcard counts it, the place in ascending order is that rank.
LEMMA AscendingRank ==
    ASSUME NEW n \in Nat, NEW W, Below(W, n)
    PROVE  /\ Ascending(W) \in Seq(1 .. n) /\ Len(Ascending(W)) = Cardinality(W) /\ Cardinality(W) \in Nat
           /\ \A j \in 1 .. Cardinality(W) : Ascending(W)[j] \in W /\ NthOf(W, Ascending(W)[j]) = j
           /\ \A k \in W : NthOf(W, k) \in 1 .. Cardinality(W) /\ Ascending(W)[NthOf(W, k)] = k
<1>1. Numbers(W) /\ W \subseteq 1 .. n
  BY Counted DEF Numbers, Below
<1>2. ASSUME NEW k \in W PROVE NthOf(W, k) = RankIn(W, k) + 1
  <2>1. UpTo(W, k) = Lower(W, k) \cup {k} /\ k \notin Lower(W, k)
    <3>1. ~(k < k) /\ k <= k /\ \A h \in W : h <= k <=> h < k \/ h = k
      BY <1>1 DEF Numbers
    <3> QED
      BY <3>1, Zenon DEF UpTo, Lower
  <2>2. IsFiniteSet(Lower(W, k))
    BY <1>1, LowerFacts
  <2> QED
    BY <2>1, <2>2, FS_AddElement DEF NthOf, RankIn
<1>3. /\ Cardinality(W) \in Nat
      /\ Ascending(W) \in Seq(W) /\ Len(Ascending(W)) = Cardinality(W)
      /\ \A j \in 1 .. Cardinality(W) : Ascending(W)[j] \in W /\ RankIn(W, Ascending(W)[j]) = j - 1
  BY <1>1, AscendingIs
<1>4. Ascending(W) \in Seq(1 .. n)
  BY <1>1, <1>3, LargerSet
<1>5. ASSUME NEW k \in W
      PROVE NthOf(W, k) \in 1 .. Cardinality(W) /\ Ascending(W)[NthOf(W, k)] = k
  <2>1. RankIn(W, k) \in Nat /\ RankIn(W, k) < Cardinality(W)
    BY <1>1, LowerFacts
  <2>2. PICK j \in Nat : j = RankIn(W, k) + 1 /\ j \in 1 .. Cardinality(W) /\ j - 1 = RankIn(W, k)
    BY <1>3, <2>1
  <2>3. Ascending(W)[j] = k
    BY <1>1, <2>2, AscendingIs
  <2> QED
    BY <1>2, <2>2, <2>3
<1>6. ASSUME NEW j \in 1 .. Cardinality(W) PROVE Ascending(W)[j] \in W /\ NthOf(W, Ascending(W)[j]) = j
  <2>1. Ascending(W)[j] \in W /\ RankIn(W, Ascending(W)[j]) = j - 1
    BY <1>3
  <2> QED
    BY <1>2, <1>3, <2>1
<1> QED
  BY <1>3, <1>4, <1>5, <1>6

-----------------------------------------------------------------------------
\* Texts and their segments.

Tokens == STRING \cup {"/", "%", ":", "!", "%2F", "%25", "%3A", "%21", "%7B%7D"}
Texts == Seq(Tokens)
Slashless(t) == \A k \in DOMAIN t : t[k] # "/"

\* What holds of the empty sequence and of one element more holds of all.
LEMMA AppendInduction ==
    ASSUME NEW S, NEW T \in SUBSET Seq(S), <<>> \in T, \A s \in T : \A e \in S : Append(s, e) \in T
    PROVE  T = Seq(S)
<1> DEFINE N == {n \in Nat : \A s \in Seq(S) : Len(s) = n => s \in T}
<1>1. 0 \in N
  <2>1. \A s \in Seq(S) : Len(s) = 0 => s = <<>>
    BY EmptySeq
  <2> QED
    BY <2>1
<1>2. ASSUME NEW n \in N PROVE n + 1 \in N
  <2> SUFFICES ASSUME NEW s \in Seq(S), Len(s) = n + 1 PROVE s \in T
    OBVIOUS
  <2>1. n \in Nat /\ s # <<>>
    OBVIOUS
  <2>2. PICK f \in Seq(S), e \in S : s = Append(f, e)
    BY <2>1, SequenceEmptyOrAppend, Zenon
  <2>3. Len(f) = n
    BY <2>1, <2>2, AppendProperties
  <2>4. f \in T
    BY <2>3
  <2> QED
    BY <2>2, <2>4
<1>3. N = Nat
  BY <1>1, <1>2, SetInduction
<1>4. ASSUME NEW s \in Seq(S) PROVE s \in T
  <2>1. Len(s) \in N
    BY <1>3
  <2> QED
    BY <2>1
<1> QED
  BY <1>4

\* A part of a text lies in what comes first, or in what comes last.
LEMMA SubSeqAhead ==
    ASSUME NEW S, NEW s \in Seq(S), NEW t \in Seq(S), NEW m \in Nat \ {0}, NEW n \in Nat, n <= Len(s)
    PROVE  SubSeq(s \o t, m, n) = SubSeq(s, m, n) /\ SubSeq(s, m, n) \in Seq(S)
<1>1. s \o t \in Seq(S) /\ Len(s \o t) = Len(s) + Len(t) /\ Len(s) \in Nat /\ Len(t) \in Nat
  BY ConcatProperties, LenProperties
<1>2. \A i \in m .. n : (s \o t)[i] = s[i] /\ s[i] \in S
  <2>1. \A i \in m .. n : i \in 1 .. Len(s)
    BY <1>1
  <2> QED
    BY <2>1, JoinedAt, ElementOf
<1>3. /\ SubSeq(s, m, n) \in Seq(S)
      /\ Len(SubSeq(s, m, n)) = IF m <= n THEN n - m + 1 ELSE 0
      /\ \A i \in 1 .. n - m + 1 : SubSeq(s, m, n)[i] = s[m + i - 1]
  BY <1>2, SubSeqProperties
<1>4. /\ SubSeq(s \o t, m, n) \in Seq(S)
      /\ Len(SubSeq(s \o t, m, n)) = IF m <= n THEN n - m + 1 ELSE 0
      /\ \A i \in 1 .. n - m + 1 : SubSeq(s \o t, m, n)[i] = (s \o t)[m + i - 1]
  BY <1>2, SubSeqProperties
<1>5. \A i \in 1 .. Len(SubSeq(s, m, n)) : SubSeq(s \o t, m, n)[i] = SubSeq(s, m, n)[i]
  BY <1>2, <1>3, <1>4
<1> QED
  BY <1>3, <1>4, <1>5, SeqEqual

\* What stands behind the first text is the second.
LEMMA SubSeqBehind ==
    ASSUME NEW S, NEW s \in Seq(S), NEW t \in Seq(S)
    PROVE  SubSeq(s \o t, Len(s) + 1, Len(s \o t)) = t
<1>1. s \o t \in Seq(S) /\ Len(s \o t) = Len(s) + Len(t) /\ Len(s) \in Nat /\ Len(t) \in Nat
  BY ConcatProperties, LenProperties
<1>2. \A i \in Len(s) + 1 .. Len(s \o t) : (s \o t)[i] \in S
  BY <1>1, ElementOf
<1>3. /\ SubSeq(s \o t, Len(s) + 1, Len(s \o t)) \in Seq(S)
      /\ Len(SubSeq(s \o t, Len(s) + 1, Len(s \o t))) = Len(t)
      /\ \A i \in 1 .. Len(t) : SubSeq(s \o t, Len(s) + 1, Len(s \o t))[i] = (s \o t)[Len(s) + 1 + i - 1]
  BY <1>1, <1>2, SubSeqProperties
<1>4. \A i \in 1 .. Len(t) : (s \o t)[Len(s) + 1 + i - 1] = t[i]
  BY <1>1, JoinedAt
<1> QED
  BY <1>3, <1>4, SeqEqual

Inner(s) == {0} \cup {k \in DOMAIN s : s[k] = "/"}
Cuts(s) == {0, Len(s) + 1} \cup {k \in DOMAIN s : s[k] = "/"}

\* The cuts of a text are its two ends and the places of its slashes.
LEMMA CutsAre ==
    ASSUME NEW s \in Texts
    PROVE  /\ Numbers(Inner(s)) /\ \A k \in Inner(s) : k \in Nat /\ k <= Len(s)
           /\ Numbers(Cuts(s)) /\ Cuts(s) = Inner(s) \cup {Len(s) + 1}
           /\ Ascending(Cuts(s)) = Append(Ascending(Inner(s)), Len(s) + 1)
           /\ Ascending(Inner(s)) \in Seq(0 .. Len(s)) /\ Len(Ascending(Inner(s))) \in Nat \ {0}
<1> USE DEF Texts
<1>1. Len(s) \in Nat /\ DOMAIN s = 1 .. Len(s)
  BY ElementOf
<1>2. Inner(s) \subseteq 0 .. Len(s) /\ 0 \in Inner(s)
  BY <1>1 DEF Inner
<1>3. Numbers(Inner(s))
  <2>1. IsFiniteSet(0 .. Len(s))
    BY <1>1, FS_Interval
  <2> QED
    BY <1>1, <1>2, <2>1, FS_Subset DEF Numbers
<1>4. Cuts(s) = Inner(s) \cup {Len(s) + 1}
  BY Zenon DEF Cuts, Inner
<1>5. \A k \in Inner(s) : k \in Nat /\ k <= Len(s) /\ k < Len(s) + 1
  BY <1>1, <1>2
<1>6. Numbers(Cuts(s)) /\ Ascending(Cuts(s)) = Append(Ascending(Inner(s)), Len(s) + 1)
  <2>1. Len(s) + 1 \in Nat /\ \A k \in Inner(s) : k < Len(s) + 1
    BY <1>1, <1>5
  <2>2. Numbers(Inner(s) \cup {Len(s) + 1})
        /\ Ascending(Inner(s) \cup {Len(s) + 1}) = Append(Ascending(Inner(s)), Len(s) + 1)
    BY <1>3, <2>1, AscendingNext, Zenon
  <2> QED
    BY <1>4, <2>2
<1>7. Ascending(Inner(s)) \in Seq(0 .. Len(s)) /\ Len(Ascending(Inner(s))) \in Nat \ {0}
  <2>1. Cardinality(Inner(s)) \in Nat \ {0}
    BY <1>2, <1>3, FS_CardinalityType, FS_EmptySet DEF Numbers
  <2>2. Ascending(Inner(s)) \in Seq(Inner(s)) /\ Len(Ascending(Inner(s))) = Cardinality(Inner(s))
    BY <1>3, AscendingIs
  <2> QED
    BY <1>2, <2>1, <2>2, LargerSet
<1> QED
  BY <1>3, <1>4, <1>5, <1>6, <1>7

\* The segments of a text, by the cuts that begin them.
CutAt(s, j) == Append(Ascending(Inner(s)), Len(s) + 1)[j]

\* Each segment lies between a cut and the next.
LEMMA SegmentsAre ==
    ASSUME NEW s \in Texts, NEW n, n = Len(Ascending(Inner(s)))
    PROVE  /\ n \in Nat \ {0}
           /\ Segments(s) = [j \in 1 .. n |-> SubSeq(s, CutAt(s, j) + 1, CutAt(s, j + 1) - 1)]
           /\ \A j \in 1 .. n : CutAt(s, j) = Ascending(Inner(s))[j] /\ CutAt(s, j) \in 0 .. Len(s)
           /\ CutAt(s, n + 1) = Len(s) + 1
           /\ \A j \in 1 .. n : CutAt(s, j + 1) \in 1 .. Len(s) + 1
           /\ Segments(s) \in Seq(Texts) /\ Len(Segments(s)) = n
<1> DEFINE A == Ascending(Inner(s))
           B == Append(A, Len(s) + 1)
<1>1. Len(s) \in Nat /\ A \in Seq(Nat) /\ Len(A) = n /\ n \in Nat \ {0} /\ \A j \in 1 .. n : A[j] \in 0 .. Len(s)
  <2>1. Len(s) \in Nat
    BY DEF Texts
  <2>2. A \in Seq(0 .. Len(s)) /\ n \in Nat \ {0}
    BY CutsAre
  <2> QED
    BY <2>1, <2>2, ElementOf, LargerSet
<1>2. Ascending(Cuts(s)) = B
  BY CutsAre
<1> HIDE DEF A
<1>3. Len(s) + 1 \in Nat /\ Len(B) = n + 1 /\ (\A j \in 1 .. n : B[j] = A[j]) /\ B[n + 1] = Len(s) + 1
  BY <1>1, AppendProperties
<1> HIDE DEF B
<1>4. \A j : CutAt(s, j) = B[j]
  BY DEF CutAt, A, B
<1>5. Segments(s) = [j \in 1 .. Len(B) - 1 |-> SubSeq(s, B[j] + 1, B[j + 1] - 1)]
  BY <1>2 DEF Segments, Cuts
<1>6. Len(B) - 1 = n
  BY <1>1, <1>3
<1>7. Segments(s) = [j \in 1 .. n |-> SubSeq(s, CutAt(s, j) + 1, CutAt(s, j + 1) - 1)]
  BY <1>4, <1>5, <1>6
<1>8. ASSUME NEW j \in 1 .. n PROVE B[j + 1] \in 1 .. Len(s) + 1
  <2>1. CASE j = n
    BY <1>1, <1>3, <2>1
  <2>2. CASE j # n
    <3>1. j + 1 \in 1 .. n /\ A[j + 1] \in Inner(s) /\ A[j] \in Inner(s)
      <4>1. j + 1 \in 1 .. n
        BY <1>1, <2>2
      <4>2. Numbers(Inner(s))
        BY CutsAre
      <4>3. A \in Seq(Inner(s)) /\ Len(A) = Cardinality(Inner(s))
        BY <4>2, AscendingIs DEF A
      <4> QED
        BY <1>1, <4>1, <4>3, ElementOf
    <3>2. RankIn(Inner(s), A[j + 1]) = j
      <4>1. Numbers(Inner(s))
        BY CutsAre
      <4>2. j + 1 \in 1 .. Cardinality(Inner(s)) /\ (j + 1) - 1 = j
        BY <1>1, <3>1, <4>1, AscendingIs DEF A
      <4> QED
        BY <4>1, <4>2, AscendingIs DEF A
    <3>3. A[j + 1] # 0
      <4>1. Lower(Inner(s), 0) = {}
        BY CutsAre DEF Lower
      <4>2. RankIn(Inner(s), 0) = 0
        BY <4>1, FS_EmptySet DEF RankIn
      <4> QED
        BY <1>1, <3>2, <4>2
    <3> QED
      BY <1>1, <1>3, <3>1, <3>3
  <2> QED
    BY <2>1, <2>2
<1>9. ASSUME NEW j \in 1 .. n PROVE SubSeq(s, CutAt(s, j) + 1, CutAt(s, j + 1) - 1) \in Texts
  <2>1. PICK a \in Nat : a = CutAt(s, j) /\ a + 1 \in Int /\ a + 1 >= 1
    BY <1>1, <1>3, <1>4
  <2>2. PICK b \in Int : b = CutAt(s, j + 1) - 1 /\ b <= Len(s)
    BY <1>1, <1>4, <1>8
  <2>3. \A i \in a + 1 .. b : s[i] \in Tokens
    BY <1>1, <2>1, <2>2, ElementOf DEF Texts
  <2> QED
    BY <2>1, <2>2, <2>3, SubSeqProperties DEF Texts
<1>10. Segments(s) \in Seq(Texts) /\ Len(Segments(s)) = n
  <2> DEFINE g(j) == SubSeq(s, CutAt(s, j) + 1, CutAt(s, j + 1) - 1)
  <2>1. Segments(s) = [j \in 1 .. n |-> g(j)] /\ \A j \in 1 .. n : g(j) \in Texts
    BY <1>7, <1>9
  <2> HIDE DEF g
  <2> QED
    BY <1>1, <2>1
<1> QED
  BY <1>1, <1>3, <1>4, <1>7, <1>8, <1>10 DEF A

\* A text without a slash is its only segment.
LEMMA OneSegmentOf ==
    ASSUME NEW s \in Texts, Slashless(s)
    PROVE  Segments(s) = <<s>>
<1>1. Inner(s) = {} \cup {0}
  BY DEF Inner, Slashless
<1>2. Ascending(Inner(s)) = <<0>>
  <2>1. Ascending({} \cup {0}) = Append(Ascending({}), 0)
    BY AscendingNone, AscendingNext
  <2>2. Append(<<>>, 0) = <<0>>
    OBVIOUS
  <2> QED
    BY <1>1, <2>1, <2>2, AscendingNone
<1>3. Len(<<0>>) = 1 /\ <<0>>[1] = 0 /\ 1 + 1 = 2
  OBVIOUS
<1>4. /\ Segments(s) = [j \in 1 .. 1 |-> SubSeq(s, CutAt(s, j) + 1, CutAt(s, j + 1) - 1)]
      /\ CutAt(s, 1) = 0 /\ CutAt(s, 2) = Len(s) + 1
      /\ Segments(s) \in Seq(Texts) /\ Len(Segments(s)) = 1
  <2>1. PICK n : n = Len(Ascending(Inner(s)))
    OBVIOUS
  <2>2. n = 1 /\ 1 \in 1 .. 1
    BY <1>2, <1>3, <2>1
  <2>3. /\ Segments(s) = [j \in 1 .. n |-> SubSeq(s, CutAt(s, j) + 1, CutAt(s, j + 1) - 1)]
        /\ \A j \in 1 .. n : CutAt(s, j) = Ascending(Inner(s))[j]
        /\ CutAt(s, n + 1) = Len(s) + 1
        /\ Segments(s) \in Seq(Texts) /\ Len(Segments(s)) = n
    BY <2>1, SegmentsAre
  <2> QED
    BY <1>2, <1>3, <2>2, <2>3
<1>5. Segments(s)[1] = SubSeq(s, 1, Len(s))
  <2>1. Segments(s)[1] = SubSeq(s, CutAt(s, 1) + 1, CutAt(s, 1 + 1) - 1)
    BY <1>4
  <2>2. CutAt(s, 1) + 1 = 1 /\ CutAt(s, 1 + 1) - 1 = Len(s)
    <3>1. Len(s) \in Nat
      BY DEF Texts
    <3> QED
      BY <1>4, <3>1
  <2> QED
    BY <2>1, <2>2
<1>6. SubSeq(s, 1, Len(s)) = s
  BY SubSeqFull DEF Texts
<1> QED
  BY <1>4, <1>5, <1>6

\* A slash and a text without one make one segment more.
LEMMA SegmentBehind ==
    ASSUME NEW s \in Texts, NEW t \in Texts, Slashless(t)
    PROVE  Segments(s \o (Slash \o t)) = Append(Segments(s), t)
<1> DEFINE u == s \o (Slash \o t)
           n == Len(Ascending(Inner(s)))
<1>0. Slash \in Seq(Tokens) /\ s \in Seq(Tokens) /\ t \in Seq(Tokens)
  <2>1. "/" \in Tokens
    BY DEF Tokens
  <2>2. <<"/">> \in Seq(Tokens)
    BY <2>1, OneOf
  <2> QED
    BY <2>2 DEF Texts, Slash
<1>1. /\ Slash \in Texts /\ Len(Slash) = 1 /\ Slash[1] = "/"
      /\ Len(s) \in Nat /\ Len(t) \in Nat /\ DOMAIN s = 1 .. Len(s) /\ DOMAIN t = 1 .. Len(t)
  <2>1. Len(Slash) = 1 /\ Slash[1] = "/"
    BY DEF Slash
  <2> QED
    BY <1>0, <2>1, ElementOf DEF Texts
<1>2. /\ Slash \o t \in Texts /\ Len(Slash \o t) = 1 + Len(t) /\ (Slash \o t)[1] = "/"
      /\ \A i \in 1 .. Len(t) : (Slash \o t)[1 + i] = t[i]
  <2>1. Slash \o t \in Seq(Tokens) /\ Len(Slash \o t) = Len(Slash) + Len(t)
    BY <1>0, Concatenated
  <2>2. /\ \A i \in 1 .. Len(Slash) : (Slash \o t)[i] = Slash[i]
        /\ \A i \in 1 .. Len(t) : (Slash \o t)[Len(Slash) + i] = t[i]
    BY <1>0, JoinedAt
  <2>3. 1 \in 1 .. Len(Slash)
    BY <1>1
  <2> QED
    BY <1>1, <2>1, <2>2, <2>3 DEF Texts
<1>3. /\ u \in Texts /\ Len(u) = Len(s) + 1 + Len(t) /\ DOMAIN u = 1 .. Len(s) + 1 + Len(t)
      /\ \A i \in 1 .. Len(s) : u[i] = s[i]
      /\ \A i \in 1 .. 1 + Len(t) : u[Len(s) + i] = (Slash \o t)[i]
  <2>1. u \in Texts /\ Len(u) = Len(s) + (1 + Len(t))
    BY <1>2, Concatenated DEF Texts
  <2>2. \A i \in 1 .. Len(s) : u[i] = s[i]
    BY <1>2, JoinedAt DEF Texts
  <2>3. \A i \in 1 .. Len(Slash \o t) : u[Len(s) + i] = (Slash \o t)[i]
    BY <1>2, JoinedAt DEF Texts
  <2> HIDE DEF u
  <2> QED
    BY <1>1, <1>2, <2>1, <2>2, <2>3, ElementOf DEF Texts
<1> HIDE DEF u
<1>4. Inner(u) = Cuts(s)
  <2>1. ASSUME NEW k \in 1 .. Len(s) + 1 + Len(t)
        PROVE u[k] = "/" <=> k = Len(s) + 1 \/ (k \in 1 .. Len(s) /\ s[k] = "/")
    <3>1. CASE k \in 1 .. Len(s)
      BY <1>1, <1>3, <3>1
    <3>2. CASE k = Len(s) + 1
      BY <1>1, <1>2, <1>3, <3>2
    <3>3. CASE k > Len(s) + 1
      <4>1. PICK i \in 1 .. Len(t) : k = Len(s) + (1 + i) /\ 1 + i \in 1 .. 1 + Len(t)
        <5>1. k - Len(s) - 1 \in 1 .. Len(t) /\ k = Len(s) + (1 + (k - Len(s) - 1))
          BY <1>1, <3>3
        <5>2. \A i \in 1 .. Len(t) : 1 + i \in 1 .. 1 + Len(t)
          BY <1>1
        <5> QED
          BY <5>1, <5>2
      <4>2. u[k] = t[i] /\ t[i] # "/"
        BY <1>1, <1>2, <1>3, <4>1 DEF Slashless
      <4> QED
        BY <1>1, <3>3, <4>2
    <3> QED
      BY <1>1, <3>1, <3>2, <3>3
  <2>2. \A k \in 1 .. Len(s) : k \in 1 .. Len(s) + 1 + Len(t)
    BY <1>1
  <2>3. Len(s) + 1 \in 1 .. Len(s) + 1 + Len(t)
    BY <1>1
  <2> QED
    BY <1>1, <1>3, <2>1, <2>2, <2>3 DEF Inner, Cuts
<1>5. /\ n \in Nat \ {0} /\ Ascending(Inner(u)) = Append(Ascending(Inner(s)), Len(s) + 1)
      /\ Len(Ascending(Inner(u))) = n + 1 /\ Ascending(Inner(s)) \in Seq(Nat)
  <2>1. Ascending(Cuts(s)) = Append(Ascending(Inner(s)), Len(s) + 1) /\ Ascending(Inner(s)) \in Seq(0 .. Len(s))
        /\ n \in Nat \ {0}
    BY CutsAre
  <2>2. Ascending(Inner(s)) \in Seq(Nat) /\ Len(s) + 1 \in Nat
    BY <1>1, <2>1, LargerSet
  <2> QED
    BY <1>4, <2>1, <2>2, AppendProperties
<1>6. /\ Segments(u) = [j \in 1 .. n + 1 |-> SubSeq(u, CutAt(u, j) + 1, CutAt(u, j + 1) - 1)]
      /\ \A j \in 1 .. n + 1 : CutAt(u, j) = Ascending(Inner(u))[j]
      /\ CutAt(u, (n + 1) + 1) = Len(u) + 1
      /\ Segments(u) \in Seq(Texts) /\ Len(Segments(u)) = n + 1
  BY <1>3, <1>5, SegmentsAre
<1>7. /\ Segments(s) = [j \in 1 .. n |-> SubSeq(s, CutAt(s, j) + 1, CutAt(s, j + 1) - 1)]
      /\ \A j \in 1 .. n : CutAt(s, j) \in 0 .. Len(s) /\ CutAt(s, j + 1) \in 1 .. Len(s) + 1
      /\ CutAt(s, n + 1) = Len(s) + 1
      /\ Segments(s) \in Seq(Texts) /\ Len(Segments(s)) = n
  BY SegmentsAre
<1>8. \A j : CutAt(s, j) = Ascending(Inner(u))[j]
  BY <1>5 DEF CutAt
<1> HIDE DEF n
<1>9. ASSUME NEW j \in 1 .. n PROVE Segments(u)[j] = Segments(s)[j]
  <2>1. j \in 1 .. n + 1 /\ j + 1 \in 1 .. n + 1
    BY <1>5
  <2>2. PICK a \in Nat : a = CutAt(s, j) /\ a + 1 \in Nat \ {0}
    BY <1>1, <1>7
  <2>3. PICK b \in Nat : b = CutAt(s, j + 1) - 1 /\ b <= Len(s)
    BY <1>1, <1>7
  <2>4. Segments(u)[j] = SubSeq(u, a + 1, b) /\ Segments(s)[j] = SubSeq(s, a + 1, b)
    <3>1. Segments(s)[j] = SubSeq(s, a + 1, b)
      BY <1>7, <2>2, <2>3
    <3>2. Segments(u)[j] = SubSeq(u, CutAt(u, j) + 1, CutAt(u, j + 1) - 1)
      BY <1>6, <2>1
    <3>3. CutAt(u, j) = CutAt(s, j) /\ CutAt(u, j + 1) = CutAt(s, j + 1)
      BY <1>6, <1>8, <2>1
    <3> QED
      BY <2>2, <2>3, <3>1, <3>2, <3>3
  <2>5. SubSeq(s \o (Slash \o t), a + 1, b) = SubSeq(s, a + 1, b)
    <3>1. Slash \o t \in Seq(Tokens)
      BY <1>2 DEF Texts
    <3>2. PICK m \in Nat \ {0} : m = a + 1
      BY <2>2
    <3>3. SubSeq(s \o (Slash \o t), m, b) = SubSeq(s, m, b)
      BY <1>0, <2>3, <3>1, SubSeqAhead
    <3> QED
      BY <3>2, <3>3
  <2> QED
    BY <2>4, <2>5 DEF u
<1>10. Segments(u)[n + 1] = t
  <2>1. n + 1 \in 1 .. n + 1
    BY <1>5
  <2>2. CutAt(u, n + 1) = Len(s) + 1 /\ CutAt(u, (n + 1) + 1) - 1 = Len(u)
    BY <1>1, <1>3, <1>6, <1>7, <1>8, <2>1
  <2>3. Segments(u)[n + 1] = SubSeq(u, (Len(s) + 1) + 1, Len(u))
    BY <1>6, <2>1, <2>2
  <2>4. u = (s \o Slash) \o t /\ s \o Slash \in Seq(Tokens) /\ Len(s \o Slash) = Len(s) + 1
    <3>1. s \o (Slash \o t) = (s \o Slash) \o t
      BY <1>0, Associative
    <3>2. s \o Slash \in Seq(Tokens) /\ Len(s \o Slash) = Len(s) + Len(Slash)
      BY <1>0, Concatenated
    <3> QED
      BY <1>1, <3>1, <3>2 DEF u
  <2>5. SubSeq((s \o Slash) \o t, Len(s \o Slash) + 1, Len((s \o Slash) \o t)) = t
    BY <1>0, <2>4, SubSeqBehind
  <2> QED
    BY <2>3, <2>4, <2>5
<1>11. Append(Segments(s), t) \in Seq(Texts) /\ Len(Append(Segments(s), t)) = n + 1
       /\ (\A j \in 1 .. n : Append(Segments(s), t)[j] = Segments(s)[j]) /\ Append(Segments(s), t)[n + 1] = t
  <2>1. PICK P : P = Texts
    OBVIOUS
  <2>2. Segments(s) \in Seq(P) /\ t \in P /\ Len(Segments(s)) = n
    BY <1>7, <2>1
  <2>3. /\ Append(Segments(s), t) \in Seq(P) /\ Len(Append(Segments(s), t)) = Len(Segments(s)) + 1
        /\ \A j \in 1 .. Len(Segments(s)) : Append(Segments(s), t)[j] = Segments(s)[j]
        /\ Append(Segments(s), t)[Len(Segments(s)) + 1] = t
    BY <2>2, AppendProperties
  <2> QED
    BY <2>1, <2>2, <2>3
<1>12. \A j \in 1 .. n + 1 : j \in 1 .. n \/ j = n + 1
  BY <1>5
<1>13. \A j \in 1 .. n + 1 : Segments(u)[j] = Append(Segments(s), t)[j]
  BY <1>9, <1>10, <1>11, <1>12
<1>14. Segments(u) = Append(Segments(s), t)
  BY <1>6, <1>11, <1>13, SeqEqual
<1> QED
  BY <1>14 DEF u

-----------------------------------------------------------------------------
\* Joining texts with slashes, and what the segments of the result are.

Items(parts) == [j \in DOMAIN parts |-> IF j = 1 THEN parts[1] ELSE Slash \o parts[j]]

\* Two texts, one behind the other, are a text.
LEMMA Joins ==
    ASSUME NEW a \in Texts, NEW b \in Texts
    PROVE  /\ a \o b \in Texts /\ a \o b \in Seq(Tokens) /\ a \in Seq(Tokens)
           /\ Len(a \o b) = Len(a) + Len(b) /\ Len(a) \in Nat /\ Len(b) \in Nat
<1>1. a \in Seq(Tokens) /\ b \in Seq(Tokens)
  BY DEF Texts
<1> QED
  BY <1>1, Concatenated, ElementOf DEF Texts

\* Concatenation is associative.
LEMMA JoinsThree ==
    ASSUME NEW a \in Texts, NEW b \in Texts, NEW c \in Texts
    PROVE  a \o (b \o c) = (a \o b) \o c
<1>1. a \in Seq(Tokens) /\ b \in Seq(Tokens) /\ c \in Seq(Tokens)
  BY DEF Texts
<1> QED
  BY <1>1, Associative

\* A slash is a text of one token.
LEMMA SlashIs ==
    /\ Slash \in Texts /\ Slash \in Seq(Tokens) /\ Len(Slash) = 1 /\ Slash[1] = "/" /\ Slash # <<>>
<1>1. "/" \in Tokens
  BY DEF Tokens
<1>2. <<"/">> \in Seq(Tokens) /\ Len(<<"/">>) = 1 /\ <<"/">>[1] = "/" /\ <<"/">> # <<>>
  BY <1>1
<1> QED
  BY <1>2 DEF Slash, Texts

\* What is joined of texts is a text.
LEMMA JoinedIs ==
    ASSUME NEW parts \in Seq(Texts)
    PROVE  /\ Joined(parts, Slash) = FlattenSeq(Items(parts))
           /\ Items(parts) \in [1 .. Len(parts) -> Texts]
           /\ Joined(parts, Slash) \in Texts
<1>1. DOMAIN parts = 1 .. Len(parts) /\ Len(parts) \in Nat /\ \A j \in 1 .. Len(parts) : parts[j] \in Texts
  BY ElementOf
<1>2. Joined(parts, Slash) = FlattenSeq(Items(parts))
  BY DEF Joined, Items
<1>3. \A j \in 1 .. Len(parts) : Slash \o parts[j] \in Texts
  BY <1>1, SlashIs, Concatenated DEF Texts
<1>4. Items(parts) \in [1 .. Len(parts) -> Texts]
  BY <1>1, <1>3 DEF Items
<1>5. Items(parts) \in Seq(Seq(Tokens))
  <2>1. PICK n \in Nat : n = Len(parts)
    BY <1>1
  <2>2. Items(parts) \in [1 .. n -> Seq(Tokens)]
    BY <1>4, <2>1 DEF Texts
  <2>3. ASSUME NEW S, NEW f \in [1 .. n -> S] PROVE f \in Seq(S)
    OBVIOUS
  <2> QED
    BY <2>2, <2>3
<1>6. FlattenSeq(Items(parts)) \in Seq(Tokens)
  BY <1>5, FlattenType
<1> QED
  BY <1>2, <1>4, <1>6 DEF Texts

\* One text, joined, is itself.
LEMMA JoinedOne ==
    ASSUME NEW t \in Texts
    PROVE  Joined(<<t>>, Slash) = t
<1>1. <<t>> \in Seq(Texts) /\ Len(<<t>>) = 1
  OBVIOUS
<1>2. Items(<<t>>) \in [1 .. 0 + 1 -> Seq(Tokens)]
  <2>1. Items(<<t>>) \in [1 .. Len(<<t>>) -> Texts] /\ 0 + 1 = 1
    <3>1. PICK p \in Seq(Texts) : p = <<t>>
      BY <1>1
    <3>2. Items(p) \in [1 .. Len(p) -> Texts]
      BY JoinedIs
    <3> QED
      BY <3>1, <3>2
  <2>2. Items(<<t>>) \in [1 .. 1 -> Texts]
    BY <1>1, <2>1
  <2> QED
    BY <2>1, <2>2 DEF Texts
<1>3. Items(<<t>>)[0 + 1] = t
  BY <1>1 DEF Items
<1>4. PICK e : e = [i \in 1 .. 0 |-> Items(<<t>>)[i]]
  OBVIOUS
<1>5. FlattenSeq(Items(<<t>>)) = FlattenSeq(e) \o Items(<<t>>)[0 + 1]
  BY <1>2, <1>4, FlattenNext
<1>6. FlattenSeq(e) = <<>>
  BY <1>4, FlattenEmpty
<1>7. <<>> \o t = t
  BY NothingAhead DEF Texts
<1> QED
  BY <1>1, <1>3, <1>5, <1>6, <1>7, JoinedIs

\* One text more is joined behind a slash.
LEMMA JoinedNext ==
    ASSUME NEW parts \in Seq(Texts), parts # <<>>, NEW t \in Texts
    PROVE  /\ Append(parts, t) \in Seq(Texts)
           /\ Joined(Append(parts, t), Slash) = Joined(parts, Slash) \o (Slash \o t)
<1> DEFINE n == Len(parts)
           q == Append(parts, t)
<1>1. n \in Nat /\ n # 0 /\ DOMAIN parts = 1 .. n
  BY ElementOf, EmptySeq
<1>2. q \in Seq(Texts) /\ Len(q) = n + 1 /\ (\A j \in 1 .. n : q[j] = parts[j]) /\ q[n + 1] = t
      /\ DOMAIN q = 1 .. n + 1
  BY AppendProperties, ElementOf
<1> HIDE DEF q, n
<1>3. Items(q) \in [1 .. n + 1 -> Seq(Tokens)]
  BY <1>2, JoinedIs DEF Texts
<1>4. Items(q)[n + 1] = Slash \o t
  BY <1>1, <1>2 DEF Items
<1>5. Items(parts) = [i \in 1 .. n |-> Items(q)[i]]
  <2>1. \A i \in 1 .. n : i \in 1 .. n + 1 /\ (i = 1 => 1 \in 1 .. n) /\ (1 \in 1 .. n)
    BY <1>1
  <2> QED
    BY <1>1, <1>2, <2>1 DEF Items
<1>6. FlattenSeq(Items(q)) = FlattenSeq(Items(parts)) \o (Slash \o t)
  BY <1>1, <1>3, <1>4, <1>5, FlattenNext
<1> QED
  BY <1>2, <1>6, JoinedIs DEF q

Parted(parts) == parts \in Seq(Texts) \ {<<>>} /\ \A k \in DOMAIN parts : Slashless(parts[k])

\* A row of segments is one of fewer segments and a last one.
LEMMA PartedNext ==
    ASSUME NEW parts, Parted(parts), NEW t \in Texts, Slashless(t)
    PROVE  Parted(Append(parts, t))
<1>1. parts \in Seq(Texts) /\ DOMAIN parts = 1 .. Len(parts) /\ Len(parts) \in Nat
  BY ElementOf DEF Parted
<1>2. /\ Append(parts, t) \in Seq(Texts) /\ Append(parts, t) # <<>> /\ Len(Append(parts, t)) = Len(parts) + 1
      /\ \A j \in 1 .. Len(parts) : Append(parts, t)[j] = parts[j]
      /\ Append(parts, t)[Len(parts) + 1] = t
  BY <1>1, AppendProperties
<1>3. DOMAIN Append(parts, t) = 1 .. Len(parts) + 1
  BY <1>1, <1>2, ElementOf
<1>4. \A j \in 1 .. Len(parts) + 1 : j \in 1 .. Len(parts) \/ j = Len(parts) + 1
  BY <1>1
<1> QED
  BY <1>1, <1>2, <1>3, <1>4 DEF Parted

\* A text without a slash is a row of segments.
LEMMA PartedOne ==
    ASSUME NEW t \in Texts, Slashless(t)
    PROVE  Parted(<<t>>)
<1>1. <<t>> \in Seq(Texts) /\ <<t>> # <<>> /\ DOMAIN <<t>> = {1} /\ <<t>>[1] = t
  OBVIOUS
<1> QED
  BY <1>1 DEF Parted

\* What is joined comes apart again.
LEMMA SegmentsOfJoined ==
    ASSUME NEW parts, Parted(parts)
    PROVE  Segments(Joined(parts, Slash)) = parts
<1> DEFINE T == {q \in Seq(Texts) : Parted(q) => Segments(Joined(q, Slash)) = q}
<1>1. <<>> \in T
  BY DEF Parted
<1>2. ASSUME NEW q \in T, NEW t \in Texts PROVE Append(q, t) \in T
  <2>0. q \in Seq(Texts) /\ Append(q, t) \in Seq(Texts)
    BY AppendProperties
  <2> SUFFICES ASSUME Parted(Append(q, t)) PROVE Segments(Joined(Append(q, t), Slash)) = Append(q, t)
    BY <2>0
  <2>1. /\ Len(q) \in Nat /\ DOMAIN q = 1 .. Len(q) /\ DOMAIN Append(q, t) = 1 .. Len(q) + 1
        /\ \A j \in 1 .. Len(q) : Append(q, t)[j] = q[j]
        /\ Append(q, t)[Len(q) + 1] = t
    BY <2>0, AppendProperties, ElementOf
  <2>2. Slashless(t) /\ \A j \in 1 .. Len(q) : Slashless(q[j])
    <3>1. \A j \in 1 .. Len(q) : j \in 1 .. Len(q) + 1
      BY <2>1
    <3>2. Len(q) + 1 \in 1 .. Len(q) + 1
      BY <2>1
    <3> QED
      BY <2>1, <3>1, <3>2 DEF Parted
  <2>3. CASE q = <<>>
    <3>1. Append(q, t) = <<t>>
      BY <2>3
    <3> QED
      BY <2>2, <3>1, JoinedOne, OneSegmentOf
  <2>4. CASE q # <<>>
    <3>1. Parted(q)
      BY <2>0, <2>1, <2>2, <2>4 DEF Parted
    <3>2. Segments(Joined(q, Slash)) = q /\ Joined(q, Slash) \in Texts
      BY <2>0, <3>1, JoinedIs
    <3>3. Joined(Append(q, t), Slash) = Joined(q, Slash) \o (Slash \o t)
      BY <2>0, <2>4, JoinedNext
    <3> QED
      BY <2>2, <3>2, <3>3, SegmentBehind
  <2> QED
    BY <2>3, <2>4
<1>3. T = Seq(Texts)
  <2> HIDE DEF T
  <2>1. T \in SUBSET Seq(Texts)
    BY DEF T
  <2> QED
    BY <1>1, <1>2, <2>1, AppendInduction
<1> QED
  BY <1>3 DEF Parted

\* Every text is joined from its segments.
LEMMA TextIsJoined ==
    ASSUME NEW s \in Texts
    PROVE  Parted(Segments(s)) /\ Joined(Segments(s), Slash) = s
<1> DEFINE T == {u \in Texts : \E q : Parted(q) /\ Joined(q, Slash) = u}
<1>1. <<>> \in T
  <2>1. <<>> \in Texts /\ Slashless(<<>>)
    BY DEF Texts, Slashless
  <2> QED
    BY <2>1, PartedOne, JoinedOne
<1>2. ASSUME NEW u \in T, NEW c \in Tokens PROVE Append(u, c) \in T
  <2>0. u \in Texts /\ Append(u, c) \in Texts /\ Append(u, c) = u \o <<c>> /\ <<c>> \in Texts
    BY AppendProperties, AppendIsConcat, OneOf DEF Texts
  <2>1. PICK q : Parted(q) /\ Joined(q, Slash) = u
    OBVIOUS
  <2>2. CASE c = "/"
    <3>1. Parted(Append(q, <<>>))
      <4>1. <<>> \in Texts /\ Slashless(<<>>)
        BY DEF Texts, Slashless
      <4> QED
        BY <2>1, <4>1, PartedNext
    <3>2. Joined(Append(q, <<>>), Slash) = u \o (Slash \o <<>>)
      <4>1. <<>> \in Texts
        BY DEF Texts
      <4> QED
        BY <2>1, <4>1, JoinedNext DEF Parted
    <3>3. Slash \o <<>> = <<c>>
      BY <2>2, SlashIs, NothingBehind DEF Slash
    <3> QED
      BY <2>0, <3>1, <3>2, <3>3
  <2>3. CASE c # "/"
    <3>1. q \in Seq(Texts) /\ q # <<>>
      BY <2>1 DEF Parted
    <3>2. PICK f \in Seq(Texts), e \in Texts : q = Append(f, e)
      BY <3>1, SequenceEmptyOrAppend, Zenon
    <3>3. /\ Len(f) \in Nat /\ DOMAIN f = 1 .. Len(f) /\ DOMAIN q = 1 .. Len(f) + 1
          /\ \A j \in 1 .. Len(f) : q[j] = f[j]
          /\ q[Len(f) + 1] = e
      BY <3>1, <3>2, AppendProperties, ElementOf
    <3>4. Slashless(e) /\ \A j \in 1 .. Len(f) : Slashless(f[j])
      <4>1. \A j \in 1 .. Len(f) : j \in 1 .. Len(f) + 1
        BY <3>3
      <4>2. Len(f) + 1 \in 1 .. Len(f) + 1
        BY <3>3
      <4> QED
        BY <2>1, <3>3, <4>1, <4>2 DEF Parted
    <3>5. e \o <<c>> \in Texts /\ Slashless(e \o <<c>>)
      <4>1. e \in Seq(Tokens) /\ <<c>> \in Seq(Tokens) /\ Len(<<c>>) = 1 /\ <<c>>[1] = c
        BY <2>0 DEF Texts
      <4>2. e \o <<c>> \in Seq(Tokens) /\ Len(e \o <<c>>) = Len(e) + 1 /\ Len(e) \in Nat
        BY <4>1, Concatenated, ElementOf
      <4>3. (\A j \in 1 .. Len(e) : (e \o <<c>>)[j] = e[j]) /\ (e \o <<c>>)[Len(e) + 1] = c
        <5>1. 1 \in 1 .. Len(<<c>>)
          BY <4>1
        <5> QED
          BY <4>1, <5>1, JoinedAt
      <4>4. DOMAIN (e \o <<c>>) = 1 .. Len(e) + 1 /\ DOMAIN e = 1 .. Len(e)
        BY <4>1, <4>2, ElementOf
      <4>5. \A j \in 1 .. Len(e) + 1 : j \in 1 .. Len(e) \/ j = Len(e) + 1
        BY <4>2
      <4> QED
        BY <2>3, <3>4, <4>2, <4>3, <4>4, <4>5 DEF Slashless, Texts
    <3>6. CASE f = <<>>
      <4>1. q = <<e>>
        BY <3>2, <3>6
      <4>2. u = e
        BY <2>1, <4>1, JoinedOne
      <4>3. Parted(<<e \o <<c>>>>) /\ Joined(<<e \o <<c>>>>, Slash) = e \o <<c>>
        BY <3>5, PartedOne, JoinedOne
      <4> QED
        BY <2>0, <4>2, <4>3
    <3>7. CASE f # <<>>
      <4>1. Parted(f)
        BY <3>3, <3>4, <3>7 DEF Parted
      <4>2. u = Joined(f, Slash) \o (Slash \o e)
        BY <2>1, <3>2, <3>7, JoinedNext
      <4>3. Joined(Append(f, e \o <<c>>), Slash) = Joined(f, Slash) \o (Slash \o (e \o <<c>>))
        BY <3>5, <3>7, JoinedNext
      <4>4. Parted(Append(f, e \o <<c>>))
        BY <3>5, <4>1, PartedNext
      <4>5. Joined(f, Slash) \o (Slash \o (e \o <<c>>)) = u \o <<c>>
        <5>1. PICK a \in Seq(Tokens), b \in Seq(Tokens), x \in Seq(Tokens), y \in Seq(Tokens) :
                a = Joined(f, Slash) /\ b = Slash /\ x = e /\ y = <<c>>
          BY <2>0, JoinedIs, SlashIs DEF Texts
        <5>2. b \o (x \o y) = (b \o x) \o y /\ b \o x \in Seq(Tokens)
          BY Associative, Concatenated
        <5>4. PICK z \in Seq(Tokens) : z = b \o x
          BY <5>2
        <5>3. a \o (z \o y) = (a \o z) \o y
          BY Associative
        <5>5. u = a \o z /\ Joined(f, Slash) \o (Slash \o (e \o <<c>>)) = a \o (b \o (x \o y))
          BY <4>2, <5>1, <5>4
        <5> QED
          BY <5>1, <5>2, <5>3, <5>4, <5>5
      <4> QED
        BY <2>0, <4>3, <4>4, <4>5
    <3> QED
      BY <3>6, <3>7
  <2> QED
    BY <2>2, <2>3
<1>3. T = Texts
  <2> HIDE DEF T
  <2>1. T \in SUBSET Seq(Tokens)
    BY DEF T, Texts
  <2>2. T = Seq(Tokens)
    BY <1>1, <1>2, <2>1, AppendInduction
  <2> QED
    BY <2>2 DEF Texts
<1>4. PICK q : Parted(q) /\ Joined(q, Slash) = s
  BY <1>3
<1>5. Segments(s) = q
  BY <1>4, SegmentsOfJoined
<1> QED
  BY <1>4, <1>5

\* Two rows of texts, joined, have a slash between them.
LEMMA JoinedBoth ==
    ASSUME NEW a \in Seq(Texts), a # <<>>, NEW b \in Seq(Texts), b # <<>>
    PROVE  /\ a \o b \in Seq(Texts) /\ a \o b # <<>>
           /\ Joined(a \o b, Slash) = Joined(a, Slash) \o (Slash \o Joined(b, Slash))
<1> DEFINE Good(q) == a \o q \in Seq(Texts) /\ a \o q # <<>>
                      /\ Joined(a \o q, Slash) = Joined(a, Slash) \o (Slash \o Joined(q, Slash))
           T == {q \in Seq(Texts) : q # <<>> => Good(q)}
<1>1. <<>> \in T
  OBVIOUS
<1>2. ASSUME NEW q \in T, NEW t \in Texts PROVE Append(q, t) \in T
  <2>0. q \in Seq(Texts) /\ Append(q, t) \in Seq(Texts)
    BY AppendProperties
  <2> SUFFICES Good(Append(q, t))
    BY <2>0
  <2>1. a \o Append(q, t) = Append(a \o q, t) /\ a \o q \in Seq(Texts) /\ a \o q # <<>>
    <3>1. a \o q \in Seq(Texts) /\ Len(a \o q) = Len(a) + Len(q) /\ Len(a) \in Nat /\ Len(a) # 0 /\ Len(q) \in Nat
      BY <2>0, Concatenated, EmptySeq, ElementOf
    <3>2. a \o q # <<>>
      BY <3>1, EmptySeq
    <3>3. Append(a \o q, t) = (a \o q) \o <<t>>
      BY <3>1, AppendJoined
    <3>4. a \o Append(q, t) = (a \o q) \o <<t>>
      BY <2>0, AppendJoined
    <3> QED
      BY <3>1, <3>2, <3>3, <3>4
  <2>2. /\ Append(a \o q, t) \in Seq(Texts) /\ Append(a \o q, t) # <<>>
        /\ Joined(Append(a \o q, t), Slash) = Joined(a \o q, Slash) \o (Slash \o t)
    BY <2>1, JoinedNext, AppendProperties
  <2>3. CASE q = <<>>
    <3>1. Append(q, t) = <<t>> /\ a \o q = a
      BY <2>3, NothingBehind
    <3>2. Joined(<<t>>, Slash) = t
      BY JoinedOne
    <3> QED
      BY <2>1, <2>2, <3>1, <3>2
  <2>4. CASE q # <<>>
    <3>1. Joined(a \o q, Slash) = Joined(a, Slash) \o (Slash \o Joined(q, Slash))
      BY <2>4
    <3>2. Joined(Append(q, t), Slash) = Joined(q, Slash) \o (Slash \o t)
      BY <2>0, <2>4, JoinedNext
    <3>3. PICK A \in Texts, B \in Texts, C \in Texts, D \in Texts :
            A = Joined(a, Slash) /\ B = Slash /\ C = Joined(q, Slash) /\ D = Slash \o t
      <4>1. Slash \o t \in Texts
        BY SlashIs, Joins
      <4> QED
        BY <2>0, <4>1, JoinedIs, SlashIs
    <3>5. PICK x : x = A \o (B \o C)
      OBVIOUS
    <3>6. PICK y : y = C \o D
      OBVIOUS
    <3>7. x \o D = A \o (B \o y)
      <4>1. PICK e \in Texts : e = B \o C
        BY Joins
      <4>2. A \o (e \o D) = (A \o e) \o D
        BY JoinsThree
      <4>3. B \o (C \o D) = (B \o C) \o D
        BY JoinsThree
      <4> QED
        BY <3>5, <3>6, <4>1, <4>2, <4>3
    <3>8. /\ Joined(a \o q, Slash) = x
          /\ Joined(Append(q, t), Slash) = y
          /\ Joined(Append(a \o q, t), Slash) = Joined(a \o q, Slash) \o D
      BY <2>2, <3>1, <3>2, <3>3, <3>5, <3>6
    <3> QED
      BY <2>1, <2>2, <3>3, <3>7, <3>8
  <2> QED
    BY <2>3, <2>4
<1>3. T = Seq(Texts)
  <2> HIDE DEF T
  <2>1. T \in SUBSET Seq(Texts)
    BY DEF T
  <2> QED
    BY <1>1, <1>2, <2>1, AppendInduction
<1>4. b \in T
  BY <1>3
<1> QED
  BY <1>4

\* A slash splits the segments of a text.
LEMMA SegmentsSplit ==
    ASSUME NEW s \in Texts, NEW t \in Texts
    PROVE  Segments(s \o (Slash \o t)) = Segments(s) \o Segments(t)
<1>1. Parted(Segments(s)) /\ Parted(Segments(t))
      /\ Joined(Segments(s), Slash) = s /\ Joined(Segments(t), Slash) = t
  BY TextIsJoined
<1> DEFINE a == Segments(s)
           b == Segments(t)
<1>2. a \in Seq(Texts) /\ a # <<>> /\ b \in Seq(Texts) /\ b # <<>>
  BY <1>1 DEF Parted
<1>3. a \o b \in Seq(Texts) /\ a \o b # <<>> /\ Joined(a \o b, Slash) = s \o (Slash \o t)
  BY <1>1, <1>2, JoinedBoth
<1>4. \A k \in DOMAIN a : Slashless(a[k])
  BY <1>1 DEF Parted
<1>5. \A k \in DOMAIN b : Slashless(b[k])
  BY <1>1 DEF Parted
<1> HIDE DEF a, b
<1>6. Parted(a \o b)
  <2>1. /\ Len(a) \in Nat /\ Len(b) \in Nat /\ Len(a \o b) = Len(a) + Len(b)
        /\ DOMAIN a = 1 .. Len(a) /\ DOMAIN b = 1 .. Len(b) /\ DOMAIN (a \o b) = 1 .. Len(a) + Len(b)
    BY <1>2, <1>3, ElementOf, Concatenated
  <2>2. \A k \in 1 .. Len(a) + Len(b) : (a \o b)[k] = IF k <= Len(a) THEN a[k] ELSE b[k - Len(a)]
    BY <1>2, ConcatProperties
  <2>3. \A k \in 1 .. Len(a) + Len(b) : IF k <= Len(a) THEN k \in 1 .. Len(a) ELSE k - Len(a) \in 1 .. Len(b)
    BY <2>1
  <2>4. \A k \in 1 .. Len(a) + Len(b) : Slashless((a \o b)[k])
    BY <1>4, <1>5, <2>1, <2>2, <2>3
  <2> QED
    BY <1>3, <2>1, <2>4 DEF Parted
<1>7. Segments(Joined(a \o b, Slash)) = a \o b
  BY <1>6, SegmentsOfJoined
<1> QED
  BY <1>3, <1>7 DEF a, b

-----------------------------------------------------------------------------
\* Recursive functions of bounded length.

Iterates(f, a, g, n) == DOMAIN f = 0 .. n /\ f[0] = a /\ \A k \in 1 .. n : f[k] = g[<<k, f[k - 1]>>]

\* Such a function exists, for every step and every length.
LEMMA IterationExists ==
    ASSUME NEW X, NEW a \in X, NEW n \in Nat, NEW g \in [(1 .. n) \X X -> X]
    PROVE  \E f \in [0 .. n -> X] : Iterates(f, a, g, n)
<1> DEFINE T == {m \in Nat : m <= n => \E f \in [0 .. m -> X] : Iterates(f, a, g, m)}
<1>1. 0 \in T
  <2>1. [k \in 0 .. 0 |-> a] \in [0 .. 0 -> X] /\ Iterates([k \in 0 .. 0 |-> a], a, g, 0)
    BY DEF Iterates
  <2> QED
    BY <2>1
<1>2. ASSUME NEW m \in T PROVE m + 1 \in T
  <2> SUFFICES ASSUME m + 1 <= n PROVE \E f \in [0 .. m + 1 -> X] : Iterates(f, a, g, m + 1)
    OBVIOUS
  <2>1. m \in Nat /\ m + 1 \in 1 .. n
    OBVIOUS
  <2>2. PICK f \in [0 .. m -> X] : Iterates(f, a, g, m)
    BY <2>1
  <2>3. f[m] \in X
    BY <2>1
  <2>4. PICK e \in X : e = g[<<m + 1, f[m]>>]
    BY <2>1, <2>3
  <2> DEFINE h == [k \in 0 .. m + 1 |-> IF k = m + 1 THEN e ELSE f[k]]
  <2>5. h \in [0 .. m + 1 -> X]
    <3>1. \A k \in 0 .. m + 1 : k # m + 1 => k \in 0 .. m
      BY <2>1
    <3> QED
      BY <2>4, <3>1
  <2>6. h[m + 1] = e /\ h[0] = a /\ \A k \in 0 .. m : h[k] = f[k]
    <3>1. m + 1 \in 0 .. m + 1 /\ 0 \in 0 .. m + 1 /\ 0 # m + 1 /\ f[0] = a
      BY <2>1, <2>2 DEF Iterates
    <3>2. \A k \in 0 .. m : k \in 0 .. m + 1 /\ k # m + 1
      BY <2>1
    <3> QED
      BY <3>1, <3>2
  <2>7. DOMAIN h = 0 .. m + 1
    OBVIOUS
  <2> HIDE DEF h
  <2>8. ASSUME NEW k \in 1 .. m + 1 PROVE h[k] = g[<<k, h[k - 1]>>]
    <3>1. CASE k = m + 1
      <4>1. k - 1 = m /\ m \in 0 .. m
        BY <2>1, <3>1
      <4>2. h[k - 1] = f[m]
        BY <2>6, <4>1
      <4> QED
        BY <2>4, <2>6, <3>1, <4>2
    <3>2. CASE k # m + 1
      <4>1. k \in 1 .. m /\ k \in 0 .. m /\ k - 1 \in 0 .. m
        BY <2>1, <3>2
      <4>2. f[k] = g[<<k, f[k - 1]>>]
        BY <2>2, <4>1 DEF Iterates
      <4>3. h[k] = f[k] /\ h[k - 1] = f[k - 1]
        BY <2>6, <4>1
      <4> QED
        BY <4>2, <4>3
    <3> QED
      BY <3>1, <3>2
  <2> QED
    BY <2>5, <2>6, <2>7, <2>8 DEF Iterates
<1>3. n \in T
  <2> HIDE DEF T
  <2>1. T \in SUBSET Nat
    BY DEF T
  <2> QED
    BY <1>1, <1>2, <2>1, SetInduction
<1> QED
  BY <1>3

-----------------------------------------------------------------------------
\* path.Clean.

CleanStep(x, seg) ==
    CASE seg \in {<<>>, <<".">>}          -> x
      [] seg = <<"..">> /\ x = <<>>       -> <<>>
      [] seg = <<"..">> /\ x # <<>>       -> Front(x)
      [] OTHER                            -> Append(x, seg)
CleanFrom(segs, d) ==
    /\ DOMAIN d = 0 .. Len(segs) /\ d[0] = <<>>
    /\ \A k \in 1 .. Len(segs) : d[k] = CleanStep(d[k - 1], segs[k])

\* What is left after each segment, and with it Clean, follows the steps.
LEMMA CleanIs ==
    ASSUME NEW segs \in Seq(Texts)
    PROVE  \E d \in [0 .. Len(segs) -> Seq(Texts)] :
             /\ CleanFrom(segs, d)
             /\ Clean(segs) = IF Last(segs) = <<>> THEN Append(d[Len(segs)], <<>>) ELSE d[Len(segs)]
<1> DEFINE n == Len(segs)
           X == Seq(Texts)
           Is(d) == d = [k \in 0 .. Len(segs) |->
                           IF k = 0 THEN <<>>
                           ELSE CASE segs[k] \in {<<>>, <<".">>}               -> d[k - 1]
                                  [] segs[k] = <<"..">> /\ d[k - 1] = <<>>     -> <<>>
                                  [] segs[k] = <<"..">> /\ d[k - 1] # <<>>     -> Front(d[k - 1])
                                  [] OTHER                                     -> Append(d[k - 1], segs[k])]
           c == CHOOSE d : Is(d)
           g == [p \in (1 .. n) \X X |-> CleanStep(p[2], segs[p[1]])]
<1>1. n \in Nat /\ \A k \in 1 .. n : segs[k] \in Texts
  BY ElementOf
<1>2. ASSUME NEW x \in X, NEW t \in Texts PROVE CleanStep(x, t) \in X
  <2>1. <<>> \in X /\ Append(x, t) \in X
    BY AppendProperties
  <2>2. ASSUME x # <<>> PROVE Front(x) \in X
    <3>1. Len(x) \in Nat /\ Len(x) # 0
      BY <2>2, ElementOf, EmptySeq
    <3>2. PICK m \in Nat : Len(x) = m + 1
      <4>1. Len(x) - 1 \in Nat /\ Len(x) = (Len(x) - 1) + 1
        BY <3>1
      <4> QED
        BY <4>1
    <3> QED
      BY <3>2, FrontAndLast
  <2> QED
    BY <2>1, <2>2 DEF CleanStep
<1>3. g \in [(1 .. n) \X X -> X]
  <2>1. ASSUME NEW p \in (1 .. n) \X X PROVE CleanStep(p[2], segs[p[1]]) \in X
    <3>1. p[1] \in 1 .. n /\ p[2] \in X
      OBVIOUS
    <3> HIDE DEF X
    <3> QED
      BY <1>1, <1>2, <3>1
  <2> HIDE DEF X
  <2> QED
    BY <2>1
<1>4. PICK f \in [0 .. n -> X] : Iterates(f, <<>>, g, n)
  <2>1. <<>> \in X
    OBVIOUS
  <2> HIDE DEF X, n, g
  <2> QED
    BY <1>1, <1>3, <2>1, IterationExists
<1>5. CleanFrom(segs, f)
  <2>1. ASSUME NEW k \in 1 .. n PROVE f[k] = CleanStep(f[k - 1], segs[k])
    <3>1. k - 1 \in 0 .. n
      BY <1>1
    <3>2. f[k - 1] \in X /\ <<k, f[k - 1]>> \in (1 .. n) \X X
      BY <3>1
    <3>3. g[<<k, f[k - 1]>>] = CleanStep(f[k - 1], segs[k])
      <4> HIDE DEF X
      <4> QED
        BY <3>2
    <3> QED
      BY <1>4, <3>3 DEF Iterates
  <2> QED
    BY <1>4, <2>1 DEF CleanFrom, Iterates
<1>6. Is(f)
  <2>1. \A k \in 1 .. n : f[k] = CleanStep(f[k - 1], segs[k])
    BY <1>5 DEF CleanFrom
  <2>2. f = [k \in 0 .. n |-> f[k]] /\ f[0] = <<>>
    BY <1>5 DEF CleanFrom
  <2>3. \A k \in 0 .. n : k # 0 => k \in 1 .. n
    BY <1>1
  <2> QED
    BY <2>1, <2>2, <2>3 DEF CleanStep
<1>7. Is(c)
  BY <1>6
<1>8. Clean(segs) = IF Last(segs) = <<>> THEN Append(c[n], <<>>) ELSE c[n]
  BY DEF Clean
<1>9. c = f
  <2> HIDE DEF c
  <2>1. DOMAIN c = 0 .. n /\ c[0] = <<>> /\ \A k \in 1 .. n : c[k] = CleanStep(c[k - 1], segs[k])
    <3>1. Is(c)
      BY <1>7
    <3>2. DOMAIN c = 0 .. n
      BY <3>1
    <3>3. c[0] = <<>>
      <4>1. 0 \in 0 .. n
        BY <1>1
      <4> QED
        BY <3>1, <4>1
    <3>4. ASSUME NEW k \in 1 .. n PROVE c[k] = CleanStep(c[k - 1], segs[k])
      <4>1. k \in 0 .. n /\ k # 0
        BY <1>1
      <4> QED
        BY <3>1, <4>1 DEF CleanStep
    <3> QED
      BY <3>2, <3>3, <3>4
  <2> DEFINE T == {m \in Nat : m <= n => c[m] = f[m]}
  <2>2. 0 \in T
    BY <1>5, <2>1 DEF CleanFrom
  <2>3. ASSUME NEW m \in T PROVE m + 1 \in T
    <3> SUFFICES ASSUME m + 1 <= n PROVE c[m + 1] = f[m + 1]
      OBVIOUS
    <3>1. m + 1 \in 1 .. n /\ (m + 1) - 1 = m /\ c[m] = f[m]
      OBVIOUS
    <3>2. c[m + 1] = CleanStep(c[(m + 1) - 1], segs[m + 1])
      BY <2>1, <3>1
    <3>3. f[m + 1] = CleanStep(f[(m + 1) - 1], segs[m + 1])
      BY <1>5, <3>1 DEF CleanFrom
    <3> QED
      BY <3>1, <3>2, <3>3
  <2>4. T = Nat
    <3> HIDE DEF T
    <3>1. T \in SUBSET Nat
      BY DEF T
    <3> QED
      BY <2>2, <2>3, <3>1, SetInduction
  <2>5. \A k \in 0 .. n : c[k] = f[k]
    <3>1. \A k \in 0 .. n : k \in T /\ k <= n
      BY <1>1, <2>4
    <3> QED
      BY <3>1
  <2> HIDE DEF n
  <2>6. c = [k \in 0 .. n |-> c[k]] /\ f = [k \in 0 .. n |-> f[k]]
    BY <1>7, <2>1 DEF n
  <2> QED
    BY <2>5, <2>6
<1> QED
  BY <1>5, <1>8, <1>9

\* A path without an improper segment is clean.
LEMMA CleanStays ==
    ASSUME NEW segs \in Seq(Texts), segs # <<>>, \A k \in 1 .. Len(segs) : segs[k] \notin Improper
    PROVE  Clean(segs) = segs
<1> DEFINE n == Len(segs)
<1>1. n \in Nat \ {0} /\ \A k \in 1 .. n : segs[k] \in Texts
  BY ElementOf, EmptySeq
<1>2. PICK d \in [0 .. n -> Seq(Texts)] :
        /\ CleanFrom(segs, d)
        /\ Clean(segs) = IF Last(segs) = <<>> THEN Append(d[n], <<>>) ELSE d[n]
  BY CleanIs
<1>3. Last(segs) = segs[n] /\ segs[n] # <<>>
  <2>1. n \in 1 .. n
    BY <1>1
  <2> QED
    BY <2>1 DEF Last, Improper
<1> DEFINE T == {m \in Nat : m <= n => d[m] = Beginning(segs, m)}
<1>4. 0 \in T
  <2>1. Beginning(segs, 0) = <<>>
    <3>1. 0 \in Nat /\ 0 < Len(segs)
      BY <1>1
    <3> QED
      BY <3>1, BeginningAppend
  <2> QED
    BY <1>2, <2>1 DEF CleanFrom
<1>5. ASSUME NEW m \in T PROVE m + 1 \in T
  <2> SUFFICES ASSUME m + 1 <= n PROVE d[m + 1] = Beginning(segs, m + 1)
    OBVIOUS
  <2>1. m \in Nat /\ m + 1 \in 1 .. n /\ (m + 1) - 1 = m /\ m < Len(segs) /\ d[m] = Beginning(segs, m)
    OBVIOUS
  <2>2. d[m + 1] = CleanStep(d[(m + 1) - 1], segs[m + 1])
    BY <1>2, <2>1 DEF CleanFrom
  <2>3. segs[m + 1] \notin Improper
    BY <2>1
  <2>4. d[m + 1] = Append(d[m], segs[m + 1])
    BY <2>1, <2>2, <2>3 DEF CleanStep, Improper
  <2> QED
    BY <2>1, <2>4, BeginningAppend
<1>6. T = Nat
  <2> HIDE DEF T
  <2>1. T \in SUBSET Nat
    BY DEF T
  <2> QED
    BY <1>4, <1>5, <2>1, SetInduction
<1>7. d[n] = Beginning(segs, n)
  BY <1>1, <1>6
<1>8. Beginning(segs, Len(segs)) = segs
  <2>1. 0 \in Nat /\ 0 < Len(segs)
    BY <1>1
  <2> QED
    BY <2>1, BeginningAppend
<1> QED
  BY <1>2, <1>3, <1>7, <1>8

\* No step of cleaning adds more than a segment.
LEMMA CleanStepLength ==
    ASSUME NEW x \in Seq(Texts), NEW t \in Texts
    PROVE  /\ Len(x) \in Nat /\ Len(CleanStep(x, t)) \in Nat
           /\ Len(CleanStep(x, t)) <= Len(x) + 1
           /\ t = <<>> => CleanStep(x, t) = x
<1>1. Len(x) \in Nat /\ Len(Append(x, t)) = Len(x) + 1
  BY AppendProperties, ElementOf
<1>2. ASSUME x # <<>> PROVE Len(Front(x)) \in Nat /\ Len(Front(x)) <= Len(x)
  <2>1. Len(x) # 0
    BY <1>2, EmptySeq
  <2>2. PICK m \in Nat : Len(x) = m + 1
    <3>1. Len(x) - 1 \in Nat /\ Len(x) = (Len(x) - 1) + 1
      BY <1>1, <2>1
    <3> QED
      BY <3>1
  <2>3. Len(Front(x)) = m
    BY <2>2, FrontAndLast
  <2> QED
    BY <2>2, <2>3
<1>3. Len(<<>>) = 0
  OBVIOUS
<1>4. t = <<>> => CleanStep(x, t) = x
  BY DEF CleanStep
<1>5. \/ CleanStep(x, t) = x \/ CleanStep(x, t) = <<>> \/ (x # <<>> /\ CleanStep(x, t) = Front(x))
      \/ CleanStep(x, t) = Append(x, t)
  BY DEF CleanStep
<1> QED
  BY <1>1, <1>2, <1>3, <1>4, <1>5

\* Only the last segment of a clean path may be empty.
LEMMA CleanIsFull ==
    ASSUME NEW segs \in Seq(Texts), Clean(segs) = segs, NEW j \in 1 .. Len(segs), j # Len(segs)
    PROVE  segs[j] # <<>>
<1> SUFFICES ASSUME segs[j] = <<>> PROVE FALSE
  OBVIOUS
<1> DEFINE n == Len(segs)
<1>1. n \in Nat \ {0} /\ j \in Nat \ {0} /\ j < n /\ \A k \in 1 .. n : segs[k] \in Texts
  BY ElementOf
<1>2. PICK d \in [0 .. n -> Seq(Texts)] :
        /\ CleanFrom(segs, d)
        /\ Clean(segs) = IF Last(segs) = <<>> THEN Append(d[n], <<>>) ELSE d[n]
  BY CleanIs
<1>3. \A k \in 0 .. n : d[k] \in Seq(Texts) /\ Len(d[k]) \in Nat
  BY ElementOf
<1>4. \A k \in 1 .. n : k - 1 \in 0 .. n /\ d[k] = CleanStep(d[k - 1], segs[k])
  BY <1>1, <1>2 DEF CleanFrom
<1>5. \A k \in 1 .. n : Len(d[k]) <= Len(d[k - 1]) + 1 /\ (segs[k] = <<>> => d[k] = d[k - 1])
  BY <1>1, <1>3, <1>4, CleanStepLength
<1> DEFINE T == {m \in Nat : m <= n => Len(d[m]) <= m /\ (j <= m => Len(d[m]) <= m - 1)}
<1>6. 0 \in T
  <2>1. d[0] = <<>>
    BY <1>2 DEF CleanFrom
  <2> QED
    BY <1>1, <2>1
<1>7. ASSUME NEW m \in T PROVE m + 1 \in T
  <2> SUFFICES ASSUME m + 1 <= n
               PROVE  Len(d[m + 1]) <= m + 1 /\ (j <= m + 1 => Len(d[m + 1]) <= (m + 1) - 1)
    OBVIOUS
  <2>1. /\ m \in Nat /\ m + 1 \in 1 .. n /\ m + 1 \in 0 .. n /\ (m + 1) - 1 = m /\ m \in 0 .. n
        /\ Len(d[m]) <= m /\ (j <= m => Len(d[m]) <= m - 1)
    BY <1>1
  <2>2. /\ Len(d[m + 1]) <= Len(d[(m + 1) - 1]) + 1
        /\ segs[m + 1] = <<>> => d[m + 1] = d[(m + 1) - 1]
    BY <1>5, <2>1
  <2>3. Len(d[m + 1]) \in Nat /\ Len(d[m]) \in Nat
    BY <1>3, <2>1
  <2> HIDE DEF T, n
  <2>4. CASE j = m + 1
    <3>1. d[m + 1] = d[m]
      BY <2>1, <2>2, <2>4
    <3> QED
      BY <1>1, <2>1, <2>3, <2>4, <3>1
  <2>5. CASE j # m + 1
    <3>1. Len(d[m + 1]) <= Len(d[m]) + 1 /\ (j <= m + 1 => j <= m)
      BY <1>1, <2>1, <2>2, <2>5
    <3> QED
      BY <1>1, <2>1, <2>3, <3>1
  <2> QED
    BY <2>4, <2>5
<1>8. T = Nat
  <2> HIDE DEF T
  <2>1. T \in SUBSET Nat
    BY DEF T
  <2> QED
    BY <1>6, <1>7, <2>1, SetInduction
<1>9. /\ Len(d[n]) \in Nat /\ Len(d[n]) <= n - 1
      /\ n - 1 \in 1 .. n /\ Len(d[n - 1]) \in Nat /\ Len(d[n - 1]) <= (n - 1) - 1
  <2>1. n \in T /\ n - 1 \in T /\ n \in 0 .. n /\ n - 1 \in 0 .. n /\ n - 1 \in 1 .. n /\ j <= n - 1
    <3> HIDE DEF T, n
    <3>1. n \in Nat /\ n - 1 \in Nat /\ j <= n - 1 /\ n - 1 \in 1 .. n
      BY <1>1
    <3> QED
      BY <1>8, <3>1
  <2>2. Len(d[n]) \in Nat /\ Len(d[n - 1]) \in Nat
    BY <1>3, <2>1
  <2> QED
    BY <1>1, <2>1, <2>2
<1>10. CASE Last(segs) = <<>>
  <2>1. n \in 1 .. n /\ segs[n] = <<>>
    BY <1>1, <1>10 DEF Last
  <2>2. d[n] = d[n - 1] /\ d[n] \in Seq(Texts)
    BY <1>1, <1>3, <1>5, <2>1
  <2>3. <<>> \in Texts
    BY DEF Texts
  <2>4. Len(Append(d[n], <<>>)) = Len(d[n]) + 1
    BY <2>2, <2>3, AppendProperties
  <2>5. Len(segs) = Len(d[n]) + 1
    BY <1>2, <1>10, <2>4
  <2> QED
    BY <1>1, <1>9, <2>2, <2>5
<1>11. CASE Last(segs) # <<>>
  <2>1. segs = d[n]
    BY <1>2, <1>11
  <2> QED
    BY <1>1, <1>9, <2>1
<1> QED
  BY <1>10, <1>11

-----------------------------------------------------------------------------
\* Texts whose segments a path can carry.

Carried(s) == \A k \in DOMAIN Segments(s) : Segments(s)[k] \notin Improper

\* With a slash between them two texts can be carried when each can.
LEMMA CarriedJoined ==
    ASSUME NEW s \in Texts, NEW t \in Texts
    PROVE  Carried(s \o (Slash \o t)) <=> Carried(s) /\ Carried(t)
<1> DEFINE a == Segments(s)
           b == Segments(t)
<1>1. a \in Seq(Texts) /\ b \in Seq(Texts)
  BY SegmentsAre
<1>2. Segments(s \o (Slash \o t)) = a \o b
  BY SegmentsSplit
<1> HIDE DEF a, b
<1>3. a \o b \in Seq(Texts) /\ Range(a \o b) = Range(a) \cup Range(b)
  BY <1>1, Concatenated, RangeJoined
<1>4. \A q : q \in Seq(Texts) => ((\A k \in DOMAIN q : q[k] \notin Improper) <=> (\A x \in Range(q) : x \notin Improper))
  BY DEF Range
<1> QED
  BY <1>1, <1>2, <1>3, <1>4 DEF Carried, a, b

\* A text without a slash can be carried unless it is improper.
LEMMA CarriedOne ==
    ASSUME NEW s \in Texts
    PROVE  /\ Slashless(s) => (Carried(s) <=> s \notin Improper)
           /\ Carried(s) => s \notin Improper
<1>1. ASSUME Slashless(s) PROVE Carried(s) <=> s \notin Improper
  <2>1. Segments(s) = <<s>>
    BY <1>1, OneSegmentOf
  <2>2. DOMAIN <<s>> = {1} /\ <<s>>[1] = s
    OBVIOUS
  <2> QED
    BY <2>1, <2>2 DEF Carried
<1>2. ASSUME s \in Improper PROVE Slashless(s)
  <2>1. "." # "/" /\ ".." # "/"
    OBVIOUS
  <2>2. DOMAIN <<>> = {} /\ DOMAIN <<".">> = {1} /\ DOMAIN <<"..">> = {1} /\ <<".">>[1] = "." /\ <<"..">>[1] = ".."
    OBVIOUS
  <2> QED
    BY <1>2, <2>1, <2>2 DEF Improper, Slashless
<1> QED
  BY <1>1, <1>2

-----------------------------------------------------------------------------
\* Escaping.

\* No escaped token is a slash, and none but a dot is a dot.
LEMMA TokensEscaped ==
    ASSUME NEW client, NEW t \in Tokens
    PROVE  LET e == EscapeToken(client, t)
           IN /\ e \in Tokens /\ UnescapeToken(t) \in Tokens
              /\ e # "/" /\ (e = "." <=> t = ".") /\ (e = ".." <=> t = "..")
<1>1. Encoded(t) \in Tokens /\ UnescapeToken(t) \in Tokens
  BY DEF Tokens, Encoded, UnescapeToken
<1>2. Encoded(t) # "/" /\ (Encoded(t) = "." <=> t = ".") /\ (Encoded(t) = ".." <=> t = "..")
  BY DEF Encoded
<1>3. "/" \notin LeftAlone(client) /\ "." \notin LeftAlone(client) /\ ".." \notin LeftAlone(client)
  BY DEF LeftAlone
<1> QED
  BY <1>1, <1>2, <1>3, Zenon DEF EscapeToken

\* Escaping keeps the length of a text and its dots, and its slashes only where
\* several segments may be; unescaping undoes it for a plain text.
LEMMA EscapedIs ==
    ASSUME NEW client, NEW v \in Texts, NEW multi \in BOOLEAN, NEW e, e = escapePathVar(client, v, multi)
    PROVE  /\ e \in Texts /\ Len(e) = Len(v) /\ Len(v) \in Nat
           /\ \A k \in 1 .. Len(v) : e[k] = "." <=> v[k] = "."
           /\ \A k \in 1 .. Len(v) : e[k] = ".." <=> v[k] = ".."
           /\ ~multi => Slashless(e)
           /\ multi => \A k \in 1 .. Len(v) : e[k] = "/" <=> v[k] = "/"
           /\ Plain(v) => Unescape(e) = v
<1>1. v \in Seq(Tokens) /\ DOMAIN v = 1 .. Len(v) /\ Len(v) \in Nat /\ \A k \in 1 .. Len(v) : v[k] \in Tokens
  BY ElementOf DEF Texts
<1>2. e = [k \in 1 .. Len(v) |-> IF multi /\ v[k] = "/" THEN "/" ELSE EscapeToken(client, v[k])]
  BY <1>1 DEF escapePathVar
<1>3. \A k \in 1 .. Len(v) : /\ EscapeToken(client, v[k]) \in Tokens /\ EscapeToken(client, v[k]) # "/"
                             /\ (EscapeToken(client, v[k]) = "." <=> v[k] = ".")
                             /\ (EscapeToken(client, v[k]) = ".." <=> v[k] = "..")
  BY <1>1, TokensEscaped
<1>4. "/" \in Tokens
  BY DEF Tokens
<1>5. e \in [1 .. Len(v) -> Tokens]
  BY <1>2, <1>3, <1>4
<1>6. PICK n \in Nat : n = Len(v)
  BY <1>1
<1>7. e \in Seq(Tokens) /\ Len(e) = n
  BY <1>5, <1>6
<1>8. Plain(v) => Unescape(e) = v
  BY <1>1, EscapeRoundTrip
<1> QED
  BY <1>1, <1>2, <1>3, <1>6, <1>7, <1>8 DEF Texts, Slashless

\* It stays a text, in one segment unless it may be in several.
LEMMA EscapedText ==
    ASSUME NEW client, NEW v \in Texts, NEW multi \in BOOLEAN
    PROVE  escapePathVar(client, v, multi) \in Texts /\ (~multi => Slashless(escapePathVar(client, v, multi)))
<1>1. PICK e : e = escapePathVar(client, v, multi)
  OBVIOUS
<1>2. e \in Texts /\ (~multi => Slashless(e))
  BY <1>1, EscapedIs
<1> QED
  BY <1>1, <1>2

\* The server reads what was escaped.
LEMMA EscapedBack ==
    ASSUME NEW client, NEW v \in Texts, Plain(v), NEW multi \in BOOLEAN
    PROVE  Unescape(escapePathVar(client, v, multi)) = v
<1>1. v \in Seq(Tokens)
  BY DEF Texts
<1> QED
  BY <1>1, EscapeRoundTrip, Zenon

\* A segment is improper when it was before it was escaped.
LEMMA ImproperEscaped ==
    ASSUME NEW client, NEW v \in Texts, NEW multi \in BOOLEAN
    PROVE  escapePathVar(client, v, multi) \in Improper <=> v \in Improper
<1> DEFINE e == escapePathVar(client, v, multi)
<1>1. /\ e \in Texts /\ Len(e) = Len(v) /\ Len(v) \in Nat
      /\ \A k \in 1 .. Len(v) : (e[k] = "." <=> v[k] = ".") /\ (e[k] = ".." <=> v[k] = "..")
  BY EscapedIs
<1> HIDE DEF e
<1>2. ASSUME NEW t \in Texts
      PROVE  t \in Improper <=> Len(t) = 0 \/ (Len(t) = 1 /\ t[1] \in {".", ".."})
  <2>1. t \in Seq(Tokens)
    BY DEF Texts
  <2>2. Len(t) = 0 <=> t = <<>>
    BY <2>1, EmptySeq
  <2>3. Len(t) = 1 => t = <<t[1]>>
    BY <2>1
  <2> QED
    BY <2>2, <2>3 DEF Improper
<1>3. Len(v) = 1 => (e[1] \in {".", ".."} <=> v[1] \in {".", ".."})
  <2>1. Len(v) = 1 => 1 \in 1 .. Len(v)
    BY <1>1
  <2> QED
    BY <1>1, <2>1
<1> QED
  BY <1>1, <1>2, <1>3 DEF e

\* A rest-of-path value is escaped segment by segment.
LEMMA SegmentsEscaped ==
    ASSUME NEW client, NEW v \in Texts, NEW e, e = escapePathVar(client, v, TRUE)
    PROVE  /\ Len(Segments(e)) = Len(Segments(v)) /\ Segments(v) \in Seq(Texts) /\ Segments(e) \in Seq(Texts)
           /\ \A j \in 1 .. Len(Segments(v)) : Segments(e)[j] = escapePathVar(client, Segments(v)[j], TRUE)
           /\ Carried(e) <=> Carried(v)
<1>1. /\ e \in Texts /\ Len(e) = Len(v) /\ Len(v) \in Nat
      /\ \A k \in 1 .. Len(v) : e[k] = "/" <=> v[k] = "/"
  <2>1. v \in Seq(Tokens) /\ DOMAIN v = 1 .. Len(v) /\ Len(v) \in Nat /\ \A k \in 1 .. Len(v) : v[k] \in Tokens
    BY ElementOf DEF Texts
  <2>2. e = [k \in 1 .. Len(v) |-> IF v[k] = "/" THEN "/" ELSE EscapeToken(client, v[k])]
    BY <2>1 DEF escapePathVar
  <2>3. \A k \in 1 .. Len(v) : EscapeToken(client, v[k]) \in Tokens /\ EscapeToken(client, v[k]) # "/"
    BY <2>1, TokensEscaped
  <2>4. "/" \in Tokens
    BY DEF Tokens
  <2>5. e \in [1 .. Len(v) -> Tokens]
    BY <2>2, <2>3, <2>4
  <2>6. PICK n \in Nat : n = Len(v)
    BY <2>1
  <2>7. e \in Seq(Tokens) /\ Len(e) = n
    <3>1. PICK f : f = e
      OBVIOUS
    <3>2. f \in [1 .. n -> Tokens]
      BY <2>5, <2>6, <3>1, Zenon
    <3>3. f \in Seq(Tokens) /\ Len(f) = n
      BY ONLY n \in Nat, <3>2
    <3> QED
      BY <3>1, <3>3
  <2> QED
    BY <2>1, <2>2, <2>3, <2>6, <2>7 DEF Texts
<1>2. DOMAIN e = 1 .. Len(v) /\ DOMAIN v = 1 .. Len(v) /\ \A k \in 1 .. Len(v) : v[k] \in Tokens
  <2>1. e \in Seq(Tokens) /\ v \in Seq(Tokens)
    BY <1>1 DEF Texts
  <2> QED
    BY <1>1, <2>1, ElementOf
<1>3. Inner(e) = Inner(v)
  <2>1. \A k : k \in Inner(e) <=> k \in Inner(v)
    BY <1>1, <1>2 DEF Inner
  <2> QED
    BY <2>1
<1>4. PICK n : n = Len(Ascending(Inner(v)))
  OBVIOUS
<1>5. /\ n \in Nat \ {0}
      /\ Segments(v) = [j \in 1 .. n |-> SubSeq(v, CutAt(v, j) + 1, CutAt(v, j + 1) - 1)]
      /\ \A j \in 1 .. n : CutAt(v, j) \in 0 .. Len(v) /\ CutAt(v, j + 1) \in 1 .. Len(v) + 1
      /\ Segments(v) \in Seq(Texts) /\ Len(Segments(v)) = n
  BY <1>4, SegmentsAre
<1>6. /\ Segments(e) = [j \in 1 .. n |-> SubSeq(e, CutAt(e, j) + 1, CutAt(e, j + 1) - 1)]
      /\ Segments(e) \in Seq(Texts) /\ Len(Segments(e)) = n
  BY <1>1, <1>3, <1>4, SegmentsAre
<1>7. \A j : CutAt(e, j) = CutAt(v, j)
  BY <1>1, <1>3 DEF CutAt
<1>8. ASSUME NEW a \in Nat \ {0}, NEW b \in Int, b <= Len(v)
      PROVE  SubSeq(e, a, b) = escapePathVar(client, SubSeq(v, a, b), TRUE)
  <2>1. /\ SubSeq(v, a, b) = [i \in 1 .. b - a + 1 |-> v[a + i - 1]]
        /\ SubSeq(e, a, b) = [i \in 1 .. b - a + 1 |-> e[a + i - 1]]
    BY <1>8
  <2>2. ASSUME NEW i \in 1 .. b - a + 1
        PROVE  e[a + i - 1] = IF TRUE /\ v[a + i - 1] = "/" THEN "/" ELSE EscapeToken(client, v[a + i - 1])
    <3>1. a + i - 1 \in 1 .. Len(v)
      BY <1>1, <1>8
    <3> QED
      BY <1>2, <3>1 DEF escapePathVar
  <2> QED
    BY <2>1, <2>2 DEF escapePathVar
<1>9. ASSUME NEW j \in 1 .. n PROVE Segments(e)[j] = escapePathVar(client, Segments(v)[j], TRUE)
  <2>1. PICK a \in Nat \ {0}, b \in Int : a = CutAt(v, j) + 1 /\ b = CutAt(v, j + 1) - 1 /\ b <= Len(v)
    <3>0. PICK x, y : x = CutAt(v, j) /\ y = CutAt(v, j + 1)
      OBVIOUS
    <3>2. x \in 0 .. Len(v) /\ y \in 1 .. Len(v) + 1
      BY <1>5, <3>0
    <3>3. x + 1 \in Nat \ {0} /\ y - 1 \in Int /\ y - 1 <= Len(v)
      BY <1>1, <3>2
    <3>1. CutAt(v, j) + 1 \in Nat \ {0} /\ CutAt(v, j + 1) - 1 \in Int /\ CutAt(v, j + 1) - 1 <= Len(v)
      BY <3>0, <3>3
    <3> QED
      BY <3>1
  <2>2. Segments(v)[j] = SubSeq(v, a, b) /\ Segments(e)[j] = SubSeq(e, a, b)
    BY <1>5, <1>6, <1>7, <2>1
  <2> QED
    BY <1>8, <2>1, <2>2
<1>10. Carried(e) <=> Carried(v)
  <2>1. \A j \in 1 .. n : Segments(v)[j] \in Texts
    BY <1>5, ElementOf
  <2>2. \A j \in 1 .. n : Segments(e)[j] \in Improper <=> Segments(v)[j] \in Improper
    <3>1. ASSUME NEW j \in 1 .. n PROVE Segments(e)[j] \in Improper <=> Segments(v)[j] \in Improper
      <4>1. PICK x \in Texts : x = Segments(v)[j]
        BY <2>1
      <4>2. TRUE \in BOOLEAN
        OBVIOUS
      <4>3. escapePathVar(client, x, TRUE) \in Improper <=> x \in Improper
        BY <4>2, ImproperEscaped, Zenon
      <4> QED
        BY <1>9, <4>1, <4>3
    <3> QED
      BY <3>1
  <2> QED
    BY <1>5, <1>6, <2>2 DEF Carried
<1> QED
  BY <1>5, <1>6, <1>9, <1>10

-----------------------------------------------------------------------------
\* A verb at the end.

\* A text and one token more.
LEMMA OneMore ==
    ASSUME NEW v \in Texts, NEW w \in Tokens
    PROVE  /\ v \o <<w>> \in Texts /\ v \o <<w>> = Append(v, w) /\ Len(v \o <<w>>) = Len(v) + 1 /\ Len(v) \in Nat
           /\ (v \o <<w>>)[Len(v) + 1] = w /\ \A k \in 1 .. Len(v) : (v \o <<w>>)[k] = v[k]
           /\ DOMAIN (v \o <<w>>) = 1 .. Len(v) + 1
           /\ <<w>> \in Texts
<1>1. v \in Seq(Tokens) /\ <<w>> \in Seq(Tokens)
  BY OneOf DEF Texts
<1>2. v \o <<w>> \in Seq(Tokens) /\ v \o <<w>> = Append(v, w)
  BY <1>1, Concatenated, AppendJoined
<1>3. /\ Len(Append(v, w)) = Len(v) + 1 /\ Len(v) \in Nat
      /\ Append(v, w)[Len(v) + 1] = w /\ \A k \in 1 .. Len(v) : Append(v, w)[k] = v[k]
  BY <1>1, AppendProperties, ElementOf
<1>4. DOMAIN (v \o <<w>>) = 1 .. Len(v) + 1
  BY <1>2, <1>3, ElementOf
<1> QED
  BY <1>1, <1>2, <1>3, <1>4 DEF Texts

\* A text ends in another when it is that text with something ahead of it.
LEMMA SuffixIs ==
    ASSUME NEW x \in Texts, NEW v \in Texts
    PROVE  IsSuffix(x, v) <=> \E u \in Texts : v = u \o x
<1>1. PICK n \in Nat, m \in Nat : n = Len(x) /\ m = Len(v)
  BY ElementOf DEF Texts
<1>2. x \in Seq(Tokens) /\ v \in Seq(Tokens)
  BY DEF Texts
<1>3. PICK r, q : r = Reverse(x) /\ q = Reverse(v)
  OBVIOUS
<1>4. /\ r = [i \in 1 .. n |-> x[(n - i) + 1]] /\ Len(r) = n
      /\ q = [i \in 1 .. m |-> v[(m - i) + 1]] /\ Len(q) = m
  BY <1>1, <1>2, <1>3 DEF Reverse
<1>5. IsSuffix(x, v) <=> n <= m /\ \A i \in 1 .. n : r[i] = q[i]
  <2>1. IsSuffix(x, v) <=> n <= m /\ SubSeq(r, 1, n) = SubSeq(q, 1, n)
    BY <1>3, <1>4 DEF IsSuffix, IsPrefix
  <2>2. SubSeq(r, 1, n) = [i \in 1 .. n |-> r[i]] /\ SubSeq(q, 1, n) = [i \in 1 .. n |-> q[i]]
    <3>1. /\ SubSeq(r, 1, n) = [i \in 1 .. n - 1 + 1 |-> r[1 + i - 1]]
          /\ SubSeq(q, 1, n) = [i \in 1 .. n - 1 + 1 |-> q[1 + i - 1]]
      OBVIOUS
    <3>2. n - 1 + 1 = n /\ \A i \in 1 .. n : 1 + i - 1 = i
      OBVIOUS
    <3> QED
      BY <3>1, <3>2
  <2> QED
    BY <2>1, <2>2
<1>6. n <= m => ((\A i \in 1 .. n : r[i] = q[i]) <=> \A j \in 1 .. n : x[j] = v[m - n + j])
  <2> SUFFICES ASSUME n <= m
               PROVE  (\A i \in 1 .. n : r[i] = q[i]) <=> \A j \in 1 .. n : x[j] = v[m - n + j]
    OBVIOUS
  <2>1. \A i \in 1 .. n : r[i] = x[(n - i) + 1] /\ q[i] = v[(m - i) + 1]
    BY <1>4
  <2>2. ASSUME \A i \in 1 .. n : r[i] = q[i], NEW j \in 1 .. n PROVE x[j] = v[m - n + j]
    <3>1. PICK i \in 1 .. n : i = (n - j) + 1
      OBVIOUS
    <3>2. (n - i) + 1 = j /\ (m - i) + 1 = m - n + j
      BY <3>1
    <3> QED
      BY <2>1, <2>2, <3>2
  <2>3. ASSUME \A j \in 1 .. n : x[j] = v[m - n + j], NEW i \in 1 .. n PROVE r[i] = q[i]
    <3>1. PICK j \in 1 .. n : j = (n - i) + 1
      OBVIOUS
    <3>2. m - n + j = (m - i) + 1
      BY <3>1
    <3> QED
      BY <2>1, <2>3, <3>1, <3>2
  <2> QED
    BY <2>2, <2>3
<1>7. ASSUME n <= m, \A j \in 1 .. n : x[j] = v[m - n + j]
      PROVE  \E u \in Texts : v = u \o x
  <2>1. PICK d \in Nat : d = m - n
    BY <1>7
  <2>2. PICK u : u = [i \in 1 .. d |-> v[i]]
    OBVIOUS
  <2>3. u \in Seq(Tokens) /\ Len(u) = d /\ \A i \in 1 .. d : u[i] = v[i]
    <3>1. \A i \in 1 .. d : v[i] \in Tokens
      BY <1>1, <1>2, <1>7, <2>1
    <3>2. u \in [1 .. d -> Tokens]
      BY <2>2, <3>1
    <3> QED
      BY <2>2, <3>2
  <2>4. /\ u \o x \in Seq(Tokens) /\ Len(u \o x) = d + n
        /\ \A i \in 1 .. d : (u \o x)[i] = u[i]
        /\ \A j \in 1 .. n : (u \o x)[d + j] = x[j]
    <3>1. /\ u \o x \in Seq(Tokens) /\ Len(u \o x) = Len(u) + Len(x)
          /\ \A i \in 1 .. Len(u) : (u \o x)[i] = u[i]
          /\ \A j \in 1 .. Len(x) : (u \o x)[Len(u) + j] = x[j]
      <4>1. u \o x \in Seq(Tokens) /\ Len(u \o x) = Len(u) + Len(x)
        BY <1>2, <2>3, Concatenated, Zenon
      <4>2. /\ \A i \in 1 .. Len(u) : (u \o x)[i] = u[i]
            /\ \A j \in 1 .. Len(x) : (u \o x)[Len(u) + j] = x[j]
        BY <1>2, <2>3, <4>1
      <4> QED
        BY <4>1, <4>2
    <3> QED
      BY <1>1, <2>3, <3>1, Zenon
  <2>5. ASSUME NEW i \in 1 .. m PROVE (u \o x)[i] = v[i]
    <3>1. CASE i <= d
      BY <2>3, <2>4, <3>1
    <3>2. CASE ~(i <= d)
      <4>1. PICK j \in 1 .. n : i = d + j
        <5>1. i - d \in 1 .. n /\ i = d + (i - d)
          BY <2>1, <3>2
        <5> QED
          BY <5>1
      <4>2. m - n + j = i
        BY <2>1, <4>1
      <4> QED
        BY <1>7, <2>4, <4>1, <4>2
    <3> QED
      BY <3>1, <3>2
  <2>6. d + n = m
    BY <2>1
  <2>7. u \o x = v
    BY <1>1, <1>2, <2>4, <2>5, <2>6, SeqEqual
  <2> QED
    BY <2>3, <2>7 DEF Texts
<1>8. ASSUME NEW u \in Texts, v = u \o x
      PROVE  n <= m /\ \A j \in 1 .. n : x[j] = v[m - n + j]
  <2>1. u \in Seq(Tokens) /\ Len(u) \in Nat
    BY ElementOf DEF Texts
  <2>2. m = Len(u) + n /\ \A j \in 1 .. n : v[Len(u) + j] = x[j]
    BY <1>1, <1>2, <1>8, <2>1, Concatenated, JoinedAt
  <2>3. n <= m /\ \A j \in 1 .. n : m - n + j = Len(u) + j
    BY <2>1, <2>2
  <2> QED
    BY <2>2, <2>3
<1> QED
  BY <1>5, <1>6, <1>7, <1>8

\* What is put behind a text is trimmed.
LEMMA VerbTrimmed ==
    ASSUME NEW v \in Texts, NEW w \in Texts
    PROVE  TrimSuffix(v \o w, w) = v /\ IsSuffix(w, v \o w) /\ v \o w \in Texts
<1>1. v \in Seq(Tokens) /\ w \in Seq(Tokens) /\ Len(v) \in Nat /\ Len(w) \in Nat
  BY ElementOf DEF Texts
<1>2. v \o w \in Seq(Tokens) /\ Len(v \o w) = Len(v) + Len(w)
  BY <1>1, Concatenated
<1>3. IsSuffix(w, v \o w)
  <2>1. v \o w \in Texts
    BY <1>2 DEF Texts
  <2>2. PICK z \in Texts : z = v \o w
    BY <2>1
  <2> QED
    BY <2>2, SuffixIs
<1>4. (Len(v) + Len(w)) - Len(w) = Len(v)
  BY <1>1
<1>5. SubSeq(v \o w, 1, Len(v)) = SubSeq(v, 1, Len(v)) /\ SubSeq(v, 1, Len(v)) = v
  <2>1. 1 \in Nat \ {0} /\ Len(v) <= Len(v)
    BY <1>1
  <2> QED
    BY <1>1, <2>1, SubSeqAhead, SubSeqFull
<1> QED
  BY <1>2, <1>3, <1>4, <1>5 DEF TrimSuffix, Texts

\* No verb leaves the text as it is.
LEMMA NothingTrimmed ==
    ASSUME NEW v \in Texts
    PROVE  TrimSuffix(v, <<>>) = v
<1>1. v \in Seq(Tokens) /\ Len(v) \in Nat
  BY ElementOf DEF Texts
<1>2. SubSeq(v, 1, Len(v) - Len(<<>>)) = v
  <2>1. Len(v) - Len(<<>>) = Len(v)
    BY <1>1
  <2> QED
    BY <1>1, <2>1, SubSeqFull
<1> QED
  BY <1>2 DEF TrimSuffix

\* The text of a custom verb.
VerbText(v) == \E w \in Tokens : Word(w) /\ v = <<":", w>>

\* It is a text of two tokens that no slash is in and unescaping leaves alone.
LEMMA VerbTextIs ==
    ASSUME NEW v
    PROVE  /\ VerbText(v) => v \in Texts /\ Len(v) = 2 /\ v # <<>> /\ Slashless(v) /\ Unescape(v) = v
           /\ v = <<>> => v \in Texts /\ Slashless(v) /\ Unescape(v) = v
<1>1. ASSUME VerbText(v)
      PROVE  v \in Texts /\ Len(v) = 2 /\ v # <<>> /\ Slashless(v) /\ Unescape(v) = v
  <2>1. PICK w \in Tokens : Word(w) /\ v = <<":", w>>
    BY <1>1 DEF VerbText
  <2>2. ":" \in Tokens /\ ":" # "/" /\ w # "/" /\ UnescapeToken(":") = ":" /\ UnescapeToken(w) = w
    BY <2>1 DEF Tokens, Word, UnescapeToken
  <2>3. v \in Seq(Tokens) /\ Len(v) = 2 /\ DOMAIN v = {1, 2} /\ v[1] = ":" /\ v[2] = w
    BY <2>1, <2>2
  <2>4. Unescape(v) = [k \in {1, 2} |-> UnescapeToken(v[k])]
    BY <2>3 DEF Unescape
  <2>5. Unescape(v) = [k \in {1, 2} |-> v[k]]
    BY <2>2, <2>3, <2>4
  <2>6. v = [k \in {1, 2} |-> v[k]]
    BY <2>3
  <2>7. v # <<>>
    <3>1. v = <<>> <=> Len(v) = 0
      BY <2>3, EmptySeq
    <3> QED
      BY <2>3, <3>1
  <2> QED
    BY <2>2, <2>3, <2>5, <2>6, <2>7 DEF Texts, Slashless
<1>2. ASSUME v = <<>> PROVE v \in Texts /\ Slashless(v) /\ Unescape(v) = v
  <2>1. DOMAIN <<>> = {}
    OBVIOUS
  <2>2. Unescape(<<>>) = <<>>
    BY DEF Unescape
  <2> QED
    BY <1>2, <2>1, <2>2 DEF Texts, Slashless
<1> QED
  BY <1>1, <1>2

\* No slash is in what two texts without make.
LEMMA SlashlessBoth ==
    ASSUME NEW e \in Texts, NEW v \in Texts, Slashless(e), Slashless(v)
    PROVE  e \o v \in Texts /\ Slashless(e \o v)
<1>1. e \in Seq(Tokens) /\ v \in Seq(Tokens) /\ DOMAIN e = 1 .. Len(e) /\ DOMAIN v = 1 .. Len(v)
      /\ Len(e) \in Nat /\ Len(v) \in Nat
  BY ElementOf DEF Texts
<1>2. /\ e \o v \in Seq(Tokens) /\ Len(e \o v) = Len(e) + Len(v)
      /\ \A k \in 1 .. Len(e) : (e \o v)[k] = e[k]
      /\ \A k \in 1 .. Len(v) : (e \o v)[Len(e) + k] = v[k]
  BY <1>1, Concatenated, JoinedAt
<1>3. PICK n \in Nat, m \in Nat : n = Len(e) /\ m = Len(v)
  BY <1>1
<1>4. PICK z : z = e \o v
  OBVIOUS
<1>5. z \in Seq(Tokens) /\ DOMAIN z = 1 .. n + m
  BY <1>2, <1>3, <1>4, ElementOf
<1>6. \A k \in 1 .. n : z[k] # "/"
  BY <1>1, <1>2, <1>3, <1>4 DEF Slashless
<1>7. \A k \in 1 .. m : z[n + k] # "/"
  BY <1>1, <1>2, <1>3, <1>4 DEF Slashless
<1>8. \A k \in 1 .. n + m : k \in 1 .. n \/ (k - n \in 1 .. m /\ n + (k - n) = k)
  OBVIOUS
<1>9. \A k \in 1 .. n + m : z[k] # "/"
  BY <1>6, <1>7, <1>8
<1> QED
  BY <1>4, <1>5, <1>9 DEF Slashless, Texts

\* The last segment ends in what no slash is in.
LEMMA SegmentsEnd ==
    ASSUME NEW s \in Texts, NEW v \in Texts, Slashless(v)
    PROVE  \E f \in Seq(Texts), e \in Texts :
             Slashless(e) /\ Segments(s) = Append(f, e) /\ Segments(s \o v) = Append(f, e \o v)
<1>1. PICK q : Parted(q) /\ q = Segments(s) /\ Joined(q, Slash) = s
  BY TextIsJoined
<1>2. PICK f \in Seq(Texts), e \in Texts : q = Append(f, e)
  <2>1. q \in Seq(Texts) /\ q # <<>>
    BY <1>1 DEF Parted
  <2> QED
    BY <2>1, SequenceEmptyOrAppend, Zenon
<1>3. /\ Len(f) \in Nat /\ DOMAIN q = 1 .. Len(f) + 1 /\ q[Len(f) + 1] = e
      /\ \A k \in 1 .. Len(f) : q[k] = f[k]
      /\ DOMAIN f = 1 .. Len(f)
  <2>1. q \in Seq(Texts)
    BY <1>1 DEF Parted
  <2> QED
    BY <1>2, <2>1, AppendProperties, ElementOf
<1>4. Slashless(e) /\ \A k \in 1 .. Len(f) : Slashless(f[k])
  <2>1. \A k \in 1 .. Len(f) : k \in 1 .. Len(f) + 1
    BY <1>3
  <2>2. Len(f) + 1 \in 1 .. Len(f) + 1
    BY <1>3
  <2> QED
    BY <1>1, <1>3, <2>1, <2>2 DEF Parted
<1>5. e \o v \in Texts /\ Slashless(e \o v)
  BY <1>4, SlashlessBoth
<1>6. Segments(s \o v) = Append(f, e \o v)
  <2>1. CASE f = <<>>
    <3>1. q = <<e>> /\ Append(f, e \o v) = <<e \o v>>
      BY <1>2, <2>1
    <3>2. s = e
      BY <1>1, <3>1, JoinedOne
    <3> QED
      BY <1>5, <3>1, <3>2, OneSegmentOf
  <2>2. CASE f # <<>>
    <3>1. Parted(f)
      BY <1>3, <1>4, <2>2 DEF Parted
    <3>2. PICK j \in Texts : j = Joined(f, Slash) /\ Segments(j) = f
      BY <3>1, JoinedIs, SegmentsOfJoined
    <3>3. s = j \o (Slash \o e)
      BY <1>1, <1>2, <2>2, <3>2, JoinedNext
    <3>4. PICK x \in Texts : x = v
      OBVIOUS
    <3>5. PICK y \in Texts : y = Slash \o e
      BY SlashIs, Joins
    <3>6. j \o (y \o x) = (j \o y) \o x
      BY JoinsThree
    <3>7. Slash \o (e \o x) = (Slash \o e) \o x
      BY SlashIs, JoinsThree
    <3>8. s \o v = j \o (Slash \o (e \o v))
      BY <3>3, <3>4, <3>5, <3>6, <3>7
    <3> QED
      BY <1>5, <3>2, <3>8, SegmentBehind
  <2> QED
    BY <2>1, <2>2
<1> QED
  BY <1>1, <1>2, <1>4, <1>6

\* A text that can be carried can be with a verb behind it.
LEMMA CarriedVerb ==
    ASSUME NEW s \in Texts, NEW v, VerbText(v), Carried(s)
    PROVE  Carried(s \o v)
<1>1. PICK f \in Seq(Texts), e \in Texts :
        Segments(s) = Append(f, e) /\ Segments(s \o v) = Append(f, e \o v)
  BY VerbTextIs, SegmentsEnd
<1>2. /\ Len(f) \in Nat /\ DOMAIN Append(f, e) = 1 .. Len(f) + 1
      /\ \A k \in 1 .. Len(f) : Append(f, e)[k] = f[k]
  BY AppendProperties, ElementOf
<1>3. e \o v \in Texts /\ Len(e \o v) = Len(e) + 2 /\ Len(e) \in Nat
  <2>1. v \in Seq(Tokens) /\ Len(v) = 2 /\ e \in Seq(Tokens) /\ Len(e) \in Nat
    BY VerbTextIs, ElementOf DEF Texts
  <2>2. e \o v \in Seq(Tokens) /\ Len(e \o v) = Len(e) + Len(v)
    BY <2>1, Concatenated
  <2> QED
    BY <2>1, <2>2, Zenon DEF Texts
<1>4. /\ DOMAIN Append(f, e \o v) = 1 .. Len(f) + 1 /\ Append(f, e \o v)[Len(f) + 1] = e \o v
      /\ \A k \in 1 .. Len(f) : Append(f, e \o v)[k] = f[k]
  BY <1>3, AppendProperties, ElementOf
<1>5. e \o v \notin Improper
  <2>1. Len(<<>>) = 0 /\ Len(<<".">>) = 1 /\ Len(<<"..">>) = 1
    OBVIOUS
  <2>2. PICK z : z = e \o v
    OBVIOUS
  <2>3. Len(z) # 0 /\ Len(z) # 1
    BY <1>3, <2>2
  <2> QED
    BY <2>1, <2>2, <2>3 DEF Improper
<1>6. \A k \in 1 .. Len(f) + 1 : k \in 1 .. Len(f) \/ k = Len(f) + 1
  BY <1>2
<1>7. \A k \in 1 .. Len(f) : k \in 1 .. Len(f) + 1
  BY <1>2
<1> QED
  BY <1>1, <1>2, <1>4, <1>5, <1>6, <1>7 DEF Carried

-----------------------------------------------------------------------------
\* Cutting a text at separators.

\* What follows the beginning of a concatenation.
LEMMA SubSeqFrom ==
    ASSUME NEW S, NEW a \in Seq(S), NEW b \in Seq(S), NEW m \in Nat \ {0}, m <= Len(a) + 1
    PROVE  /\ SubSeq(a \o b, m, Len(a \o b)) = SubSeq(a, m, Len(a)) \o b
           /\ SubSeq(a, m, Len(a)) \in Seq(S)
<1>1. Len(a) \in Nat
  BY LenProperties
<1>2. PICK x, y : x = SubSeq(a, 1, m - 1) /\ y = SubSeq(a, m, Len(a))
  OBVIOUS
<1>3. x \in Seq(S) /\ Len(x) = m - 1
  <2>1. \A i \in 1 .. m - 1 : a[i] \in S
    <3>1. \A i \in 1 .. m - 1 : i \in 1 .. Len(a)
      BY <1>1
    <3> QED
      BY <3>1, ElementOf
  <2>2. PICK n \in Nat : n = m - 1
    BY <1>1
  <2>3. \A i \in 1 .. n : a[i] \in S
    BY <2>1, <2>2
  <2>4. /\ SubSeq(a, 1, n) \in Seq(S)
        /\ Len(SubSeq(a, 1, n)) = IF 1 <= n THEN n - 1 + 1 ELSE 0
    BY <2>3, SubSeqProperties
  <2> QED
    BY <1>2, <2>2, <2>4
<1>4. y \in Seq(S)
  <2>1. \A i \in m .. Len(a) : a[i] \in S
    <3>1. \A i \in m .. Len(a) : i \in 1 .. Len(a)
      BY <1>1
    <3> QED
      BY <3>1, ElementOf
  <2> QED
    BY <1>1, <1>2, <2>1, SubSeqProperties
<1>5. x \o y = a
  <2>1. PICK n \in Nat : n = m - 1
    BY <1>1
  <2>2. 1 \in 1 .. Len(a) + 1 /\ n \in 1 - 1 .. Len(a) /\ Len(a) \in n .. Len(a) /\ n + 1 = m
    BY <1>1, <2>1
  <2>3. SubSeq(a, 1, n) \o SubSeq(a, n + 1, Len(a)) = SubSeq(a, 1, Len(a))
    BY <2>2, ConcatAdjacentSubSeq
  <2> QED
    BY <1>2, <2>1, <2>2, <2>3, SubSeqFull
<1>6. PICK z \in Seq(S) : z = y \o b
  BY <1>4, Concatenated
<1>7. a \o b = x \o z
  <2>1. x \o (y \o b) = (x \o y) \o b
    BY <1>3, <1>4, Associative
  <2> QED
    BY <1>5, <1>6, <2>1
<1>8. SubSeq(x \o z, Len(x) + 1, Len(x \o z)) = z
  BY <1>3, SubSeqBehind
<1>9. Len(x) + 1 = m
  BY <1>3
<1> QED
  BY <1>2, <1>4, <1>6, <1>7, <1>8, <1>9

\* The provers see through a concatenation; for chains of them it has a name
\* that they do not.
Cat(s, t) == s \o t

\* Concatenation of texts is associative and has no effect on nothing.
LEMMA Cats ==
    /\ \A a, b \in Texts : Cat(a, b) \in Texts
    /\ \A a \in Texts : Cat(a, <<>>) = a /\ Cat(<<>>, a) = a
    /\ \A a, b, c \in Texts : Cat(a, Cat(b, c)) = Cat(Cat(a, b), c)
    /\ <<>> \in Texts
<1>1. ASSUME NEW a \in Texts, NEW b \in Texts PROVE Cat(a, b) \in Texts
  BY Joins DEF Cat
<1>2. ASSUME NEW a \in Texts PROVE Cat(a, <<>>) = a /\ Cat(<<>>, a) = a
  BY NothingAhead, NothingBehind DEF Texts, Cat
<1>3. ASSUME NEW a \in Texts, NEW b \in Texts, NEW c \in Texts
      PROVE  Cat(a, Cat(b, c)) = Cat(Cat(a, b), c)
  BY JoinsThree DEF Cat
<1>4. <<>> \in Texts
  BY DEF Texts
<1> QED
  BY <1>1, <1>2, <1>3, <1>4

\* A separator that stands in a text is found there or before.
LEMMA CutWithin ==
    ASSUME NEW x \in Texts, NEW sep \in Texts, sep # <<>>, NEW w \in Texts,
           NEW t, t = Cat(x, Cat(sep, w))
    PROVE  /\ t \in Texts /\ Occurs(t, sep)
           /\ Before(t, sep) \in Texts /\ After(t, sep) \in Texts
           /\ t = Cat(Before(t, sep), Cat(sep, After(t, sep)))
           /\ \E u \in Texts : After(t, sep) = Cat(u, w)
           /\ x = <<>> => Before(t, sep) = <<>> /\ After(t, sep) = w
<1> DEFINE n == Len(x)
           l == Len(sep)
<1>1. /\ x \in Seq(Tokens) /\ sep \in Seq(Tokens) /\ w \in Seq(Tokens)
      /\ n \in Nat /\ l \in Nat \ {0} /\ Len(w) \in Nat
  BY ElementOf, EmptySeq DEF Texts
<1>2. PICK a \in Seq(Tokens), b \in Seq(Tokens) : a = x \o sep /\ b = sep \o w
  BY <1>1, Concatenated
<1>3. /\ t = x \o b /\ t = a \o w /\ t \in Seq(Tokens)
      /\ Len(t) = n + l + Len(w) /\ Len(a) = n + l
  <2>1. t = x \o b
    BY <1>2 DEF Cat
  <2> QED
    BY <1>1, <1>2, <2>1, Concatenated, Associative
<1>4. OccursAt(t, sep, n + 1) /\ n + 1 \in 1 .. Len(t)
  <2>1. (n + 1) + l - 1 = n + l
    BY <1>1
  <2>2. SubSeq(t, n + 1, n + l) = SubSeq(a, n + 1, n + l)
    <3>1. PICK i \in Nat \ {0}, j \in Nat : i = n + 1 /\ j = n + l /\ j <= Len(a)
      <4> HIDE DEF n, l
      <4>1. n + 1 \in Nat \ {0} /\ n + l \in Nat /\ n + l <= Len(a)
        BY <1>1, <1>3
      <4> QED
        BY <4>1
    <3> QED
      BY <1>1, <1>3, <3>1, SubSeqAhead
  <2>3. SubSeq(a, n + 1, n + l) = sep
    <3>1. SubSeq(x \o sep, Len(x) + 1, Len(x \o sep)) = sep
      BY <1>1, SubSeqBehind
    <3> QED
      BY <1>2, <1>3, <3>1
  <2> HIDE DEF n, l
  <2>4. n + l <= Len(t) /\ n + 1 \in 1 .. Len(t)
    BY <1>1, <1>3
  <2> QED
    BY <2>1, <2>2, <2>3, <2>4 DEF OccursAt, l
<1>5. Occurs(t, sep)
  BY <1>4 DEF Occurs
<1>6. PICK k : /\ k = FirstAt(t, sep) /\ k \in 1 .. Len(t) /\ OccursAt(t, sep, k)
               /\ \A h \in 1 .. k - 1 : ~OccursAt(t, sep, h)
  BY <1>3, <1>5, FirstOccurrence
<1>7. k <= n + 1 /\ k \in Nat /\ k >= 1
  <2> HIDE DEF n, l
  <2>1. k \in Nat /\ k >= 1
    BY <1>1, <1>3, <1>6
  <2> SUFFICES ASSUME ~(k <= n + 1) PROVE FALSE
    BY <2>1
  <2>2. n + 1 \in 1 .. k - 1
    BY <1>1, <2>1
  <2> QED
    BY <1>4, <1>6, <2>2
<1>8. /\ Before(t, sep) \in Seq(Tokens) /\ After(t, sep) \in Seq(Tokens)
      /\ Before(t, sep) \o sep \o After(t, sep) = t
  BY <1>1, <1>3, <1>5, <1>6, CutIsExact
<1>9. t = Before(t, sep) \o (sep \o After(t, sep))
  <2>1. PICK p \in Seq(Tokens), q \in Seq(Tokens) : p = Before(t, sep) /\ q = After(t, sep)
    BY <1>8
  <2>2. p \o (sep \o q) = (p \o sep) \o q
    <3>1. p \in Texts /\ q \in Texts
      BY <2>1 DEF Texts
    <3> HIDE DEF n, l
    <3> QED
      BY ONLY <3>1, sep \in Texts, JoinsThree
  <2> QED
    BY <1>8, <2>1, <2>2
<1>10. /\ After(t, sep) = SubSeq(a, k + l, Len(a)) \o w /\ SubSeq(a, k + l, Len(a)) \in Seq(Tokens)
       /\ k = n + 1 => SubSeq(a, k + l, Len(a)) = <<>>
  <2>1. PICK m \in Nat \ {0} : m = k + l /\ m <= Len(a) + 1
    BY <1>1, <1>3, <1>7
  <2>2. SubSeq(a \o w, m, Len(a \o w)) = SubSeq(a, m, Len(a)) \o w /\ SubSeq(a, m, Len(a)) \in Seq(Tokens)
    <3>1. a \in Seq(Tokens) /\ w \in Seq(Tokens) /\ m \in Nat \ {0} /\ m <= Len(a) + 1
      BY <1>1, <2>1
    <3> HIDE DEF n, l
    <3> QED
      BY ONLY <3>1, SubSeqFrom
  <2>3. After(t, sep) = SubSeq(t, m, Len(t))
    BY <1>6, <2>1 DEF After
  <2>4. k = n + 1 => m = Len(a) + 1
    BY <1>1, <1>3, <2>1
  <2>5. SubSeq(a, Len(a) + 1, Len(a)) = <<>>
    BY <1>1, <1>3, SubSeqEmpty
  <2> QED
    BY <1>3, <2>1, <2>2, <2>3, <2>4, <2>5
<1>11. ASSUME x = <<>> PROVE Before(t, sep) = <<>> /\ After(t, sep) = w
  <2>1. n = 0 /\ k = 1
    <3>1. Len(<<>>) = 0
      OBVIOUS
    <3> QED
      BY <1>7, <1>11, <3>1
  <2>2. Before(t, sep) = SubSeq(t, 1, 0)
    <3>1. 1 - 1 = 0
      OBVIOUS
    <3> QED
      BY <1>6, <2>1, <3>1 DEF Before
  <2>3. SubSeq(t, 1, 0) = <<>>
    BY <1>3, SubSeqEmpty
  <2>4. <<>> \o w = w
    BY <1>1, NothingAhead
  <2>5. k = n + 1
    BY <2>1
  <2>6. After(t, sep) = <<>> \o w
    BY <1>10, <2>5
  <2> QED
    BY <2>2, <2>3, <2>4, <2>6
<1>12. t = Cat(Before(t, sep), Cat(sep, After(t, sep)))
  BY <1>9 DEF Cat
<1>13. \E u \in Texts : After(t, sep) = Cat(u, w)
  BY <1>10 DEF Texts, Cat
<1>14. t \in Texts /\ Before(t, sep) \in Texts /\ After(t, sep) \in Texts
  BY <1>3, <1>8 DEF Texts
<1> QED
  BY <1>5, <1>11, <1>12, <1>13, <1>14

\* TypeScript's replace takes the prefix off where it stands in front.
LEMMA FirstTextRemoved ==
    ASSUME NEW p \in Texts, NEW s \in Texts
    PROVE  RemoveFirstText(p \o s, p) = s
<1>1. p \o s \in Texts /\ <<>> \in Texts
  BY Joins DEF Texts
<1>2. CASE p = <<>>
  <2>1. p \o s = s
    BY <1>2, NothingAhead DEF Texts
  <2>2. CASE Occurs(s, <<>>)
    <3>1. s \in Seq(Tokens) /\ Len(s) \in Nat
      BY ElementOf DEF Texts
    <3>2. PICK k : /\ k = FirstAt(s, <<>>) /\ k \in 1 .. Len(s)
                   /\ \A h \in 1 .. k - 1 : ~OccursAt(s, <<>>, h)
      BY <2>2, <3>1, FirstOccurrence
    <3>3. OccursAt(s, <<>>, 1)
      <4>1. SubSeq(s, 1, 0) = <<>>
        BY <3>1, SubSeqEmpty
      <4>2. 1 + Len(<<>>) - 1 = 0
        OBVIOUS
      <4> QED
        BY <3>1, <4>1, <4>2 DEF OccursAt
    <3>4. k = 1
      <4>1. k # 1 => 1 \in 1 .. k - 1
        BY <3>1, <3>2
      <4> QED
        BY <3>2, <3>3, <4>1
    <3>5. Before(s, <<>>) = SubSeq(s, 1, 0) /\ After(s, <<>>) = SubSeq(s, 1, Len(s))
      <4>1. 1 - 1 = 0 /\ 1 + Len(<<>>) = 1
        OBVIOUS
      <4> QED
        BY <3>2, <3>4, <4>1 DEF Before, After
    <3>6. Before(s, <<>>) = <<>> /\ After(s, <<>>) = s
      BY <3>1, <3>5, SubSeqEmpty, SubSeqFull
    <3>7. <<>> \o s = s
      BY <3>1, NothingAhead
    <3> QED
      BY <1>2, <2>1, <2>2, <3>6, <3>7 DEF RemoveFirstText
  <2>3. CASE ~Occurs(s, <<>>)
    BY <1>2, <2>1, <2>3 DEF RemoveFirstText
  <2> QED
    BY <2>2, <2>3
<1>3. CASE p # <<>>
  <2>1. p \o s = <<>> \o (p \o s)
    BY <1>1, NothingAhead DEF Texts
  <2>2. Occurs(p \o s, p) /\ Before(p \o s, p) = <<>> /\ After(p \o s, p) = s
    <3>1. PICK x, t : x \in Texts /\ x = <<>> /\ t = Cat(x, Cat(p, s)) /\ t = p \o s
      BY <1>1, <2>1 DEF Cat
    <3>2. Occurs(t, p) /\ (x = <<>> => Before(t, p) = <<>> /\ After(t, p) = s)
      BY <1>3, <3>1, CutWithin
    <3> QED
      BY <3>1, <3>2
  <2>3. <<>> \o s = s
    BY NothingAhead DEF Texts
  <2> QED
    BY <2>2, <2>3 DEF RemoveFirstText
<1> QED
  BY <1>2, <1>3

\* What is left behind each cut.
SplitsOf(f, val, prefix, m, seps) ==
    /\ f[0] = TrimPrefix(val, prefix)
    /\ \A k \in 1 .. m : f[k] = IF Occurs(f[k - 1], seps[k]) THEN After(f[k - 1], seps[k]) ELSE <<>>
    /\ \A idx \in 0 .. m : split_multi_wildcard(val, prefix, seps, idx) =
         IF idx < m /\ Occurs(f[idx], seps[idx + 1]) THEN Before(f[idx], seps[idx + 1]) ELSE f[idx]

\* There is such a row of cuts.
LEMMA SplitIs ==
    ASSUME NEW val \in Texts, NEW prefix \in Texts, NEW m \in Nat, NEW seps \in [1 .. m -> Texts]
    PROVE  \E f \in [0 .. m -> Texts] : SplitsOf(f, val, prefix, m, seps)
<1> DEFINE a == TrimPrefix(val, prefix)
           Cut(x, sep) == IF Occurs(x, sep) THEN After(x, sep) ELSE <<>>
           g == [p \in (1 .. m) \X Texts |-> Cut(p[2], seps[p[1]])]
<1>1. ASSUME NEW x \in Texts, NEW k \in Nat \ {0} PROVE SubSeq(x, k, Len(x)) \in Texts
  <2>1. x \in Seq(Tokens) /\ Len(x) \in Nat
    BY ElementOf DEF Texts
  <2>2. \A i \in k .. Len(x) : x[i] \in Tokens
    <3>1. \A i \in k .. Len(x) : i \in 1 .. Len(x)
      BY <2>1
    <3> QED
      BY <2>1, <3>1, ElementOf
  <2> QED
    BY <2>1, <2>2, SubSeqProperties DEF Texts
<1>2. a \in Texts
  <2>1. Len(prefix) + 1 \in Nat \ {0}
    <3>1. Len(prefix) \in Nat
      BY ElementOf DEF Texts
    <3> QED
      BY <3>1
  <2> QED
    BY <1>1, <2>1 DEF TrimPrefix
<1>3. ASSUME NEW x \in Texts, NEW sep \in Texts PROVE Cut(x, sep) \in Texts
  <2>1. <<>> \in Texts
    BY DEF Texts
  <2>2. ASSUME Occurs(x, sep) PROVE After(x, sep) \in Texts
    <3>1. FirstAt(x, sep) \in 1 .. Len(x) /\ Len(x) \in Nat /\ Len(sep) \in Nat
      BY <2>2, FirstOccurrence, ElementOf DEF Texts
    <3>2. FirstAt(x, sep) + Len(sep) \in Nat \ {0}
      BY <3>1
    <3> QED
      BY <1>1, <3>2 DEF After
  <2> QED
    BY <2>1, <2>2
<1>4. g \in [(1 .. m) \X Texts -> Texts]
  <2>1. ASSUME NEW p \in (1 .. m) \X Texts PROVE Cut(p[2], seps[p[1]]) \in Texts
    <3>1. p[1] \in 1 .. m /\ p[2] \in Texts
      OBVIOUS
    <3>2. seps[p[1]] \in Texts
      BY <3>1
    <3> QED
      BY <1>3, <3>1, <3>2
  <2> HIDE DEF Cut
  <2> QED
    BY <2>1
<1>5. PICK f \in [0 .. m -> Texts] : Iterates(f, a, g, m)
  <2> HIDE DEF g, a
  <2> QED
    BY <1>2, <1>4, IterationExists
<1>6. f[0] = a /\ \A k \in 1 .. m : f[k] = Cut(f[k - 1], seps[k])
  <2>1. ASSUME NEW k \in 1 .. m PROVE f[k] = Cut(f[k - 1], seps[k])
    <3>1. k - 1 \in 0 .. m
      OBVIOUS
    <3>2. <<k, f[k - 1]>> \in (1 .. m) \X Texts
      BY <3>1
    <3>3. g[<<k, f[k - 1]>>] = Cut(f[k - 1], seps[k])
      <4> HIDE DEF Cut
      <4> QED
        BY <3>2
    <3> QED
      BY <1>5, <3>3 DEF Iterates
  <2> QED
    BY <1>5, <2>1 DEF Iterates
<1> HIDE DEF g
<1>7. ASSUME NEW idx \in 0 .. m
      PROVE  split_multi_wildcard(val, prefix, seps, idx) =
               IF idx < m /\ Occurs(f[idx], seps[idx + 1]) THEN Before(f[idx], seps[idx + 1]) ELSE f[idx]
  <2> DEFINE Is(r) == r = [k \in 0 .. idx |->
                             IF k = 0 THEN TrimPrefix(val, prefix)
                             ELSE IF Occurs(r[k - 1], seps[k]) THEN After(r[k - 1], seps[k]) ELSE <<>>]
             c == CHOOSE r : Is(r)
  <2>1. idx \in Nat /\ idx <= m /\ Len(seps) = m
    OBVIOUS
  <2>2. split_multi_wildcard(val, prefix, seps, idx) =
          IF idx < m /\ Occurs(c[idx], seps[idx + 1]) THEN Before(c[idx], seps[idx + 1]) ELSE c[idx]
    BY <2>1 DEF split_multi_wildcard
  <2>3. PICK h : h = [k \in 0 .. idx |-> f[k]]
    OBVIOUS
  <2>4. Is(h)
    <3>1. DOMAIN h = 0 .. idx /\ \A k \in 0 .. idx : h[k] = f[k]
      BY <2>3
    <3>2. h[0] = a
      BY <1>6, <2>1, <3>1
    <3>3. ASSUME NEW k \in 0 .. idx, k # 0 PROVE h[k] = Cut(h[k - 1], seps[k])
      <4>1. k \in 1 .. m /\ k - 1 \in 0 .. idx
        BY <2>1, <3>3
      <4> QED
        BY <1>6, <3>1, <4>1
    <3>4. h = [k \in 0 .. idx |-> h[k]]
      BY <2>3
    <3> QED
      BY <3>2, <3>3, <3>4
  <2>5. Is(c)
    BY <2>4
  <2> HIDE DEF c
  <2>6. c[0] = a /\ \A k \in 1 .. idx : c[k] = Cut(c[k - 1], seps[k])
    <3>1. 0 \in 0 .. idx /\ \A k \in 1 .. idx : k \in 0 .. idx /\ k # 0
      BY <2>1
    <3> QED
      BY <2>5, <3>1
  <2> HIDE DEF Is, Cut
  <2> DEFINE T == {k \in Nat : k <= idx => c[k] = f[k]}
  <2>7. 0 \in T
    BY <1>6, <2>6
  <2>8. ASSUME NEW k \in T PROVE k + 1 \in T
    <3> SUFFICES ASSUME k + 1 <= idx PROVE c[k + 1] = f[k + 1]
      OBVIOUS
    <3>1. k + 1 \in 1 .. idx /\ k + 1 \in 1 .. m /\ (k + 1) - 1 = k /\ c[k] = f[k]
      BY <2>1
    <3>2. c[k + 1] = Cut(c[(k + 1) - 1], seps[k + 1])
      BY <2>6, <3>1
    <3>3. f[k + 1] = Cut(f[(k + 1) - 1], seps[k + 1])
      BY <1>6, <3>1
    <3> QED
      BY <3>1, <3>2, <3>3
  <2>9. T = Nat
    <3> HIDE DEF T
    <3>1. T \in SUBSET Nat
      BY DEF T
    <3> QED
      BY <2>7, <2>8, <3>1, SetInduction
  <2>10. c[idx] = f[idx]
    BY <2>1, <2>9
  <2> QED
    BY <2>2, <2>10
<1> QED
  BY <1>6, <1>7 DEF SplitsOf

\* What of a flattened row stands behind its first elements.
RestsOf(r, n, s, e) ==
    /\ r[n] = e /\ r[0] = Cat(FlattenSeq(s), e)
    /\ \A k \in 0 .. n - 1 : r[k] = Cat(s[k + 1], r[k + 1])

\* There are such rests of any row.
LEMMA FlattenRests ==
    ASSUME NEW n \in Nat, NEW s \in [1 .. n -> Texts], NEW e \in Texts
    PROVE  \E r \in [0 .. n -> Texts] : RestsOf(r, n, s, e)
<1> DEFINE Rests(r, m, q, x) == /\ r[m] = x /\ r[0] = Cat(FlattenSeq(q), x)
                                /\ \A k \in 0 .. m - 1 : r[k] = Cat(q[k + 1], r[k + 1])
           T == {m \in Nat : \A q \in [1 .. m -> Texts] : \A x \in Texts :
                               \E r \in [0 .. m -> Texts] : Rests(r, m, q, x)}
<1>1. 0 \in T
  <2> SUFFICES ASSUME NEW q \in [1 .. 0 -> Texts], NEW x \in Texts
               PROVE  \E r \in [0 .. 0 -> Texts] : Rests(r, 0, q, x)
    OBVIOUS
  <2>1. FlattenSeq(q) = <<>> /\ Cat(<<>>, x) = x
    BY FlattenEmpty, Cats
  <2>2. [k \in 0 .. 0 |-> x] \in [0 .. 0 -> Texts] /\ Rests([k \in 0 .. 0 |-> x], 0, q, x)
    BY <2>1
  <2> QED
    BY <2>2
<1>2. ASSUME NEW m \in T PROVE m + 1 \in T
  <2>1. m \in Nat /\ m + 1 \in Nat
    OBVIOUS
  <2> SUFFICES ASSUME NEW q \in [1 .. m + 1 -> Texts], NEW x \in Texts
               PROVE  \E r \in [0 .. m + 1 -> Texts] : Rests(r, m + 1, q, x)
    <3> HIDE DEF Rests
    <3> QED
      BY <2>1
  <2>2. PICK p \in [1 .. m -> Texts] : p = [i \in 1 .. m |-> q[i]]
    <3>1. \A i \in 1 .. m : i \in 1 .. m + 1
      BY <2>1
    <3> QED
      BY <3>1
  <2>3. q[m + 1] \in Texts /\ FlattenSeq(p) \in Texts
    <3>1. m + 1 \in 1 .. m + 1
      BY <2>1
    <3>2. p \in Seq(Seq(Tokens))
      BY <2>1, <2>2 DEF Texts
    <3> QED
      BY <3>1, <3>2, FlattenType DEF Texts
  <2>4. FlattenSeq(q) = Cat(FlattenSeq(p), q[m + 1])
    <3>1. q \in [1 .. m + 1 -> Seq(Tokens)]
      BY DEF Texts
    <3> QED
      BY <2>1, <2>2, <3>1, FlattenNext DEF Cat
  <2>5. PICK y \in Texts : y = Cat(q[m + 1], x)
    BY <2>3, Cats
  <2>6. PICK r \in [0 .. m -> Texts] : Rests(r, m, p, y)
    BY <2>1
  <2> DEFINE h == [k \in 0 .. m + 1 |-> IF k = m + 1 THEN x ELSE r[k]]
  <2>7. h \in [0 .. m + 1 -> Texts]
    <3>1. \A k \in 0 .. m + 1 : k # m + 1 => k \in 0 .. m
      BY <2>1
    <3> QED
      BY <3>1
  <2>8. h[m + 1] = x /\ \A k \in 0 .. m : h[k] = r[k]
    <3>1. m + 1 \in 0 .. m + 1 /\ \A k \in 0 .. m : k \in 0 .. m + 1 /\ k # m + 1
      BY <2>1
    <3> QED
      BY <3>1
  <2> HIDE DEF h
  <2>9. h[0] = Cat(FlattenSeq(q), x)
    <3>1. h[0] = Cat(FlattenSeq(p), y)
      BY <2>1, <2>6, <2>8
    <3> QED
      BY <2>3, <2>4, <2>5, <3>1, Cats
  <2>10. ASSUME NEW k \in 0 .. m PROVE h[k] = Cat(q[k + 1], h[k + 1])
    <3>1. CASE k = m
      BY <2>1, <2>5, <2>6, <2>8, <3>1
    <3>2. CASE k # m
      <4>1. k \in 0 .. m - 1 /\ k + 1 \in 0 .. m /\ k + 1 \in 1 .. m
        BY <2>1, <3>2
      <4>2. r[k] = Cat(p[k + 1], r[k + 1])
        BY <2>6, <4>1
      <4> QED
        BY <2>2, <2>8, <4>1, <4>2
    <3> QED
      BY <3>1, <3>2
  <2>11. (m + 1) - 1 = m
    BY <2>1
  <2>12. Rests(h, m + 1, q, x)
    BY <2>8, <2>9, <2>10, <2>11
  <2> QED
    BY <2>7, <2>12
<1>3. T = Nat
  <2> HIDE DEF T
  <2>1. T \in SUBSET Nat
    BY DEF T
  <2> QED
    BY <1>1, <1>2, <2>1, SetInduction
<1> QED
  BY <1>3 DEF RestsOf

\* Values with separators between them.
Interleaved(vals, seps) ==
    [j \in DOMAIN vals |-> IF j = 1 THEN vals[1] ELSE seps[j - 1] \o vals[j]]
SepAhead(seps, k) == IF k = 0 THEN <<>> ELSE seps[k]
FirstOnes(vals, seps, k) == FlattenSeq(Beginning(Interleaved(vals, seps), k))

Layered(vals, seps, c, m) ==
    /\ Interleaved(vals, seps) \in [1 .. c -> Texts]
    /\ \A k \in 0 .. m : Interleaved(vals, seps)[k + 1] = Cat(SepAhead(seps, k), vals[k + 1])
    /\ \A k \in 0 .. m : SepAhead(seps, k) \in Texts /\ vals[k + 1] \in Texts
    /\ \A k \in 0 .. c : FirstOnes(vals, seps, k) \in Texts
    /\ FirstOnes(vals, seps, 0) = <<>>
    /\ FirstOnes(vals, seps, c) = FlattenSeq(Interleaved(vals, seps))
    /\ \A k \in 0 .. m : FirstOnes(vals, seps, k + 1) =
                           Cat(FirstOnes(vals, seps, k), Cat(SepAhead(seps, k), vals[k + 1]))

\* Such a row is flattened value by value.
LEMMA InterleavedIs ==
    ASSUME NEW c \in Nat \ {0}, NEW vals \in [1 .. c -> Texts], NEW m, m = c - 1, NEW seps \in [1 .. m -> Texts]
    PROVE  Layered(vals, seps, c, m)
<1> DEFINE i == Interleaved(vals, seps)
<1>1. ASSUME NEW k \in 0 .. m PROVE SepAhead(seps, k) \in Texts /\ vals[k + 1] \in Texts
  <2>1. k + 1 \in 1 .. c /\ (k # 0 => k \in 1 .. m)
    OBVIOUS
  <2> QED
    BY <2>1, Cats DEF SepAhead
<1>2. ASSUME NEW k \in 0 .. m PROVE i[k + 1] = Cat(SepAhead(seps, k), vals[k + 1])
  <2>1. k + 1 \in 1 .. c /\ k + 1 \in DOMAIN vals /\ (k = 0 => k + 1 = 1) /\ (k # 0 => k + 1 # 1) /\ (k + 1) - 1 = k
    OBVIOUS
  <2>2. i[k + 1] = IF k + 1 = 1 THEN vals[1] ELSE seps[(k + 1) - 1] \o vals[k + 1]
    BY <2>1 DEF Interleaved
  <2>3. CASE k = 0
    <3>1. i[k + 1] = vals[1] /\ SepAhead(seps, k) = <<>> /\ vals[1] \in Texts
      BY <1>1, <2>1, <2>2, <2>3 DEF SepAhead
    <3> QED
      BY <2>3, <3>1, Cats
  <2>4. CASE k # 0
    BY <2>1, <2>2, <2>4 DEF SepAhead, Cat
  <2> QED
    BY <2>3, <2>4
<1>3. i \in [1 .. c -> Texts]
  <2>1. ASSUME NEW j \in 1 .. c PROVE i[j] \in Texts
    <3>1. PICK k \in 0 .. m : j = k + 1
      <4>1. j - 1 \in 0 .. m /\ j = (j - 1) + 1
        OBVIOUS
      <4> QED
        BY <4>1
    <3>2. SepAhead(seps, k) \in Texts /\ vals[k + 1] \in Texts
      BY <1>1
    <3>3. i[k + 1] = Cat(SepAhead(seps, k), vals[k + 1])
      BY <1>2
    <3> HIDE DEF i
    <3> QED
      BY <3>1, <3>2, <3>3, Cats
  <2>2. i = [j \in 1 .. c |-> i[j]]
    BY DEF Interleaved
  <2> QED
    BY <2>1, <2>2
<1> HIDE DEF i
<1>4. i \in [1 .. c -> Seq(Tokens)]
  BY <1>3 DEF Texts
<1>5. \A k \in 0 .. c : FlattenSeq(Beginning(i, k)) \in Texts
  BY <1>4, BeginningType DEF Texts
<1>6. FlattenSeq(Beginning(i, 0)) = <<>>
  BY FlattenEmpty DEF Beginning
<1>7. Beginning(i, c) = i
  BY <1>4 DEF Beginning
<1>8. ASSUME NEW k \in 0 .. m
      PROVE  FlattenSeq(Beginning(i, k + 1)) = Cat(FlattenSeq(Beginning(i, k)), i[k + 1])
  <2>1. k \in Nat /\ k < c
    OBVIOUS
  <2> QED
    BY <1>4, <2>1, BeginningNext DEF Cat
<1> QED
  BY <1>1, <1>2, <1>3, <1>5, <1>6, <1>7, <1>8 DEF i, FirstOnes, Layered

\* The values v the splitting finds in prefix \o t, and t put together again.
CutBack(v, c, prefix, seps, t) ==
    /\ \A j \in 1 .. c : split_multi_wildcard(prefix \o t, prefix, seps, j - 1) = v[j]
    /\ FlattenSeq(Interleaved(v, seps)) = t

\* A name whose values stand between separators comes apart at the first
\* occurrence of each, whatever the values, and nothing of it is lost.
THEOREM NameSplits ==
    ASSUME NEW c \in Nat \ {0}, NEW m, m = c - 1, NEW ids \in [1 .. c -> Texts], NEW seps \in [1 .. m -> Texts],
           \A k \in 1 .. m : seps[k] # <<>>, NEW prefix \in Texts, NEW tail \in Texts,
           NEW t, t = Cat(FlattenSeq(Interleaved(ids, seps)), tail)
    PROVE  \E v \in [1 .. c -> Texts] : CutBack(v, c, prefix, seps, t)
<1>0. /\ m \in Nat /\ c = m + 1
      /\ \A k \in 0 .. m : k + 1 \in 1 .. c /\ k \in 0 .. c /\ ids[k + 1] \in Texts /\ SepAhead(seps, k) \in Texts
      /\ \A k \in 0 .. m : Interleaved(ids, seps)[k + 1] = Cat(SepAhead(seps, k), ids[k + 1])
      /\ Interleaved(ids, seps) \in [1 .. c -> Texts]
      /\ \A k \in 1 .. m : seps[k] \in Texts
  <2>1. Layered(ids, seps, c, m)
    BY InterleavedIs
  <2>2. m \in Nat /\ c = m + 1 /\ \A k \in 0 .. m : k + 1 \in 1 .. c /\ k \in 0 .. c
    OBVIOUS
  <2> QED
    BY <2>1, <2>2 DEF Layered
<1>1. PICK r \in [0 .. c -> Texts] :
        /\ r[c] = tail /\ r[0] = t
        /\ \A k \in 0 .. m : r[k] = Cat(Cat(SepAhead(seps, k), ids[k + 1]), r[k + 1])
  <2>1. PICK r \in [0 .. c -> Texts] :
          /\ r[c] = tail /\ r[0] = Cat(FlattenSeq(Interleaved(ids, seps)), tail)
          /\ \A k \in 0 .. c - 1 : r[k] = Cat(Interleaved(ids, seps)[k + 1], r[k + 1])
    <3>1. PICK q \in [1 .. c -> Texts] : q = Interleaved(ids, seps)
      BY <1>0
    <3>2. c \in Nat
      OBVIOUS
    <3>3. \E r \in [0 .. c -> Texts] : RestsOf(r, c, q, tail)
      BY <3>2, FlattenRests
    <3> QED
      BY <3>1, <3>3 DEF RestsOf
  <2> QED
    BY <1>0, <2>1
<1>2. t \in Texts /\ \A k \in 0 .. m : r[k + 1] \in Texts /\ Cat(ids[k + 1], r[k + 1]) \in Texts
  <2>1. 0 \in 0 .. c /\ \A k \in 0 .. m : k + 1 \in 0 .. c
    BY <1>0
  <2>2. t \in Texts /\ \A k \in 0 .. m : r[k + 1] \in Texts
    BY <1>1, <2>1
  <2> QED
    BY <1>0, <2>2, Cats
<1>3. TrimPrefix(prefix \o t, prefix) = t /\ prefix \o t \in Texts
  BY <1>2, TrimAddedPrefix, Joins DEF Texts
<1>4. PICK f \in [0 .. m -> Texts] :
        /\ f[0] = t
        /\ \A k \in 1 .. m : f[k] = IF Occurs(f[k - 1], seps[k]) THEN After(f[k - 1], seps[k]) ELSE <<>>
        /\ \A idx \in 0 .. m : split_multi_wildcard(prefix \o t, prefix, seps, idx) =
             IF idx < m /\ Occurs(f[idx], seps[idx + 1]) THEN Before(f[idx], seps[idx + 1]) ELSE f[idx]
  <2>1. PICK val \in Texts : val = prefix \o t
    BY <1>3
  <2>2. \E f \in [0 .. m -> Texts] : SplitsOf(f, val, prefix, m, seps)
    BY <1>0, SplitIs
  <2> QED
    BY <1>3, <2>1, <2>2 DEF SplitsOf
<1> DEFINE Ends(k) == \E u \in Texts : f[k] = Cat(u, Cat(ids[k + 1], r[k + 1]))
           IsCut(k) == /\ Occurs(f[k], seps[k + 1])
                       /\ Before(f[k], seps[k + 1]) \in Texts
                       /\ f[k] = Cat(Before(f[k], seps[k + 1]), Cat(seps[k + 1], f[k + 1]))
<1>5. Ends(0)
  <2>1. 0 \in 0 .. m /\ SepAhead(seps, 0) = <<>>
    BY <1>0 DEF SepAhead
  <2>2. r[0] = Cat(Cat(<<>>, ids[0 + 1]), r[0 + 1]) /\ ids[0 + 1] \in Texts /\ r[0 + 1] \in Texts
    BY <1>0, <1>1, <1>2, <2>1
  <2>3. Cat(<<>>, ids[0 + 1]) = ids[0 + 1] /\ Cat(ids[0 + 1], r[0 + 1]) \in Texts
    BY <2>2, Cats
  <2>4. f[0] = Cat(<<>>, Cat(ids[0 + 1], r[0 + 1])) /\ <<>> \in Texts
    BY <1>1, <1>4, <2>2, <2>3, Cats
  <2> QED
    BY <2>4
<1>6. ASSUME NEW k \in 0 .. m - 1, Ends(k) PROVE Ends(k + 1) /\ IsCut(k)
  <2>1. k \in 0 .. m /\ k + 1 \in 0 .. m /\ k + 1 \in 1 .. m /\ (k + 1) - 1 = k /\ k + 1 # 0
    BY <1>0
  <2>2. PICK u \in Texts : f[k] = Cat(u, Cat(ids[k + 1], r[k + 1]))
    BY <1>6
  <2>3. PICK a, b, sep, w :
          /\ a = ids[k + 1] /\ b = ids[(k + 1) + 1] /\ sep = seps[k + 1] /\ w = Cat(b, r[(k + 1) + 1])
    OBVIOUS
  <2>4. /\ a \in Texts /\ b \in Texts /\ sep \in Texts /\ w \in Texts /\ sep # <<>>
        /\ r[(k + 1) + 1] \in Texts
    BY <1>0, <1>2, <2>1, <2>3
  <2>5. r[k + 1] = Cat(Cat(sep, b), r[(k + 1) + 1])
    <3>1. SepAhead(seps, k + 1) = sep
      BY <2>1, <2>3 DEF SepAhead
    <3> QED
      BY <1>1, <2>1, <2>3, <3>1
  <2>6. r[k + 1] = Cat(sep, w)
    BY <2>3, <2>4, <2>5, Cats
  <2>7. PICK x \in Texts : x = Cat(u, a)
    BY <2>4, Cats
  <2>8. f[k] = Cat(x, Cat(sep, w))
    <3>1. Cat(sep, w) \in Texts
      BY <2>4, Cats
    <3> QED
      BY <2>2, <2>3, <2>4, <2>6, <2>7, <3>1, Cats
  <2>9. PICK y : y = f[k]
    OBVIOUS
  <2>10. /\ Occurs(y, sep) /\ Before(y, sep) \in Texts /\ After(y, sep) \in Texts
         /\ y = Cat(Before(y, sep), Cat(sep, After(y, sep)))
         /\ \E z \in Texts : After(y, sep) = Cat(z, w)
    BY <2>4, <2>8, <2>9, CutWithin
  <2>11. f[k + 1] = After(y, sep)
    BY <1>4, <2>1, <2>3, <2>9, <2>10
  <2> QED
    BY <2>3, <2>9, <2>10, <2>11
<1>7. \A k \in 0 .. m : Ends(k)
  <2> HIDE DEF Ends, IsCut
  <2> DEFINE T == {k \in Nat : k <= m => Ends(k)}
  <2>1. 0 \in T
    BY <1>5
  <2>2. ASSUME NEW k \in T PROVE k + 1 \in T
    <3> SUFFICES ASSUME k + 1 <= m PROVE Ends(k + 1)
      OBVIOUS
    <3>1. k \in 0 .. m - 1 /\ Ends(k)
      BY <1>0
    <3> QED
      BY <1>6, <3>1
  <2>3. T = Nat
    <3> HIDE DEF T
    <3>1. T \in SUBSET Nat
      BY DEF T
    <3> QED
      BY <2>1, <2>2, <3>1, SetInduction
  <2> HIDE DEF T
  <2>4. \A k \in 0 .. m : k \in T /\ k <= m /\ m \in 0 .. m
    BY <1>0, <2>3
  <2> QED
    BY <1>0, <2>4 DEF T
<1>8. \A k \in 0 .. m - 1 : IsCut(k)
  <2> HIDE DEF Ends, IsCut
  <2>1. \A k \in 0 .. m - 1 : k \in 0 .. m
    BY <1>0
  <2> QED
    BY <1>6, <1>7, <2>1
<1> HIDE DEF Ends
<1> DEFINE v == [j \in 1 .. c |-> IF j = c THEN f[m] ELSE Before(f[j - 1], seps[(j - 1) + 1])]
<1>9. v \in [1 .. c -> Texts]
  <2>1. \A j \in 1 .. c : j # c => j - 1 \in 0 .. m - 1
    BY <1>0
  <2>2. f[m] \in Texts
    BY <1>0
  <2> QED
    BY <1>8, <2>1, <2>2
<1>10. ASSUME NEW j \in 1 .. c PROVE split_multi_wildcard(prefix \o t, prefix, seps, j - 1) = v[j]
  <2>1. j - 1 \in 0 .. m /\ (j # c => j - 1 \in 0 .. m - 1 /\ j - 1 < m) /\ (j = c => j - 1 = m /\ ~(j - 1 < m))
    BY <1>0
  <2> QED
    BY <1>4, <1>8, <2>1
<1>11. /\ v[m + 1] = f[m]
       /\ \A k \in 0 .. m - 1 : v[k + 1] = Before(f[k], seps[k + 1])
  <2>1. /\ m + 1 \in 1 .. c /\ m + 1 = c
        /\ \A k \in 0 .. m - 1 : k + 1 \in 1 .. c /\ k + 1 # c /\ (k + 1) - 1 = k
    BY <1>0
  <2> QED
    BY <2>1
<1> HIDE DEF v
<1> DEFINE F(k) == FirstOnes(v, seps, k)
<1>12. /\ \A k \in 0 .. m : SepAhead(seps, k) \in Texts /\ v[k + 1] \in Texts /\ F(k) \in Texts /\ F(k + 1) \in Texts
       /\ F(0) = <<>>
       /\ F(c) = FlattenSeq(Interleaved(v, seps))
       /\ \A k \in 0 .. m : F(k + 1) = Cat(F(k), Cat(SepAhead(seps, k), v[k + 1]))
  <2>1. \A k \in 0 .. m : k \in 0 .. c /\ k + 1 \in 0 .. c
    BY <1>0
  <2>2. Layered(v, seps, c, m)
    BY <1>9, InterleavedIs
  <2> QED
    BY <2>1, <2>2 DEF Layered
<1> HIDE DEF F
<1> DEFINE Whole(k) == t = Cat(F(k), Cat(SepAhead(seps, k), f[k]))
<1>13. Whole(0)
  <2>1. SepAhead(seps, 0) = <<>> /\ f[0] = t /\ F(0) = <<>>
    BY <1>4, <1>12 DEF SepAhead
  <2> QED
    BY <1>2, <2>1, Cats
<1>14. ASSUME NEW k \in 0 .. m - 1, Whole(k) PROVE Whole(k + 1)
  <2>1. k \in 0 .. m /\ k + 1 \in 1 .. m /\ k + 1 \in 0 .. m /\ k + 1 # 0
    BY <1>0
  <2>2. PICK a, s, x, sep, y : a = F(k) /\ s = SepAhead(seps, k) /\ x = v[k + 1] /\ sep = seps[k + 1] /\ y = f[k + 1]
    OBVIOUS
  <2>3. a \in Texts /\ s \in Texts /\ x \in Texts /\ sep \in Texts /\ y \in Texts
    BY <1>0, <1>12, <2>1, <2>2
  <2>4. f[k] = Cat(x, Cat(sep, y))
    BY <1>8, <1>11, <2>2
  <2>5. t = Cat(a, Cat(s, Cat(x, Cat(sep, y))))
    BY <1>14, <2>2, <2>4
  <2>6. PICK z \in Texts : z = Cat(sep, y)
    BY <2>3, Cats
  <2>7. Cat(s, Cat(x, z)) = Cat(Cat(s, x), z) /\ Cat(s, x) \in Texts
    BY <2>3, Cats
  <2>8. Cat(a, Cat(Cat(s, x), z)) = Cat(Cat(a, Cat(s, x)), z)
    BY <2>3, <2>7, Cats
  <2>9. F(k + 1) = Cat(a, Cat(s, x)) /\ SepAhead(seps, k + 1) = sep
    BY <1>12, <2>1, <2>2 DEF SepAhead
  <2> QED
    BY <2>2, <2>5, <2>6, <2>7, <2>8, <2>9
<1>15. Whole(m)
  <2> HIDE DEF Whole
  <2> DEFINE T == {k \in Nat : k <= m => Whole(k)}
  <2>1. 0 \in T
    BY <1>13
  <2>2. ASSUME NEW k \in T PROVE k + 1 \in T
    <3> SUFFICES ASSUME k + 1 <= m PROVE Whole(k + 1)
      OBVIOUS
    <3>1. k \in 0 .. m - 1 /\ Whole(k)
      BY <1>0
    <3> QED
      BY <1>14, <3>1
  <2>3. T = Nat
    <3> HIDE DEF T
    <3>1. T \in SUBSET Nat
      BY DEF T
    <3> QED
      BY <2>1, <2>2, <3>1, SetInduction
  <2> HIDE DEF T
  <2>4. \A k \in 0 .. m : k \in T /\ k <= m /\ m \in 0 .. m
    BY <1>0, <2>3
  <2> QED
    BY <1>0, <2>4 DEF T
<1>16. F(m + 1) = t
  <2>1. m \in 0 .. m
    BY <1>0
  <2> QED
    BY <1>11, <1>12, <1>15, <2>1
<1> QED
  BY <1>0, <1>9, <1>10, <1>12, <1>16 DEF CutBack

-----------------------------------------------------------------------------
\* Texts a URL carries as they are, once escaped.

Fit(s) == Carried(s) /\ Plain(s)

\* Two texts in a row are plain when each is.
LEMMA PlainCat ==
    ASSUME NEW a \in Texts, NEW b \in Texts
    PROVE  Plain(Cat(a, b)) <=> Plain(a) /\ Plain(b)
<1>1. a \in Seq(Tokens) /\ b \in Seq(Tokens)
  BY DEF Texts
<1>2. PICK t : t = a \o b
  OBVIOUS
<1>3. /\ t \in Seq(Tokens) /\ Len(t) = Len(a) + Len(b) /\ Len(a) \in Nat /\ Len(b) \in Nat
      /\ DOMAIN t = 1 .. Len(a) + Len(b) /\ DOMAIN a = 1 .. Len(a) /\ DOMAIN b = 1 .. Len(b)
  BY <1>1, <1>2, Concatenated, ElementOf
<1>4. (\A i \in 1 .. Len(a) : t[i] = a[i]) /\ (\A i \in 1 .. Len(b) : t[Len(a) + i] = b[i])
  BY <1>1, <1>2, JoinedAt
<1>5. PICK m \in Nat, n \in Nat : m = Len(a) /\ n = Len(b)
  BY <1>3
<1>6. ASSUME Plain(t) PROVE Plain(a) /\ Plain(b)
  <2>1. (\A i \in 1 .. m : i \in 1 .. m + n) /\ (\A i \in 1 .. n : m + i \in 1 .. m + n)
    OBVIOUS
  <2> QED
    BY <1>3, <1>4, <1>5, <1>6, <2>1 DEF Plain
<1>7. ASSUME Plain(a), Plain(b) PROVE Plain(t)
  <2>1. ASSUME NEW i \in 1 .. m + n PROVE t[i] \notin {"%2F", "%25", "%3A", "%21"}
    <3>1. CASE i \in 1 .. m
      BY <1>3, <1>4, <1>5, <1>7, <3>1 DEF Plain
    <3>2. CASE i \notin 1 .. m
      <4>1. PICK j \in 1 .. n : i = m + j
        <5>1. i - m \in 1 .. n /\ i = m + (i - m)
          BY <3>2
        <5> QED
          BY <5>1
      <4> QED
        BY <1>3, <1>4, <1>5, <1>7, <4>1 DEF Plain
    <3> QED
      BY <3>1, <3>2
  <2> QED
    BY <1>3, <1>5, <2>1 DEF Plain
<1> QED
  BY <1>2, <1>6, <1>7 DEF Cat

\* With a slash between them two texts are fit when each is.
LEMMA SlashFits ==
    /\ Slash \in Texts /\ Slash # <<>> /\ Plain(Slash) /\ Plain(<<>>)
    /\ \A x, y \in Texts : Fit(Cat(x, Cat(Slash, y))) <=> Fit(x) /\ Fit(y)
<1>1. Slash \in Texts /\ Slash # <<>>
  BY SlashIs
<1>2. Plain(Slash) /\ Plain(<<>>)
  BY DEF Slash, Plain
<1>3. ASSUME NEW x \in Texts, NEW y \in Texts PROVE Fit(Cat(x, Cat(Slash, y))) <=> Fit(x) /\ Fit(y)
  <2>1. Carried(x \o (Slash \o y)) <=> Carried(x) /\ Carried(y)
    BY CarriedJoined
  <2>2. Carried(Cat(x, Cat(Slash, y))) <=> Carried(x) /\ Carried(y)
    BY <2>1 DEF Cat
  <2>3. Cat(Slash, y) \in Texts
    BY <1>1, Cats
  <2>4. Plain(Cat(x, Cat(Slash, y))) <=> Plain(x) /\ Plain(y)
    BY <1>1, <1>2, <2>3, PlainCat
  <2> QED
    BY <2>2, <2>4 DEF Fit
<1> QED
  BY <1>1, <1>2, <1>3

\* A word is fit.
LEMMA WordsFit ==
    ASSUME NEW w \in Tokens, Word(w)
    PROVE  /\ <<w>> \in Texts /\ Slashless(<<w>>) /\ Fit(<<w>>) /\ <<w>> \notin Improper
           /\ w \notin {"/", ".", "..", "%2F", "%25", "%3A", "%21", "%7B%7D"} /\ Unescape(<<w>>) = <<w>>
<1>1. <<w>> \in Texts /\ DOMAIN <<w>> = {1} /\ <<w>>[1] = w
  BY OneMore, Cats
<1>2. w \notin {"/", ".", "..", "%2F", "%25", "%3A", "%21", "%7B%7D"}
  BY DEF Word
<1>3. Slashless(<<w>>) /\ Plain(<<w>>)
  BY <1>1, <1>2 DEF Slashless, Plain
<1>4. <<w>> \notin Improper
  <2>1. <<w>> # <<>> /\ (<<w>> = <<".">> => w = ".") /\ (<<w>> = <<"..">> => w = "..")
    OBVIOUS
  <2> QED
    BY <1>2, <2>1 DEF Improper
<1>5. Fit(<<w>>)
  BY <1>1, <1>3, <1>4, CarriedOne DEF Fit
<1>6. Unescape(<<w>>) = <<w>>
  <2>1. UnescapeToken(w) = w
    BY <1>2 DEF UnescapeToken
  <2>2. Unescape(<<w>>) = [k \in {1} |-> w]
    BY <1>1, <2>1 DEF Unescape
  <2>3. <<w>> = [k \in {1} |-> w]
    BY <1>1
  <2> QED
    BY <2>2, <2>3
<1> QED
  BY <1>1, <1>2, <1>3, <1>4, <1>5, <1>6

\* What stands between two values: a slash, or words between slashes.
Separator(sep) ==
    sep = Slash \/ \E m \in Texts : Fit(m) /\ sep = Cat(Slash, Cat(m, Slash))

\* With a separator between them two texts are fit when each is.
LEMMA SeparatorIs ==
    ASSUME NEW sep, Separator(sep)
    PROVE  /\ sep \in Texts /\ sep # <<>>
           /\ \A x, y \in Texts : Fit(Cat(x, Cat(sep, y))) <=> Fit(x) /\ Fit(y)
<1>1. CASE sep = Slash
  BY <1>1, SlashFits
<1>2. ASSUME NEW m \in Texts, Fit(m), sep = Cat(Slash, Cat(m, Slash))
      PROVE  /\ sep \in Texts /\ sep # <<>>
             /\ \A x, y \in Texts : Fit(Cat(x, Cat(sep, y))) <=> Fit(x) /\ Fit(y)
  <2>1. Cat(m, Slash) \in Texts /\ sep \in Texts
    BY <1>2, SlashFits, Cats
  <2>2. sep # <<>>
    <3>1. PICK z \in Texts : z = Cat(m, Slash)
      BY <2>1
    <3>2. Len(Slash \o z) = Len(Slash) + Len(z) /\ Len(Slash) = 1 /\ Len(z) \in Nat
      BY SlashIs, Joins
    <3>3. Len(sep) # 0 /\ Len(<<>>) = 0
      BY <1>2, <3>1, <3>2 DEF Cat
    <3> QED
      BY <3>3
  <2>3. ASSUME NEW x \in Texts, NEW y \in Texts PROVE Fit(Cat(x, Cat(sep, y))) <=> Fit(x) /\ Fit(y)
    <3>1. PICK z \in Texts : z = Cat(m, Cat(Slash, y))
      BY SlashFits, Cats
    <3>2. Cat(sep, y) = Cat(Slash, z)
      <4>1. Cat(sep, y) = Cat(Slash, Cat(Cat(m, Slash), y))
        BY <1>2, <2>1, SlashFits, Cats
      <4>2. Cat(Cat(m, Slash), y) = z
        BY <3>1, SlashFits, Cats
      <4> QED
        BY <4>1, <4>2
    <3>3. Fit(z) <=> Fit(y)
      BY <1>2, <3>1, SlashFits
    <3> QED
      BY <3>2, <3>3, SlashFits
  <2> QED
    BY <2>1, <2>2, <2>3
<1> QED
  BY <1>1, <1>2 DEF Separator

\* A row of values is fit when each of them is.
LEMMA InterleavedFits ==
    ASSUME NEW c \in Nat \ {0}, NEW m, m = c - 1, NEW vals \in [1 .. c -> Texts], NEW seps \in [1 .. m -> Texts],
           \A k \in 1 .. m : Separator(seps[k])
    PROVE  Fit(FlattenSeq(Interleaved(vals, seps))) <=> \A j \in 1 .. c : Fit(vals[j])
<1> DEFINE F(k) == FirstOnes(vals, seps, k)
<1>1. Layered(vals, seps, c, m)
  BY InterleavedIs
<1>2. /\ m \in Nat /\ c = m + 1
      /\ F(0) = <<>> /\ F(m + 1) = FlattenSeq(Interleaved(vals, seps))
      /\ \A k \in 0 .. m : /\ SepAhead(seps, k) \in Texts /\ vals[k + 1] \in Texts
                           /\ F(k) \in Texts /\ F(k + 1) \in Texts
                           /\ F(k + 1) = Cat(F(k), Cat(SepAhead(seps, k), vals[k + 1]))
  <2>1. m \in Nat /\ c = m + 1 /\ \A k \in 0 .. m : k \in 0 .. c /\ k + 1 \in 0 .. c
    OBVIOUS
  <2> QED
    BY <1>1, <2>1 DEF Layered
<1> HIDE DEF F
<1> DEFINE Good(k) == Fit(F(k + 1)) <=> \A j \in 1 .. k + 1 : Fit(vals[j])
<1>3. Good(0)
  <2>1. 0 \in 0 .. m /\ SepAhead(seps, 0) = <<>> /\ 1 .. 0 + 1 = {0 + 1}
    BY <1>2 DEF SepAhead
  <2>2. PICK v \in Texts : v = vals[0 + 1]
    BY <1>2, <2>1
  <2>3. F(0 + 1) = Cat(<<>>, Cat(<<>>, v))
    BY <1>2, <2>1, <2>2
  <2>4. F(0 + 1) = v
    BY <2>3, Cats
  <2> QED
    BY <2>1, <2>2, <2>4
<1>4. ASSUME NEW k \in 0 .. m - 1, Good(k) PROVE Good(k + 1)
  <2>1. k + 1 \in 0 .. m /\ k + 1 \in 1 .. m /\ k + 1 # 0
    BY <1>2
  <2>2. PICK a \in Texts, v \in Texts, sep \in Texts : a = F(k + 1) /\ v = vals[(k + 1) + 1] /\ sep = seps[k + 1]
    BY <1>2, <2>1
  <2>3. F((k + 1) + 1) = Cat(a, Cat(sep, v))
    BY <1>2, <2>1, <2>2 DEF SepAhead
  <2>4. Fit(F((k + 1) + 1)) <=> Fit(a) /\ Fit(v)
    <3>1. Separator(sep)
      BY <2>1, <2>2
    <3> QED
      BY <2>3, <3>1, SeparatorIs
  <2>5. \A j : j \in 1 .. (k + 1) + 1 <=> j \in 1 .. k + 1 \/ j = (k + 1) + 1
    BY <2>1
  <2> QED
    BY <1>4, <2>2, <2>4, <2>5
<1>5. Good(m)
  <2> HIDE DEF Good
  <2> DEFINE T == {k \in Nat : k <= m => Good(k)}
  <2>1. 0 \in T
    BY <1>3
  <2>2. ASSUME NEW k \in T PROVE k + 1 \in T
    <3> SUFFICES ASSUME k + 1 <= m PROVE Good(k + 1)
      OBVIOUS
    <3>1. k \in 0 .. m - 1 /\ Good(k)
      BY <1>2
    <3> QED
      BY <1>4, <3>1
  <2>3. T = Nat
    <3> HIDE DEF T
    <3>1. T \in SUBSET Nat
      BY DEF T
    <3> QED
      BY <2>1, <2>2, <3>1, SetInduction
  <2> HIDE DEF T
  <2>4. m \in T /\ m <= m
    BY <1>2, <2>3
  <2> QED
    BY <2>4 DEF T
<1> QED
  BY <1>2, <1>5

\* Words with a slash behind or ahead of each.
LEMMA WordsClosed ==
    ASSUME NEW n \in Nat, NEW ws \in [1 .. n -> Tokens], \A k \in 1 .. n : Word(ws[k])
    PROVE  /\ \/ FlattenSeq([k \in 1 .. n |-> <<ws[k], "/">>]) = <<>>
              \/ \E m \in Texts : Fit(m) /\ FlattenSeq([k \in 1 .. n |-> <<ws[k], "/">>]) = Cat(m, Slash)
           /\ \/ FlattenSeq([k \in 1 .. n |-> <<"/", ws[k]>>]) = <<>>
              \/ \E m \in Texts : Fit(m) /\ FlattenSeq([k \in 1 .. n |-> <<"/", ws[k]>>]) = Cat(Slash, m)
<1> DEFINE a(i) == [k \in 1 .. i |-> <<ws[k], "/">>]
           b(i) == [k \in 1 .. i |-> <<"/", ws[k]>>]
           T == {i \in Nat : i <= n =>
                   /\ \/ FlattenSeq(a(i)) = <<>>
                      \/ \E m \in Texts : Fit(m) /\ FlattenSeq(a(i)) = Cat(m, Slash)
                   /\ \/ FlattenSeq(b(i)) = <<>>
                      \/ \E m \in Texts : Fit(m) /\ FlattenSeq(b(i)) = Cat(Slash, m)}
<1>1. 0 \in T
  <2>1. DOMAIN a(0) = 1 .. 0 /\ DOMAIN b(0) = 1 .. 0
    OBVIOUS
  <2> HIDE DEF a, b
  <2> QED
    BY <2>1, FlattenEmpty
<1>2. ASSUME NEW i \in T PROVE i + 1 \in T
  <2>0. i + 1 \in Nat
    OBVIOUS
  <2> SUFFICES ASSUME i + 1 <= n
               PROVE  /\ \/ FlattenSeq(a(i + 1)) = <<>>
                         \/ \E m \in Texts : Fit(m) /\ FlattenSeq(a(i + 1)) = Cat(m, Slash)
                      /\ \/ FlattenSeq(b(i + 1)) = <<>>
                         \/ \E m \in Texts : Fit(m) /\ FlattenSeq(b(i + 1)) = Cat(Slash, m)
    <3> HIDE DEF a, b
    <3> QED
      BY <2>0
  <2>1. i \in Nat /\ i + 1 \in 1 .. n /\ \A k \in 1 .. i + 1 : k \in 1 .. n
    OBVIOUS
  <2>2. PICK w \in Tokens : w = ws[i + 1]
    BY <2>1
  <2>3. <<w>> \in Texts /\ Fit(<<w>>)
    BY <2>1, <2>2, WordsFit
  <2>4. \A k \in 1 .. i + 1 : <<ws[k], "/">> \in Seq(Tokens) /\ <<"/", ws[k]>> \in Seq(Tokens)
    <3>1. "/" \in Tokens
      BY DEF Tokens
    <3>2. \A k \in 1 .. i + 1 : ws[k] \in Tokens
      BY <2>1
    <3> QED
      BY <3>1, <3>2
  <2>5. a(i + 1) \in [1 .. i + 1 -> Seq(Tokens)] /\ b(i + 1) \in [1 .. i + 1 -> Seq(Tokens)]
    BY <2>4
  <2>6. /\ a(i) = [k \in 1 .. i |-> a(i + 1)[k]] /\ b(i) = [k \in 1 .. i |-> b(i + 1)[k]]
        /\ a(i + 1)[i + 1] = <<w, "/">> /\ b(i + 1)[i + 1] = <<"/", w>>
    <3>1. i + 1 \in 1 .. i + 1 /\ \A k \in 1 .. i : k \in 1 .. i + 1
      BY <2>1
    <3> QED
      BY <2>2, <3>1
  <2>7. <<w, "/">> = Cat(<<w>>, Slash) /\ <<"/", w>> = Cat(Slash, <<w>>)
    BY DEF Cat, Slash
  <2> HIDE DEF a, b
  <2>8. FlattenSeq(a(i + 1)) = Cat(FlattenSeq(a(i)), Cat(<<w>>, Slash))
    <3>1. PICK x : x = a(i + 1)
      OBVIOUS
    <3>2. FlattenSeq(x) = FlattenSeq(a(i)) \o x[i + 1]
      BY <2>1, <2>5, <2>6, <3>1, FlattenNext
    <3> QED
      BY <2>6, <2>7, <3>1, <3>2 DEF Cat
  <2>9. FlattenSeq(b(i + 1)) = Cat(FlattenSeq(b(i)), Cat(Slash, <<w>>))
    <3>1. PICK x : x = b(i + 1)
      OBVIOUS
    <3>2. FlattenSeq(x) = FlattenSeq(b(i)) \o x[i + 1]
      BY <2>1, <2>5, <2>6, <3>1, FlattenNext
    <3> QED
      BY <2>6, <2>7, <3>1, <3>2 DEF Cat
  <2>10. /\ \/ FlattenSeq(a(i)) = <<>>
            \/ \E m \in Texts : Fit(m) /\ FlattenSeq(a(i)) = Cat(m, Slash)
         /\ \/ FlattenSeq(b(i)) = <<>>
            \/ \E m \in Texts : Fit(m) /\ FlattenSeq(b(i)) = Cat(Slash, m)
    BY <2>1
  <2>11. \E m \in Texts : Fit(m) /\ FlattenSeq(a(i + 1)) = Cat(m, Slash)
    <3>1. CASE FlattenSeq(a(i)) = <<>>
      <4>1. Cat(<<>>, Cat(<<w>>, Slash)) = Cat(<<w>>, Slash)
        BY <2>3, SlashFits, Cats
      <4> QED
        BY <2>3, <2>8, <3>1, <4>1
    <3>2. ASSUME NEW m \in Texts, Fit(m), FlattenSeq(a(i)) = Cat(m, Slash)
          PROVE  \E x \in Texts : Fit(x) /\ FlattenSeq(a(i + 1)) = Cat(x, Slash)
      <4>1. PICK x \in Texts : x = Cat(m, Cat(Slash, <<w>>))
        BY <2>3, SlashFits, Cats
      <4>2. Fit(x)
        BY <2>3, <3>2, <4>1, SlashFits
      <4>3. Cat(Cat(m, Slash), Cat(<<w>>, Slash)) = Cat(Cat(Cat(m, Slash), <<w>>), Slash) /\ Cat(m, Slash) \in Texts
        BY <2>3, SlashFits, Cats
      <4>4. Cat(Cat(m, Slash), <<w>>) = x
        BY <2>3, <4>1, SlashFits, Cats
      <4> QED
        BY <2>8, <3>2, <4>2, <4>3, <4>4
    <3> QED
      BY <2>10, <3>1, <3>2
  <2>12. \E m \in Texts : Fit(m) /\ FlattenSeq(b(i + 1)) = Cat(Slash, m)
    <3>1. CASE FlattenSeq(b(i)) = <<>>
      <4>1. Cat(<<>>, Cat(Slash, <<w>>)) = Cat(Slash, <<w>>)
        BY <2>3, SlashFits, Cats
      <4> QED
        BY <2>3, <2>9, <3>1, <4>1
    <3>2. ASSUME NEW m \in Texts, Fit(m), FlattenSeq(b(i)) = Cat(Slash, m)
          PROVE  \E x \in Texts : Fit(x) /\ FlattenSeq(b(i + 1)) = Cat(Slash, x)
      <4>1. PICK x \in Texts : x = Cat(m, Cat(Slash, <<w>>))
        BY <2>3, SlashFits, Cats
      <4>2. Fit(x)
        BY <2>3, <3>2, <4>1, SlashFits
      <4>3. PICK y \in Texts : y = Cat(Slash, <<w>>)
        BY <2>3, SlashFits, Cats
      <4>4. Cat(Cat(Slash, m), y) = Cat(Slash, Cat(m, y))
        BY SlashFits, Cats
      <4> QED
        BY <2>9, <3>2, <4>1, <4>2, <4>3, <4>4
    <3> QED
      BY <2>10, <3>1, <3>2
  <2> QED
    BY <2>11, <2>12
<1>3. n \in T
  <2> HIDE DEF T
  <2>1. T \in SUBSET Nat
    BY DEF T
  <2> QED
    BY <1>1, <1>2, <2>1, SetInduction
<1> HIDE DEF a, b
<1>4. /\ \/ FlattenSeq(a(n)) = <<>>
         \/ \E m \in Texts : Fit(m) /\ FlattenSeq(a(n)) = Cat(m, Slash)
      /\ \/ FlattenSeq(b(n)) = <<>>
         \/ \E m \in Texts : Fit(m) /\ FlattenSeq(b(n)) = Cat(Slash, m)
  BY <1>3
<1> QED
  BY <1>4 DEF a, b

-----------------------------------------------------------------------------
\* Sub-patterns with a wildcard, whose other elements are words.
StarSet(pat) == {k \in DOMAIN pat : pat[k] = "*"}
Starry(pat) ==
    /\ pat \in Seq(STRING) /\ "*" \in ToSet(pat)
    /\ \A t \in ToSet(pat) \ {"*"} : Word(t)

\* A well-formed sub-pattern has wildcards, in finite number.
LEMMA StarryIs ==
    ASSUME NEW pat, Starry(pat)
    PROVE  /\ Len(pat) \in Nat \ {0} /\ DOMAIN pat = 1 .. Len(pat) /\ Below(StarSet(pat), Len(pat))
           /\ \A k \in 1 .. Len(pat) : pat[k] \in STRING /\ (pat[k] = "*" \/ Word(pat[k]))
           /\ StarCount(pat) = Cardinality(StarSet(pat)) /\ Cardinality(StarSet(pat)) \in Nat \ {0}
           /\ Stars(pat) = Ascending(StarSet(pat)) /\ Len(Stars(pat)) = Cardinality(StarSet(pat))
           /\ StarsIn(pat) = StarSet(pat)
<1>1. pat \in Seq(STRING) /\ Len(pat) \in Nat /\ DOMAIN pat = 1 .. Len(pat)
  BY DEF Starry
<1>2. ASSUME NEW k \in 1 .. Len(pat) PROVE pat[k] \in STRING /\ (pat[k] = "*" \/ Word(pat[k]))
  <2>1. pat[k] \in ToSet(pat)
    BY <1>1 DEF ToSet
  <2> QED
    BY <1>1, <2>1 DEF Starry
<1>3. PICK k \in DOMAIN pat : pat[k] = "*"
  BY DEF Starry, ToSet
<1>4. Below(StarSet(pat), Len(pat))
  BY <1>1 DEF Below, StarSet
<1>5. StarSet(pat) # {} /\ Len(pat) # 0
  BY <1>1, <1>3 DEF StarSet
<1>6. Cardinality(StarSet(pat)) \in Nat /\ IsFiniteSet(StarSet(pat))
  BY <1>1, <1>4, Counted
<1>7. Cardinality(StarSet(pat)) # 0
  BY <1>5, <1>6, FS_EmptySet
<1>8. ASSUME NEW i \in DOMAIN pat PROVE pat[i] # "**"
  BY <1>1, <1>2 DEF Word
<1>9. StarsIn(pat) = StarSet(pat) /\ Doubles(pat) = {}
  BY <1>8 DEF StarsIn, StarSet, Doubles
<1>10. StarCount(pat) = Cardinality(StarSet(pat))
  <2>1. /\ StarCount(pat) = Cardinality(StarsIn(pat)) + Cardinality(Doubles(pat))
        /\ Cardinality(Doubles(pat)) = 0
    BY <1>1, <1>9, StarsCounted
  <2> QED
    BY <1>6, <1>9, <2>1
<1>11. Stars(pat) = Ascending(StarSet(pat))
  BY DEF Stars, StarSet
<1>12. Len(Stars(pat)) = Cardinality(StarSet(pat))
  BY <1>1, <1>4, <1>11, AscendingRank
<1> QED
  BY <1>1, <1>2, <1>4, <1>5, <1>6, <1>7, <1>9, <1>10, <1>11, <1>12

\* The places of the wildcards, in order: what is ahead of the first, between
\* two and behind the last are words.
Spaced(pat, A, s, n) ==
    /\ \A j \in 1 .. s : A[j] \in 1 .. n /\ pat[A[j]] = "*"
    /\ \A j \in 1 .. s - 1 : A[j] < A[j + 1]
    /\ \A k \in 1 .. n : k < A[1] => Word(pat[k])
    /\ \A k \in 1 .. n : k > A[s] => Word(pat[k])
    /\ \A j \in 1 .. s - 1 : \A k \in 1 .. n : k > A[j] /\ k < A[j + 1] => Word(pat[k])
    /\ pat[n] = "*" => A[s] = n

\* Such are the places of the wildcards of any sub-pattern.
LEMMA StarsAre ==
    ASSUME NEW pat, Starry(pat), NEW s, s = Len(Stars(pat)), NEW n, n = Len(pat)
    PROVE  /\ s \in Nat \ {0} /\ n \in Nat \ {0}
           /\ Spaced(pat, Stars(pat), s, n)
<1> DEFINE W == StarSet(pat)
           A == Stars(pat)
<1>1. /\ n \in Nat \ {0} /\ Below(W, n) /\ DOMAIN pat = 1 .. n
      /\ \A k \in 1 .. n : pat[k] = "*" \/ Word(pat[k])
      /\ s = Cardinality(W) /\ s \in Nat \ {0} /\ A = Ascending(W)
  BY StarryIs
<1>2. /\ A \in Seq(1 .. n) /\ Len(A) = s
      /\ \A j \in 1 .. s : A[j] \in W /\ NthOf(W, A[j]) = j
      /\ \A k \in W : NthOf(W, k) \in 1 .. s /\ A[NthOf(W, k)] = k
  BY <1>1, AscendingRank
<1>3. \A k \in 1 .. n : k \in W <=> pat[k] = "*"
  BY <1>1 DEF StarSet
<1>4. \A k, h \in W : k < h => NthOf(W, k) < NthOf(W, h)
  BY <1>1, RanksDiffer
<1>5. n \in W => NthOf(W, n) = s
  BY <1>1, RanksOnce
<1>6. \A j \in 1 .. s : A[j] \in 1 .. n
  BY <1>1, <1>2 DEF Below
<1> HIDE DEF W, A
<1>7. ASSUME NEW j \in 1 .. s - 1 PROVE A[j] < A[j + 1]
  <2>1. j \in 1 .. s /\ j + 1 \in 1 .. s
    BY <1>1
  <2>2. A[j] \in W /\ A[j + 1] \in W /\ NthOf(W, A[j]) = j /\ NthOf(W, A[j + 1]) = j + 1
    BY <1>2, <2>1
  <2>3. A[j] \in 1 .. n /\ A[j + 1] \in 1 .. n
    BY <1>6, <2>1
  <2>4. ASSUME A[j + 1] < A[j] PROVE FALSE
    <3>1. NthOf(W, A[j + 1]) < NthOf(W, A[j])
      BY <1>4, <2>2, <2>4
    <3> QED
      BY <2>1, <2>2, <3>1
  <2>5. A[j] # A[j + 1]
    BY <2>1, <2>2
  <2> QED
    BY <2>3, <2>4, <2>5
<1>8. ASSUME NEW k \in 1 .. n, k < A[1] PROVE k \notin W
  <2>1. 1 \in 1 .. s
    BY <1>1
  <2>2. A[1] \in W /\ NthOf(W, A[1]) = 1
    BY <1>2, <2>1
  <2>3. k \in W => NthOf(W, k) < 1 /\ NthOf(W, k) \in 1 .. s
    BY <1>2, <1>4, <1>8, <2>2
  <2> QED
    BY <1>1, <2>3
<1>9. ASSUME NEW k \in 1 .. n, k > A[s] PROVE k \notin W
  <2>1. s \in 1 .. s
    BY <1>1
  <2>2. A[s] \in W /\ NthOf(W, A[s]) = s /\ A[s] \in 1 .. n
    BY <1>2, <1>6, <2>1
  <2>3. A[s] < k
    BY <1>1, <1>9, <2>2
  <2>4. k \in W => s < NthOf(W, k) /\ NthOf(W, k) \in 1 .. s
    BY <1>2, <1>4, <2>2, <2>3
  <2> QED
    BY <1>1, <2>4
<1>10. ASSUME NEW j \in 1 .. s - 1, NEW k \in 1 .. n, k > A[j], k < A[j + 1] PROVE k \notin W
  <2>1. j \in 1 .. s /\ j + 1 \in 1 .. s
    BY <1>1
  <2>2. /\ A[j] \in W /\ A[j + 1] \in W /\ NthOf(W, A[j]) = j /\ NthOf(W, A[j + 1]) = j + 1
        /\ A[j] \in 1 .. n
    BY <1>2, <1>6, <2>1
  <2>3. A[j] < k
    BY <1>1, <1>10, <2>2
  <2>4. k \in W => j < NthOf(W, k) /\ NthOf(W, k) < j + 1 /\ NthOf(W, k) \in 1 .. s
    BY <1>2, <1>4, <1>10, <2>2, <2>3
  <2> QED
    BY <1>1, <2>1, <2>4
<1>11. pat[n] = "*" => A[s] = n
  BY <1>1, <1>2, <1>3, <1>5
<1> QED
  BY <1>1, <1>2, <1>3, <1>6, <1>7, <1>8, <1>9, <1>10, <1>11 DEF W, A, Spaced

\* The words between two wildcards, with a slash behind or ahead of each.
LEMMA WordsBetween ==
    ASSUME NEW pat \in Seq(STRING), NEW a \in Nat, NEW n \in Nat, a + n <= Len(pat),
           \A k \in 1 .. n : Word(pat[a + k])
    PROVE  /\ \/ FlattenSeq([k \in 1 .. n |-> <<pat[a + k], "/">>]) = <<>>
              \/ \E m \in Texts : Fit(m) /\ FlattenSeq([k \in 1 .. n |-> <<pat[a + k], "/">>]) = Cat(m, Slash)
           /\ \/ FlattenSeq([k \in 1 .. n |-> <<"/", pat[a + k]>>]) = <<>>
              \/ \E m \in Texts : Fit(m) /\ FlattenSeq([k \in 1 .. n |-> <<"/", pat[a + k]>>]) = Cat(Slash, m)
<1> DEFINE ws == [k \in 1 .. n |-> pat[a + k]]
<1>1. \A k \in 1 .. n : pat[a + k] \in Tokens
  BY DEF Tokens
<1>2. ws \in [1 .. n -> Tokens] /\ (\A k \in 1 .. n : ws[k] = pat[a + k]) /\ \A k \in 1 .. n : Word(ws[k])
  BY <1>1
<1>3. /\ [k \in 1 .. n |-> <<ws[k], "/">>] = [k \in 1 .. n |-> <<pat[a + k], "/">>]
      /\ [k \in 1 .. n |-> <<"/", ws[k]>>] = [k \in 1 .. n |-> <<"/", pat[a + k]>>]
  OBVIOUS
<1> HIDE DEF ws
<1>4. /\ \/ FlattenSeq([k \in 1 .. n |-> <<ws[k], "/">>]) = <<>>
         \/ \E m \in Texts : Fit(m) /\ FlattenSeq([k \in 1 .. n |-> <<ws[k], "/">>]) = Cat(m, Slash)
      /\ \/ FlattenSeq([k \in 1 .. n |-> <<"/", ws[k]>>]) = <<>>
         \/ \E m \in Texts : Fit(m) /\ FlattenSeq([k \in 1 .. n |-> <<"/", ws[k]>>]) = Cat(Slash, m)
  BY <1>2, WordsClosed
<1> QED
  BY <1>3, <1>4

\* The pieces of a name.
LEMMA PiecesAre ==
    ASSUME NEW pat, Starry(pat), NEW s, s = Len(Stars(pat)), NEW m, m = s - 1
    PROVE  /\ m \in Nat /\ s = m + 1
           /\ PrefixOf(pat) \in Texts
           /\ PrefixOf(pat) = <<>> \/ \E x \in Texts : Fit(x) /\ PrefixOf(pat) = Cat(x, Slash)
           /\ TailOf(pat) \in Texts
           /\ TailOf(pat) = <<>> \/ \E x \in Texts : Fit(x) /\ TailOf(pat) = Cat(Slash, x)
           /\ pat[Len(pat)] = "*" => TailOf(pat) = <<>>
           /\ SepsOf(pat) \in [1 .. m -> Texts]
           /\ \A j \in 1 .. m : Separator(SepsOf(pat)[j])
<1>0. PICK n \in Nat : n = Len(pat)
  BY StarryIs
<1> DEFINE A == Stars(pat)
<1>1. /\ s \in Nat \ {0} /\ n \in Nat \ {0}
      /\ \A j \in 1 .. s : A[j] \in 1 .. n /\ pat[A[j]] = "*"
      /\ \A j \in 1 .. s - 1 : A[j] < A[j + 1]
      /\ \A k \in 1 .. n : k < A[1] => Word(pat[k])
      /\ \A k \in 1 .. n : k > A[s] => Word(pat[k])
      /\ \A j \in 1 .. s - 1 : \A k \in 1 .. n : k > A[j] /\ k < A[j + 1] => Word(pat[k])
      /\ pat[n] = "*" => A[s] = n
  <2>1. s \in Nat \ {0} /\ n \in Nat \ {0} /\ Spaced(pat, Stars(pat), s, n)
    BY <1>0, StarsAre
  <2> QED
    BY <2>1 DEF Spaced
<1>2. pat \in Seq(STRING)
  BY DEF Starry
<1>3. PrefixOf(pat) = Closed(pat, 0, A[1] - 1) /\ Len(A) = s
  BY DEF PrefixOf
<1>4. TailOf(pat) = FlattenSeq([k \in 1 .. n - A[s] |-> <<"/", pat[A[s] + k]>>])
  BY <1>0 DEF TailOf
<1>5. SepsOf(pat) = [j \in 1 .. s - 1 |-> Slash \o Closed(pat, A[j], A[j + 1] - 1)]
  BY DEF SepsOf
<1> HIDE DEF A
<1>6. m \in Nat /\ s = m + 1
  BY <1>1
<1>7. PrefixOf(pat) = <<>> \/ \E x \in Texts : Fit(x) /\ PrefixOf(pat) = Cat(x, Slash)
  <2>1. 1 \in 1 .. s
    BY <1>1
  <2>2. A[1] \in 1 .. n
    BY <1>1, <2>1
  <2>3. PICK c \in Nat : c = A[1] - 1 /\ c < n
    BY <1>1, <2>2
  <2>4. ASSUME NEW k \in 1 .. c PROVE Word(pat[0 + k])
    <3>1. k \in 1 .. n /\ k < A[1] /\ 0 + k = k
      BY <2>2, <2>3
    <3> QED
      BY <1>1, <3>1
  <2>5. 0 + c <= Len(pat) /\ 0 \in Nat
    BY <1>0, <2>3
  <2>6. c - 0 = c
    BY <2>3
  <2>7. Closed(pat, 0, c) = FlattenSeq([k \in 1 .. c |-> <<pat[0 + k], "/">>])
    BY <2>6 DEF Closed
  <2>8. \/ FlattenSeq([k \in 1 .. c |-> <<pat[0 + k], "/">>]) = <<>>
        \/ \E x \in Texts : Fit(x) /\ FlattenSeq([k \in 1 .. c |-> <<pat[0 + k], "/">>]) = Cat(x, Slash)
    BY <1>2, <2>4, <2>5, WordsBetween
  <2> QED
    BY <1>3, <2>3, <2>7, <2>8
<1>8. TailOf(pat) = <<>> \/ \E x \in Texts : Fit(x) /\ TailOf(pat) = Cat(Slash, x)
  <2>1. s \in 1 .. s
    BY <1>1
  <2>2. A[s] \in 1 .. n
    BY <1>1, <2>1
  <2>3. PICK a \in Nat : a = A[s]
    BY <1>1, <2>2
  <2>4. PICK c \in Nat : c = n - a
    BY <1>1, <2>2, <2>3
  <2>5. \A k \in 1 .. c : Word(pat[a + k])
    <3> SUFFICES ASSUME NEW k \in 1 .. c PROVE Word(pat[a + k])
      OBVIOUS
    <3>1. PICK i \in Nat : i = a + k
      OBVIOUS
    <3>2. i \in 1 .. n /\ i > A[s]
      BY <2>2, <2>3, <2>4, <3>1
    <3> QED
      BY <1>1, <3>1, <3>2
  <2>6. a + c <= Len(pat)
    BY <1>0, <2>3, <2>4
  <2>7. TailOf(pat) = FlattenSeq([k \in 1 .. c |-> <<"/", pat[a + k]>>])
    BY <1>4, <2>3, <2>4
  <2>8. \/ FlattenSeq([k \in 1 .. c |-> <<"/", pat[a + k]>>]) = <<>>
        \/ \E x \in Texts : Fit(x) /\ FlattenSeq([k \in 1 .. c |-> <<"/", pat[a + k]>>]) = Cat(Slash, x)
    BY <1>2, <2>5, <2>6, WordsBetween
  <2> QED
    BY <2>7, <2>8
<1>9. pat[Len(pat)] = "*" => TailOf(pat) = <<>>
  <2> SUFFICES ASSUME pat[n] = "*" PROVE TailOf(pat) = <<>>
    BY <1>0
  <2>1. n - A[s] = 0
    BY <1>1
  <2>2. TailOf(pat) = FlattenSeq([k \in 1 .. 0 |-> <<"/", pat[A[s] + k]>>])
    BY <1>4, <2>1
  <2> QED
    BY <2>2, FlattenEmpty
<1>10. ASSUME NEW j \in 1 .. m PROVE Separator(Slash \o Closed(pat, A[j], A[j + 1] - 1))
  <2>1. j \in 1 .. s - 1 /\ j \in 1 .. s /\ j + 1 \in 1 .. s
    BY <1>6
  <2>2. A[j] \in 1 .. n /\ A[j + 1] \in 1 .. n /\ A[j] < A[j + 1]
    BY <1>1, <2>1
  <2>3. PICK a \in Nat : a = A[j]
    BY <2>2
  <2>4. PICK b \in Nat : b = A[j + 1] - 1
    BY <2>2
  <2>5. PICK c \in Nat : c = b - a
    BY <1>1, <2>2, <2>3, <2>4
  <2>6. ASSUME NEW k \in 1 .. c PROVE Word(pat[a + k])
    <3>1. PICK i \in Nat : i = a + k
      OBVIOUS
    <3>2. PICK d \in 1 .. n : d = A[j + 1]
      BY <2>2
    <3>4. b = d - 1
      BY <2>4, <3>2
    <3>5. d \in Nat /\ d <= n /\ k >= 1 /\ k <= c /\ k \in Nat
      OBVIOUS
    <3>3. i \in 1 .. n /\ i > a /\ i < d
      BY <2>5, <3>1, <3>4, <3>5
    <3> QED
      BY <1>1, <2>1, <2>3, <3>1, <3>2, <3>3
  <2>7. a + c <= Len(pat)
    BY <1>0, <2>2, <2>3, <2>4, <2>5
  <2>8. Closed(pat, a, b) = FlattenSeq([k \in 1 .. c |-> <<pat[a + k], "/">>])
    BY <2>5 DEF Closed
  <2>9. \/ FlattenSeq([k \in 1 .. c |-> <<pat[a + k], "/">>]) = <<>>
        \/ \E x \in Texts : Fit(x) /\ FlattenSeq([k \in 1 .. c |-> <<pat[a + k], "/">>]) = Cat(x, Slash)
    BY <1>2, <2>6, <2>7, WordsBetween
  <2>10. CASE Closed(pat, a, b) = <<>>
    <3>1. Cat(Slash, <<>>) = Slash
      BY SlashFits, Cats
    <3>2. Slash \o <<>> = Slash
      BY <3>1 DEF Cat
    <3> QED
      BY <2>3, <2>4, <2>10, <3>2 DEF Separator
  <2>11. ASSUME NEW x \in Texts, Fit(x), Closed(pat, a, b) = Cat(x, Slash)
         PROVE  Separator(Slash \o Closed(pat, a, b))
    <3>1. Slash \o Closed(pat, a, b) = Cat(Slash, Cat(x, Slash))
      BY <2>11, Zenon DEF Cat
    <3> QED
      BY <2>11, <3>1, Zenon DEF Separator
  <2> QED
    BY <2>3, <2>4, <2>8, <2>9, <2>10, <2>11
<1>11. SepsOf(pat) \in [1 .. m -> Texts] /\ \A j \in 1 .. m : Separator(SepsOf(pat)[j])
  <2>1. SepsOf(pat) = [j \in 1 .. m |-> Slash \o Closed(pat, A[j], A[j + 1] - 1)]
    BY <1>5
  <2>2. \A j \in 1 .. m : Slash \o Closed(pat, A[j], A[j + 1] - 1) \in Texts
    BY <1>10, SeparatorIs
  <2>3. \A j \in 1 .. m : SepsOf(pat)[j] = Slash \o Closed(pat, A[j], A[j + 1] - 1)
    BY <2>1
  <2>4. \A j \in 1 .. m : Separator(SepsOf(pat)[j])
    BY <1>10, <2>3
  <2>5. SepsOf(pat) \in [1 .. m -> Texts]
    BY <2>1, <2>2, Zenon
  <2> QED
    BY <2>4, <2>5
<1>12. PrefixOf(pat) \in Texts /\ TailOf(pat) \in Texts
  <2>1. \A x \in Texts : Cat(x, Slash) \in Texts /\ Cat(Slash, x) \in Texts
    BY SlashFits, Cats
  <2> QED
    BY <1>7, <1>8, <2>1, Cats
<1> QED
  BY <1>6, <1>7, <1>8, <1>9, <1>11, <1>12

-----------------------------------------------------------------------------
\* The path of an operation.
Shaped(p, pat, s, lits) ==
    /\ p \in Seq(SegSet) /\ Len(p) \in Nat \ {0}
    /\ \A k \in 1 .. Len(p) :
         \/ p[k].kind = "var"
         \/ p[k].kind = "rest" /\ k = Len(p)
         \/ \E w \in lits : p[k] = Lit(w)
    /\ Cardinality(Wildcards(p)) = s
    /\ p[Len(p)].kind = "rest" <=> s = 1 /\ pat[Len(pat)] # "*"
    /\ p[Len(p)].kind = "lit" <=> s > 1 /\ pat[Len(pat)] # "*"

\* A literal is of its kind and has its text.
LEMMA LitIs ==
    ASSUME NEW w
    PROVE  Lit(w).kind = "lit" /\ Lit(w).text = <<w>> /\ Lit(w).tail = "" /\ Lit(w).hidden = <<>>
BY DEF Lit, Seg

\* A variable with several wildcards becomes a path of its sub-pattern's shape,
LEMMA ExpandedShape ==
    ASSUME NEW pat, Starry(pat), NEW f \in STRING, NEW s, s = Len(Stars(pat)), s > 1
    PROVE  Shaped(Expanded(f, pat), pat, s, ToSet(pat) \ {"*"})
<1>1. /\ Len(pat) \in Nat \ {0} /\ DOMAIN pat = 1 .. Len(pat)
      /\ \A k \in 1 .. Len(pat) : pat[k] \in STRING /\ (pat[k] = "*" \/ Word(pat[k]))
      /\ StarCount(pat) = s /\ s \in Nat \ {0} /\ Cardinality(StarSet(pat)) = s
  BY StarryIs
<1>2. pat \in Seq(STRING)
  BY DEF Starry
<1>3. PICK p : p = Expanded(f, pat)
  OBVIOUS
<1>4. p \in Seq(SegSet)
  BY <1>1, <1>2, <1>3, ExpandedAligned
<1>5. DOMAIN p = 1 .. Len(pat)
  BY <1>1, <1>3 DEF Expanded
<1>6. Len(p) = Len(pat)
  BY <1>1, <1>4, <1>5
<1>7. ASSUME NEW k \in 1 .. Len(pat)
      PROVE  /\ pat[k] = "*" => p[k].kind = "var"
             /\ pat[k] # "*" => p[k].kind = "lit" /\ \E w \in ToSet(pat) \ {"*"} : p[k] = Lit(w)
  <2>1. /\ pat[k] = "*" => p[k] = Var(<<f, StarsBefore(pat, k)>>)
        /\ pat[k] # "*" /\ pat[k] # "**" => p[k] = Lit(pat[k])
    BY <1>1, <1>3 DEF Expanded
  <2>2. pat[k] \in ToSet(pat)
    BY <1>1 DEF ToSet
  <2>3. pat[k] # "*" => pat[k] # "**"
    BY <1>1 DEF Word
  <2>4. \A t : Var(t).kind = "var"
    BY DEF Var, Seg
  <2>5. Lit(pat[k]).kind = "lit"
    BY LitIs
  <2> QED
    BY <2>1, <2>2, <2>3, <2>4, <2>5
<1>8. Wildcards(p) = StarSet(pat)
  <2>1. \A k \in 1 .. Len(pat) : p[k].kind \in {"var", "rest"} <=> pat[k] = "*"
    BY <1>7
  <2> QED
    BY <1>1, <1>5, <2>1 DEF Wildcards, StarSet
<1>9. Len(pat) \in 1 .. Len(pat)
  BY <1>1
<1>10. /\ p[Len(pat)].kind = "lit" <=> pat[Len(pat)] # "*"
       /\ p[Len(pat)].kind # "rest"
  BY <1>7, <1>9
<1>11. \A k \in 1 .. Len(p) : p[k].kind = "var" \/ \E w \in ToSet(pat) \ {"*"} : p[k] = Lit(w)
  BY <1>6, <1>7
<1>12. Cardinality(Wildcards(p)) = s
  BY <1>1, <1>8
<1>13. s # 1
  BY <1>1
<1> QED
  BY <1>1, <1>3, <1>4, <1>6, <1>10, <1>11, <1>12, <1>13 DEF Shaped

\* and so does one with a single wildcard, for the rest of the path where
\* literals follow it.
LEMMA SingleShape ==
    ASSUME NEW pat, Starry(pat), NEW f \in STRING, NEW s, s = Len(Stars(pat)), s = 1
    PROVE  Shaped(Append(Ahead(pat, FirstStar(pat) - 1), Single(f, pat, TRUE)), pat, s, ToSet(pat) \ {"*"})
<1>1. /\ Len(pat) \in Nat \ {0} /\ DOMAIN pat = 1 .. Len(pat)
      /\ \A k \in 1 .. Len(pat) : pat[k] \in STRING /\ (pat[k] = "*" \/ Word(pat[k]))
      /\ StarCount(pat) = s /\ StarsIn(pat) = StarSet(pat)
  BY StarryIs
<1>2. pat \in Seq(STRING)
  BY DEF Starry
<1>3. FirstStar(pat) \in 1 .. Len(pat) /\ pat[FirstStar(pat)] = "*"
  BY <1>1, <1>2, FirstStarIs
<1>4. PICK a : StarsIn(pat) = {a}
  BY <1>1, <1>2, StarsCounted
<1>5. FirstStar(pat) \in StarSet(pat)
  BY <1>1, <1>3 DEF StarSet
<1>6. StarSet(pat) = {FirstStar(pat)}
  BY <1>1, <1>4, <1>5
<1>7. PICK n \in Nat : n = FirstStar(pat) - 1 /\ n < Len(pat) /\ n + 1 = FirstStar(pat)
  BY <1>1, <1>3
<1>8. PICK x : x = Single(f, pat, TRUE)
  OBVIOUS
<1>9. x \in SegSet /\ x.kind = IF pat[Len(pat)] # "*" THEN "rest" ELSE "var"
  <2>1. <<f>> \in VarTexts
    BY DEF VarTexts
  <2>2. SubSeq(pat, FirstStar(pat) + 1, Len(pat)) \in Seq(STRING)
    BY <1>1, <1>2, <1>3
  <2>3. /\ pat[Len(pat)] # "*" => x = Rest(<<f>>, SubSeq(pat, FirstStar(pat) + 1, Len(pat)))
        /\ pat[Len(pat)] = "*" => x = Var(<<f>>)
    BY <1>8 DEF Single
  <2>4. CASE pat[Len(pat)] = "*"
    <3>1. x = Var(<<f>>)
      BY <2>3, <2>4
    <3> QED
      BY <2>1, <2>4, <3>1, SegsMade
  <2>5. CASE pat[Len(pat)] # "*"
    <3>1. PICK l \in Seq(STRING) : x = Rest(<<f>>, l)
      BY <2>2, <2>3, <2>5
    <3> QED
      BY <2>1, <2>5, <3>1, SegsMade
  <2> QED
    BY <2>4, <2>5
<1>10. PICK p : p = Append(Ahead(pat, n), x)
  OBVIOUS
<1>11. /\ p \in Seq(SegSet) /\ Len(p) = n + 1 /\ DOMAIN p = 1 .. n + 1
       /\ p[n + 1] = x /\ \A k \in 1 .. n : p[k].kind = "lit"
  BY <1>2, <1>7, <1>9, <1>10, BehindLiterals
<1>12. ASSUME NEW k \in 1 .. n PROVE \E w \in ToSet(pat) \ {"*"} : p[k] = Lit(w)
  <2>1. k \in 1 .. Len(pat) /\ k # FirstStar(pat)
    BY <1>1, <1>7
  <2>2. pat[k] # "*"
    BY <1>1, <1>6, <2>1 DEF StarSet
  <2>3. pat[k] \in ToSet(pat)
    BY <1>1, <2>1 DEF ToSet
  <2>4. Len(Ahead(pat, n)) = n /\ Ahead(pat, n)[k] = Lit(pat[k])
    BY <1>7 DEF Ahead
  <2>5. p[k] = Ahead(pat, n)[k]
    BY <1>7, <1>10, <1>11, <2>4 DEF Ahead
  <2> QED
    BY <2>2, <2>3, <2>4, <2>5
<1>13. Wildcards(p) = {n + 1}
  <2>1. \A k \in 1 .. n + 1 : p[k].kind \in {"var", "rest"} <=> k = n + 1
    BY <1>7, <1>9, <1>11
  <2> QED
    BY <1>7, <1>11, <2>1 DEF Wildcards
<1>14. Cardinality(Wildcards(p)) = s
  BY <1>13, FS_Singleton
<1>15. \A k \in 1 .. Len(p) :
         \/ p[k].kind = "var" \/ (p[k].kind = "rest" /\ k = Len(p))
         \/ \E w \in ToSet(pat) \ {"*"} : p[k] = Lit(w)
  BY <1>7, <1>9, <1>11, <1>12
<1>16. /\ p[Len(p)].kind = "rest" <=> pat[Len(pat)] # "*"
       /\ p[Len(p)].kind # "lit"
  BY <1>9, <1>11
<1>17. Len(p) \in Nat \ {0} /\ ~(s > 1)
  BY <1>7, <1>11
<1> QED
  BY <1>7, <1>8, <1>10, <1>11, <1>14, <1>15, <1>16, <1>17 DEF Shaped

\* So does a variable of any kind.
LEMMA VariableShape ==
    ASSUME NEW e \in Element, IsVar(e), NEW pat, pat = e.pat, Starry(pat), NEW s, s = Len(Stars(pat))
    PROVE  Shaped(VarSegments(e, TRUE), pat, s, ToSet(pat) \ {"*"})
<1>1. PICK f \in STRING : f = Sanitized(e.field)
  <2>1. e.field \in Seq(STRING) /\ e.field # <<>>
    BY DEF Element, IsVar
  <2> QED
    BY <2>1 DEF Sanitized
<1>2. s \in Nat \ {0} /\ s = StarCount(e.pat)
  BY StarryIs
<1>3. s > 1 => VarSegments(e, TRUE) = Expanded(f, pat)
  BY <1>1, <1>2, VarSegmentsAre
<1>4. s = 1 => VarSegments(e, TRUE) = Append(Ahead(pat, FirstStar(pat) - 1), Single(f, pat, TRUE))
  BY <1>1, <1>2, VarSegmentsAre
<1>5. s > 1 \/ s = 1
  BY <1>2
<1>6. s > 1 => Shaped(Expanded(f, pat), pat, s, ToSet(pat) \ {"*"})
  BY ExpandedShape
<1>7. s = 1 => Shaped(Append(Ahead(pat, FirstStar(pat) - 1), Single(f, pat, TRUE)), pat, s, ToSet(pat) \ {"*"})
  BY SingleShape
<1> QED
  BY <1>3, <1>4, <1>5, <1>6, <1>7

\* Literals ahead of a path.
LEMMA LiteralsAhead ==
    ASSUME NEW n \in Nat, NEW lits, NEW lead \in Seq(SegSet), Len(lead) = n,
           \A k \in 1 .. n : \E w \in lits : lead[k] = Lit(w),
           NEW v, NEW pat, NEW s, NEW more, Shaped(v, pat, s, more), more \subseteq lits
    PROVE  Shaped(lead \o v, pat, s, lits)
<1>1. /\ v \in Seq(SegSet) /\ Len(v) \in Nat \ {0}
      /\ \A k \in 1 .. Len(v) :
           \/ v[k].kind = "var"
           \/ v[k].kind = "rest" /\ k = Len(v)
           \/ \E w \in more : v[k] = Lit(w)
      /\ Cardinality(Wildcards(v)) = s
      /\ v[Len(v)].kind = "rest" <=> s = 1 /\ pat[Len(pat)] # "*"
      /\ v[Len(v)].kind = "lit" <=> s > 1 /\ pat[Len(pat)] # "*"
  BY DEF Shaped
<1>2. PICK p : p = lead \o v
  OBVIOUS
<1>3. PICK m \in Nat : m = Len(v) /\ m # 0
  BY <1>1
<1>4. /\ p \in Seq(SegSet) /\ Len(p) = n + m
      /\ \A k \in 1 .. n : p[k] = lead[k]
      /\ \A k \in 1 .. m : p[n + k] = v[k]
  <2>1. lead \o v \in Seq(SegSet) /\ Len(lead \o v) = Len(lead) + Len(v)
    BY <1>1, Concatenated
  <2>2. /\ \A k \in 1 .. Len(lead) : (lead \o v)[k] = lead[k]
        /\ \A k \in 1 .. Len(v) : (lead \o v)[Len(lead) + k] = v[k]
    BY <1>1, JoinedAt
  <2> QED
    BY <1>2, <1>3, <2>1, <2>2, Zenon
<1>5. DOMAIN p = 1 .. n + m
  BY <1>4
<1>6. \A k \in 1 .. n + m : k \in 1 .. n \/ \E h \in 1 .. m : k = n + h
  <2> SUFFICES ASSUME NEW k \in 1 .. n + m, k \notin 1 .. n PROVE \E h \in 1 .. m : k = n + h
    OBVIOUS
  <2>1. k - n \in 1 .. m /\ k = n + (k - n)
    BY <1>3
  <2> QED
    BY <2>1
<1>7. \A k \in 1 .. n : lead[k].kind = "lit"
  BY LitIs
<1>8. Below(Wildcards(v), m) /\ Wildcards(v) \subseteq Nat
  <2>1. Below(Wildcards(v), m)
    BY <1>1, <1>3, WildcardsBelow
  <2> QED
    BY <2>1, Counted
<1>9. Wildcards(p) = Moved(Wildcards(v), n)
  <2>1. ASSUME NEW k \in Wildcards(p) PROVE k \in Moved(Wildcards(v), n)
    <3>1. k \in 1 .. n + m /\ p[k].kind \in {"var", "rest"}
      BY <1>5 DEF Wildcards
    <3>2. k \notin 1 .. n
      BY <1>4, <1>7, <3>1
    <3>3. PICK h \in 1 .. m : k = n + h
      BY <1>6, <3>1, <3>2
    <3>4. p[k] = v[h] /\ h \in DOMAIN v
      BY <1>1, <1>3, <1>4, <3>3
    <3> QED
      BY <3>1, <3>3, <3>4 DEF Wildcards, Moved
  <2>2. ASSUME NEW k \in Moved(Wildcards(v), n) PROVE k \in Wildcards(p)
    <3>1. PICK h \in Wildcards(v) : k = n + h
      BY <2>2 DEF Moved
    <3>2. h \in 1 .. m /\ v[h].kind \in {"var", "rest"}
      BY <1>1, <1>3 DEF Wildcards
    <3>3. p[k] = v[h] /\ k \in 1 .. n + m
      BY <1>3, <1>4, <3>1, <3>2
    <3> QED
      BY <1>5, <3>2, <3>3 DEF Wildcards
  <2> QED
    BY <2>1, <2>2
<1>10. Cardinality(Wildcards(p)) = s
  <2>1. IsFiniteSet(Wildcards(v))
    BY <1>3, <1>8, Counted
  <2> QED
    BY <1>1, <1>8, <1>9, <2>1, MovedSize
<1>11. p[n + m] = v[m]
  <2>1. m \in 1 .. m
    BY <1>3
  <2> QED
    BY <1>4, <2>1
<1>12. ASSUME NEW k \in 1 .. n + m
       PROVE  \/ p[k].kind = "var" \/ (p[k].kind = "rest" /\ k = n + m) \/ \E w \in lits : p[k] = Lit(w)
  <2>1. CASE k \in 1 .. n
    BY <1>4, <2>1
  <2>2. ASSUME NEW h \in 1 .. m, k = n + h
        PROVE  \/ p[k].kind = "var" \/ (p[k].kind = "rest" /\ k = n + m) \/ \E w \in lits : p[k] = Lit(w)
    <3>1. p[k] = v[h]
      BY <1>4, <2>2
    <3>2. v[h].kind = "var" \/ (v[h].kind = "rest" /\ h = m) \/ \E w \in more : v[h] = Lit(w)
      BY <1>1, <1>3
    <3> QED
      BY <2>2, <3>1, <3>2
  <2> QED
    BY <1>6, <2>1, <2>2
<1>13. Len(p) \in Nat \ {0}
  BY <1>3, <1>4
<1>14. p[Len(p)] = v[Len(v)]
  BY <1>3, <1>4, <1>11
<1> QED
  BY <1>1, <1>2, <1>4, <1>10, <1>12, <1>13, <1>14 DEF Shaped

-----------------------------------------------------------------------------
\* The operations are well formed.
OperationOf(o, m, n) ==
    /\ Annotated(m) /\ m.verb \in STRING /\ m.http \in STRING /\ m.serverStream \in BOOLEAN
    /\ m.tmpl \in Seq(Element) /\ n \in Nat \ {0}
    /\ IsVar(m.tmpl[n]) /\ m.tmpl[n] \in Element
    /\ \A k \in 1 .. n - 1 : ~IsVar(m.tmpl[k]) /\ m.tmpl[k] \in Element /\ Len(m.tmpl[k].pat) = 1
    /\ Pattern(o) = m.tmpl[n].pat /\ Starry(Pattern(o))
    /\ \A t \in LiteralsOf(m) : Word(t)
    /\ m.verb = "" \/ Word(m.verb)

\* What an operation is made of.
LEMMA OperationIs ==
    ASSUME NEW o \in Ops, NEW m, m = Operations[o], NEW n, n = Len(m.tmpl)
    PROVE  OperationOf(o, m, n)
<1>1. m \in [http : STRING, verb : STRING, serverStream : BOOLEAN, tmpl : Seq([field : Seq(STRING), pat : Seq(STRING)])]
  <2> DEFINE R == [http : STRING, verb : STRING, serverStream : BOOLEAN,
                   tmpl : Seq([field : Seq(STRING), pat : Seq(STRING)])]
  <2>1. Operations \in Seq(R)
    BY OperationsAssumption
  <2> HIDE DEF R
  <2>2. Operations[o] \in R
    BY <2>1, ElementOf DEF Ops
  <2> QED
    BY <2>2 DEF R
<1>2. WellFormed(m)
  BY OperationsAssumption
<1>3. /\ Annotated(m)
      /\ \A k \in DOMAIN m.tmpl : IsVar(m.tmpl[k]) <=> k = Len(m.tmpl)
      /\ "*" \in ToSet(m.tmpl[Len(m.tmpl)].pat)
      /\ \A t \in LiteralsOf(m) : Word(t)
      /\ m.verb = "" \/ Word(m.verb)
  BY <1>2 DEF WellFormed
<1>4. m.tmpl \in Seq(Element) /\ m.tmpl # <<>> /\ \A k \in DOMAIN m.tmpl : ~IsVar(m.tmpl[k]) => Len(m.tmpl[k].pat) = 1
  BY <1>3 DEF Annotated, Element
<1>5. n \in Nat \ {0} /\ DOMAIN m.tmpl = 1 .. n /\ \A k \in 1 .. n : m.tmpl[k] \in Element
  BY <1>4
<1>6. n \in 1 .. n /\ \A k \in 1 .. n - 1 : k \in 1 .. n /\ k # n
  BY <1>5
<1>7. Pattern(o) = m.tmpl[n].pat
  BY DEF Pattern
<1>8. Starry(Pattern(o))
  <2>1. Pattern(o) \in Seq(STRING)
    BY <1>5, <1>6, <1>7 DEF Element
  <2>2. \A t \in ToSet(m.tmpl[n].pat) \ {"*"} : t \in LiteralsOf(m)
    BY DEF LiteralsOf
  <2> QED
    BY <1>3, <1>7, <2>1, <2>2 DEF Starry
<1> QED
  BY <1>1, <1>2, <1>3, <1>4, <1>5, <1>6, <1>7, <1>8 DEF OperationOf

\* The path of an operation: literals, and the wildcards of its variable.
LEMMA PathShape ==
    ASSUME NEW o \in Ops, NEW pat, pat = Pattern(o), NEW s, s = Len(Stars(pat))
    PROVE  Shaped(Path(o), pat, s, LiteralsOf(Operations[o]))
<1>1. PICK m : m = Operations[o]
  OBVIOUS
<1>2. PICK n : n = Len(m.tmpl)
  OBVIOUS
<1>3. PICK tmpl : tmpl = m.tmpl
  OBVIOUS
<1>4. /\ Annotated(m) /\ tmpl \in Seq(Element) /\ n \in Nat \ {0}
      /\ IsVar(tmpl[n]) /\ tmpl[n] \in Element
      /\ \A k \in 1 .. n - 1 : ~IsVar(tmpl[k]) /\ tmpl[k] \in Element /\ Len(tmpl[k].pat) = 1
      /\ pat = tmpl[n].pat /\ Starry(pat)
  <2>1. /\ Annotated(m) /\ m.tmpl \in Seq(Element) /\ n \in Nat \ {0}
        /\ IsVar(m.tmpl[n]) /\ m.tmpl[n] \in Element
        /\ \A k \in 1 .. n - 1 : ~IsVar(m.tmpl[k]) /\ m.tmpl[k] \in Element /\ Len(m.tmpl[k].pat) = 1
        /\ Pattern(o) = m.tmpl[n].pat /\ Starry(Pattern(o))
    <3>1. OperationOf(o, m, n)
      BY <1>1, <1>2, OperationIs
    <3> QED
      BY <3>1 DEF OperationOf
  <2> QED
    BY <1>3, <2>1
<1>5. Path(o) = UncutPath(tmpl)
  <2>1. MuxPath(m.tmpl, m.verb) = IF m.verb = "" \/ VerbIsCut(m.tmpl) THEN UncutPath(m.tmpl)
                                  ELSE [UncutPath(m.tmpl) EXCEPT ![Len(UncutPath(m.tmpl))].tail = m.verb]
    BY Zenon DEF MuxPath, UncutPath, Part
  <2>2. StarCount(pat) \in Nat \ {0}
    BY <1>4, StarryIs
  <2>3. VerbIsCut(m.tmpl)
    BY <1>2, <1>3, <1>4, <2>2 DEF VerbIsCut
  <2> QED
    BY <1>1, <1>3, <2>1, <2>3 DEF Path
<1>6. PICK i \in Nat : i = n - 1 /\ n = i + 1
  BY <1>4
<1> DEFINE t == [k \in 1 .. i + 1 |-> Part(tmpl[k], k = i + 1)]
           u == [k \in 1 .. i |-> t[k]]
           lead == [k \in 1 .. i |-> Lit(tmpl[k].pat[1])]
<1>7. UncutPath(tmpl) = FlattenSeq(t)
  <2>1. DOMAIN tmpl = 1 .. n /\ Len(tmpl) = n
    BY <1>2, <1>3, <1>4
  <2>2. n = i + 1
    BY <1>6
  <2>3. FlattenSeq([k \in DOMAIN tmpl |-> Part(tmpl[k], k = Len(tmpl))]) = FlattenSeq(t)
    BY <2>1, <2>2, Zenon
  <2> QED
    BY <2>3, Zenon DEF UncutPath
<1>8. ASSUME NEW k \in 1 .. i
      PROVE  /\ Lit(tmpl[k].pat[1]) \in SegSet /\ t[k] = <<Lit(tmpl[k].pat[1])>>
             /\ tmpl[k].pat[1] \in LiteralsOf(m)
  <2>1. k \in 1 .. n - 1 /\ k \in 1 .. i + 1 /\ k # i + 1
    BY <1>6
  <2>2. ~IsVar(tmpl[k]) /\ tmpl[k] \in Element /\ Len(tmpl[k].pat) = 1
    BY <1>4, <2>1
  <2>3. tmpl[k].pat[1] \in STRING
    BY <2>2 DEF Element
  <2>4. Lit(tmpl[k].pat[1]) \in SegSet
    BY <2>3, SegsMade
  <2>5. t[k] = <<Lit(tmpl[k].pat[1])>>
    BY <2>1, <2>2 DEF Part
  <2>6. tmpl[k].pat[1] \in LiteralsOf(m)
    BY <1>2, <1>3, <2>1 DEF LiteralsOf
  <2> QED
    BY <2>4, <2>5, <2>6
<1>9. PICK v : v = VarSegments(tmpl[n], TRUE)
  OBVIOUS
<1>10. Shaped(v, pat, s, ToSet(pat) \ {"*"})
  <2>1. PICK e \in Element : e = tmpl[n]
    BY <1>4
  <2> QED
    BY <1>4, <1>9, <2>1, VariableShape
<1>11. v \in Seq(SegSet)
  BY <1>10 DEF Shaped
<1>12. t[i + 1] = v
  <2>1. i + 1 \in 1 .. i + 1 /\ (i + 1 = i + 1) = TRUE
    BY <1>6
  <2>2. t[i + 1] = Part(tmpl[i + 1], TRUE)
    BY <2>1, Zenon
  <2>3. n = i + 1
    BY <1>6
  <2> QED
    BY <1>4, <1>9, <2>2, <2>3 DEF Part
<1>13. t \in [1 .. i + 1 -> Seq(SegSet)]
  <2>1. DOMAIN t = 1 .. i + 1 /\ t = [k \in DOMAIN t |-> t[k]]
    OBVIOUS
  <2>2. \A k \in 1 .. i + 1 : k \in 1 .. i \/ k = i + 1
    OBVIOUS
  <2>3. \A k \in 1 .. i : <<Lit(tmpl[k].pat[1])>> \in Seq(SegSet)
    BY <1>8, OneOf
  <2>4. \A k \in 1 .. i + 1 : t[k] \in Seq(SegSet)
    BY <1>8, <1>11, <1>12, <2>2, <2>3, Zenon
  <2> QED
    BY <2>1, <2>4
<1>14. lead \in Seq(SegSet) /\ Len(lead) = i /\ \A k \in 1 .. i : lead[k] = Lit(tmpl[k].pat[1])
  <2>1. \A k \in 1 .. i : Lit(tmpl[k].pat[1]) \in SegSet
    BY <1>8
  <2>2. lead \in [1 .. i -> SegSet]
    BY <2>1, Zenon
  <2>3. \A k \in 1 .. i : lead[k] = Lit(tmpl[k].pat[1])
    BY Zenon
  <2> HIDE DEF lead
  <2> QED
    BY <2>2, <2>3
<1> HIDE DEF t, lead
<1>15. FlattenSeq(t) = FlattenSeq(u) \o t[i + 1]
  BY <1>13, FlattenNext
<1>16. FlattenSeq(u) = lead
  <2>1. CASE i = 0
    <3>1. DOMAIN u = 1 .. 0 /\ lead = <<>>
      BY <1>14, <2>1
    <3> QED
      BY <3>1, FlattenEmpty
  <2>2. CASE i # 0
    <3>1. u \in [1 .. i -> Seq(SegSet)] /\ \A k \in 1 .. i : u[k] = t[k]
      BY <1>13
    <3> HIDE DEF u
    <3>2. \A k \in 1 .. i : Len(u[k]) = 1 /\ u[k][1] = lead[k]
      <4> SUFFICES ASSUME NEW k \in 1 .. i PROVE Len(u[k]) = 1 /\ u[k][1] = lead[k]
        OBVIOUS
      <4>1. u[k] = <<lead[k]>>
        BY <1>8, <1>14, <3>1, Zenon
      <4> QED
        BY <4>1
    <3>3. i \in Nat \ {0} /\ i \in 1 .. i
      BY <2>2
    <3>4. /\ FlattenSeq(u) \in Seq(SegSet) /\ Len(FlattenSeq(u)) = i - 1 + Len(u[i])
          /\ \A k \in 1 .. i : Len(u[k]) # 0 => FlattenSeq(u)[k] = u[k][1]
      <4>1. \A k \in 1 .. i - 1 : Len(u[k]) = 1
        BY <3>2, <3>3
      <4> QED
        BY <3>1, <3>3, <4>1, FlattenOnes
    <3>5. Len(FlattenSeq(u)) = i
      <4>1. Len(u[i]) = 1
        BY <3>2, <3>3
      <4> QED
        BY <3>3, <3>4, <4>1
    <3>6. \A k \in 1 .. i : FlattenSeq(u)[k] = lead[k]
      BY <3>2, <3>4
    <3> QED
      BY <1>14, <3>4, <3>5, <3>6
  <2> QED
    BY <2>1, <2>2
<1>17. Path(o) = lead \o v
  BY <1>5, <1>7, <1>12, <1>15, <1>16
<1>18. \A k \in 1 .. i : \E w \in LiteralsOf(m) : lead[k] = Lit(w)
  BY <1>8, <1>14
<1>19. ToSet(pat) \ {"*"} \subseteq LiteralsOf(m)
  BY <1>2, <1>3, <1>4 DEF LiteralsOf
<1>20. Shaped(lead \o v, pat, s, LiteralsOf(m))
  BY <1>10, <1>14, <1>18, <1>19, LiteralsAhead
<1> QED
  BY <1>1, <1>17, <1>20

-----------------------------------------------------------------------------
\* The states a call goes through.
LEMMA Least ==
    ASSUME NEW S, S \subseteq Nat, S # {}
    PROVE  /\ (CHOOSE m \in S : \A k \in S : m <= k) \in S
           /\ \A k \in S : (CHOOSE m \in S : \A i \in S : m <= i) <= k
<1> DEFINE T == {n \in Nat : \A k \in S : ~(k <= n)}
<1>1. ASSUME \A m \in S : \E k \in S : ~(m <= k) PROVE FALSE
  <2>1. 0 \in T
    <3>1. ASSUME 0 \in S PROVE FALSE
      <4>1. PICK k \in S : ~(0 <= k)
        BY <1>1, <3>1
      <4> QED
        BY <4>1
    <3>2. \A k \in S : k <= 0 => k = 0
      OBVIOUS
    <3> QED
      BY <3>1, <3>2
  <2>2. ASSUME NEW n \in T PROVE n + 1 \in T
    <3>1. n \in Nat /\ n + 1 \in Nat /\ \A k \in S : ~(k <= n)
      OBVIOUS
    <3>2. ASSUME n + 1 \in S PROVE FALSE
      <4>1. PICK k \in S : ~(n + 1 <= k)
        BY <1>1, <3>2
      <4>2. k <= n
        BY <3>1, <4>1
      <4> QED
        BY <3>1, <4>2
    <3>3. \A k \in S : k <= n + 1 => k <= n \/ k = n + 1
      BY <3>1
    <3>4. \A k \in S : ~(k <= n + 1)
      BY <3>1, <3>2, <3>3
    <3> QED
      BY <3>1, <3>4
  <2>3. T \in SUBSET Nat
    OBVIOUS
  <2> HIDE DEF T
  <2>4. T = Nat
    BY <2>1, <2>2, <2>3, SetInduction
  <2>5. PICK k \in S : k \in Nat
    OBVIOUS
  <2>6. k \in T
    BY <2>4, <2>5
  <2>7. ~(k <= k)
    BY <2>6 DEF T
  <2> QED
    BY <2>5, <2>7
<1>2. \E m \in S : \A k \in S : m <= k
  BY <1>1
<1> QED
  BY <1>2

\* The choice of the first one is one of them.
LEMMA LeastOp ==
    ASSUME NEW S, S \subseteq Ops, S # {}
    PROVE  /\ (CHOOSE m \in S : \A k \in S : m <= k) \in S
           /\ \A k \in S : (CHOOSE m \in S : \A i \in S : m <= i) <= k
<1>1. Ops \subseteq Nat
  <2> DEFINE R == [http : STRING, verb : STRING, serverStream : BOOLEAN,
                   tmpl : Seq([field : Seq(STRING), pat : Seq(STRING)])]
  <2>1. Operations \in Seq(R)
    BY OperationsAssumption
  <2> HIDE DEF R
  <2>2. Len(Operations) \in Nat /\ DOMAIN Operations = 1 .. Len(Operations)
    BY <2>1
  <2> QED
    BY <2>2 DEF Ops
<1> QED
  BY <1>1, Least

\* The dispatcher hands the call to one operation of the group, if to any.
LEMMA ChosenIs ==
    ASSUME NEW o \in Ops, NEW vals
    PROVE  Chosen(o, vals) \subseteq Group(o)
<1> DEFINE cases == IF vals = <<>> THEN {} ELSE {p \in Verbs(o) : IsSuffix(Verb(p), vals[Len(vals)])}
<1>1. Base(o) \subseteq Group(o) /\ Verbs(o) \subseteq Group(o) /\ Group(o) \subseteq Ops
  BY DEF Base, Verbs, Group
<1>2. cases \subseteq Ops /\ cases \subseteq Group(o)
  BY <1>1
<1>3. Chosen(o, vals) = IF cases # {} THEN {CHOOSE p \in cases : \A q \in cases : p <= q} ELSE Base(o)
  BY Zenon DEF Chosen
<1> HIDE DEF cases
<1>4. cases # {} => (CHOOSE p \in cases : \A q \in cases : p <= q) \in cases
  BY <1>2, LeastOp
<1> QED
  BY <1>1, <1>2, <1>3, <1>4

\* One value is captured per wildcard.
LEMMA CapturedLength ==
    ASSUME NEW o \in Ops, NEW segs
    PROVE  /\ Len(Captured(Path(o), segs)) = Len(Stars(Pattern(o)))
           /\ DOMAIN Captured(Path(o), segs) = 1 .. Len(Stars(Pattern(o)))
<1>1. /\ Path(o) \in Seq(SegSet) /\ Cardinality(Wildcards(Path(o))) = Len(Stars(Pattern(o)))
      /\ Len(Path(o)) \in Nat
  BY PathShape DEF Shaped
<1>2. Below(Wildcards(Path(o)), Len(Path(o)))
  BY <1>1, WildcardsBelow
<1> DEFINE at == Ascending(Wildcards(Path(o)))
<1>3. at \in Seq(1 .. Len(Path(o))) /\ Len(at) = Len(Stars(Pattern(o))) /\ Len(at) \in Nat
  BY <1>1, <1>2, AscendingRank
<1>4. DOMAIN Captured(Path(o), segs) = DOMAIN at
  BY DEF Captured
<1>5. Captured(Path(o), segs) = [j \in DOMAIN at |-> Captured(Path(o), segs)[j]]
  BY Zenon DEF Captured
<1> HIDE DEF at
<1>6. DOMAIN at = 1 .. Len(Stars(Pattern(o)))
  BY <1>3
<1> QED
  BY <1>3, <1>4, <1>5, <1>6

\* What is so of a call in each of its steps.
Sent ==
    /\ call.op \in Ops /\ call.client \in Clients /\ call.ids \in IdsFor(call.op)
    /\ call.name \in NamesFor(call.op, call.ids)
    /\ url = Url(call.client, call.op, call.name)
Matched ==
    /\ Clean(Segments(url)) = Segments(url)
    /\ slot \in Best(Operations[call.op].http, Segments(url))
    /\ values = Captured(Path(slot), Segments(url))
PathVarsInv ==
    /\ step \in {"idle", "sent", "matched"} \cup Ended
    /\ step # "idle" => Sent
    /\ step = "matched" => Matched
    /\ step = "redirected" => Clean(Segments(url)) # Segments(url)
    /\ step = "notFound" => \/ Best(Operations[call.op].http, Segments(url)) = {}
                            \/ Matched /\ Chosen(slot, values) = {}
    /\ step = "handled" =>
         /\ Matched
         /\ got.op \in Chosen(slot, values)
         /\ got = [op |-> got.op, name |-> IF Operations[got.op].serverStream THEN call.name
                                            ELSE Rebuilt(got.op, values)]

\* PathVarsInv holds before the first call.
LEMMA InvInit ==
    ASSUME Init
    PROVE  PathVarsInv
BY DEF Init, PathVarsInv, Ended

\* Send, Match and Handle keep it, each for the step it begins.
LEMMA SendKeeps ==
    ASSUME PathVarsInv, Send
    PROVE  PathVarsInv'
<1>1. PICK o \in Ops, client \in Clients : \E ids \in IdsFor(o) : \E name \in NamesFor(o, ids) :
         /\ call' = [op |-> o, client |-> client, ids |-> ids, name |-> name]
         /\ url' = Url(client, o, name)
  BY DEF Send
<1>a. PICK ids \in IdsFor(o) : \E name \in NamesFor(o, ids) :
         /\ call' = [op |-> o, client |-> client, ids |-> ids, name |-> name]
         /\ url' = Url(client, o, name)
  BY <1>1
<1>2. PICK name \in NamesFor(o, ids) :
         /\ call' = [op |-> o, client |-> client, ids |-> ids, name |-> name]
         /\ url' = Url(client, o, name)
  BY <1>a
<1>3. /\ call'.op = o /\ call'.client = client /\ call'.ids = ids /\ call'.name = name
  BY <1>2
<1>4. Sent'
  BY <1>2, <1>3 DEF Sent
<1>5. step' = "sent"
  BY DEF Send
<1> QED
  BY <1>4, <1>5 DEF PathVarsInv

\* Match keeps PathVarsInv.
LEMMA MatchKeeps ==
    ASSUME PathVarsInv, Match
    PROVE  PathVarsInv'
<1> DEFINE segs == Segments(url)
           best == Best(Operations[call.op].http, segs)
<1>1. step = "sent" /\ UNCHANGED <<call, url, got>>
  BY DEF Match
<1>2. Sent /\ Sent'
  BY <1>1 DEF PathVarsInv, Sent
<1>3. segs' = segs /\ best' = best
  BY <1>1 DEF Best, MatchedBy
<1>4. \/ Clean(segs) # segs /\ step' = "redirected"
      \/ best = {} /\ step' = "notFound"
      \/ /\ Clean(segs) = segs /\ best # {}
         /\ slot' = CHOOSE o \in best : \A p \in best : o <= p
         /\ values' = Captured(Path(slot'), segs) /\ step' = "matched"
  BY DEF Match
<1>5. CASE Clean(segs) # segs /\ step' = "redirected"
  BY <1>2, <1>3, <1>5 DEF PathVarsInv, Ended
<1>6. CASE best = {} /\ step' = "notFound"
  BY <1>2, <1>3, <1>6 DEF PathVarsInv, Ended
<1>7. CASE /\ Clean(segs) = segs /\ best # {}
           /\ slot' = CHOOSE o \in best : \A p \in best : o <= p
           /\ values' = Captured(Path(slot'), segs) /\ step' = "matched"
  <2>1. best \subseteq Ops
    BY DEF Best, MatchedBy
  <2> HIDE DEF best
  <2>2. (CHOOSE o \in best : \A p \in best : o <= p) \in best
    BY <1>7, <2>1, LeastOp
  <2>3. slot' \in best'
    BY <1>3, <1>7, <2>2
  <2>4. Matched'
    BY <1>3, <1>7, <2>3 DEF Matched, best
  <2> QED
    BY <1>2, <1>7, <2>4 DEF PathVarsInv
<1> QED
  BY <1>4, <1>5, <1>6, <1>7

\* Handle keeps PathVarsInv.
LEMMA HandleKeeps ==
    ASSUME PathVarsInv, Handle
    PROVE  PathVarsInv'
<1>1. step = "matched" /\ UNCHANGED <<call, url, slot, values>>
  BY DEF Handle
<1>2. Sent /\ Sent' /\ Matched
  BY <1>1 DEF PathVarsInv, Sent
<1>3. Matched'
  BY <1>1, <1>2 DEF Matched, Best, MatchedBy
<1>4. Chosen(slot, values)' = Chosen(slot, values)
  BY <1>1
<1>5. \/ Chosen(slot, values) = {} /\ step' = "notFound"
      \/ \E o \in Chosen(slot, values) :
            /\ step' = "handled"
            /\ got' = [op |-> o, name |-> IF Operations[o].serverStream THEN call.name
                                          ELSE Rebuilt(o, values)]
  BY DEF Handle
<1>6. CASE Chosen(slot, values) = {} /\ step' = "notFound"
  BY <1>2, <1>3, <1>4, <1>6 DEF PathVarsInv, Ended
<1>7. ASSUME NEW o \in Chosen(slot, values), step' = "handled",
             got' = [op |-> o, name |-> IF Operations[o].serverStream THEN call.name
                                        ELSE Rebuilt(o, values)]
      PROVE  PathVarsInv'
  <2>1. got'.op = o /\ got'.name = IF Operations[o].serverStream THEN call.name ELSE Rebuilt(o, values)
    BY <1>7
  <2>2. got'.op \in Chosen(slot, values)' /\ Rebuilt(got.op, values)' = Rebuilt(o, values)
    BY <1>1, <1>4, <1>7, <2>1
  <2> QED
    BY <1>1, <1>2, <1>3, <1>7, <2>1, <2>2 DEF PathVarsInv, Ended
<1> QED
  BY <1>5, <1>6, <1>7

\* Every state of a call is what the steps before made of it: the URL of its
\* client, a slot among the best matches, the values its path captures, and the
\* operation and the name the dispatcher and the handler make of those (the
\* generated clients, the ServeMux, the dispatchers and handlers).
THEOREM PathVarsInductive == Spec => []PathVarsInv
<1>1. Init => PathVarsInv
  BY InvInit
<1>2. PathVarsInv /\ [Next]_vars => PathVarsInv'
  <2> SUFFICES ASSUME PathVarsInv, [Next]_vars PROVE PathVarsInv'
    OBVIOUS
  <2>1. CASE Send
    BY <2>1, SendKeeps
  <2>2. CASE Match
    BY <2>2, MatchKeeps
  <2>3. CASE Handle
    BY <2>3, HandleKeeps
  <2>4. CASE Finish
    BY <2>4 DEF Finish, PathVarsInv, Ended
  <2>5. CASE UNCHANGED vars
    BY <2>5 DEF vars, PathVarsInv, Sent, Matched, Best, MatchedBy
  <2> QED
    BY <2>1, <2>2, <2>3, <2>4, <2>5 DEF Next
<1> QED
  BY <1>1, <1>2, PTL DEF Spec

\* TypeOK: among the rest, that a match captures one value per wildcard of the
\* route and that the handler that runs is of the group whose pattern matched
\* (the dispatchers of protoc-gen-aip-go).
THEOREM TypeCorrect == Spec => []TypeOK
<1>1. PathVarsInv => TypeOK
  <2> SUFFICES ASSUME PathVarsInv PROVE TypeOK
    OBVIOUS
  <2>1. step \in {"idle", "sent", "matched"} \cup Ended /\ (step # "idle" => Sent)
    BY DEF PathVarsInv
  <2>2. step # "idle" => call.op \in Ops /\ call.client \in Clients
    BY <2>1 DEF Sent
  <2>3. ASSUME Matched PROVE slot \in Ops /\ Len(values) = Len(Stars(Pattern(slot)))
    <3>1. slot \in Ops /\ values = Captured(Path(slot), Segments(url))
      BY <2>3 DEF Matched, Best, MatchedBy
    <3> QED
      BY <3>1, CapturedLength
  <2>4. step = "matched" => Matched
    BY DEF PathVarsInv
  <2>5. step = "handled" => got.op \in Group(slot)
    BY <2>3, ChosenIs DEF PathVarsInv
  <2> QED
    BY <2>1, <2>2, <2>3, <2>4, <2>5 DEF TypeOK
<1> QED
  BY <1>1, PathVarsInductive, PTL

-----------------------------------------------------------------------------
\* The segments of a URL.
LEMMA VerbIs ==
    ASSUME NEW o \in Ops
    PROVE  /\ Verb(o) \in Texts /\ (Verb(o) = <<>> \/ VerbText(Verb(o)))
           /\ Verb(o) = <<>> <=> Operations[o].verb = ""
<1>1. PICK m : m = Operations[o]
  OBVIOUS
<1>2. OperationOf(o, m, Len(m.tmpl))
  BY <1>1, OperationIs
<1>3. m.verb \in STRING /\ (m.verb = "" \/ Word(m.verb))
  BY <1>2 DEF OperationOf
<1>4. Verb(o) = IF m.verb = "" THEN <<>> ELSE <<":", m.verb>>
  BY <1>1 DEF Verb
<1>5. m.verb \in Tokens
  BY <1>3 DEF Tokens
<1>6. Verb(o) = <<>> \/ VerbText(Verb(o))
  BY <1>3, <1>4, <1>5 DEF VerbText
<1>7. <<":", m.verb>> # <<>>
  OBVIOUS
<1> QED
  BY <1>1, <1>4, <1>6, <1>7, VerbTextIs

ValueOf(client, o, name, j) ==
    IF client = "go" /\ Operations[o].serverStream THEN ExtractSSE(Pattern(o), name, j)
    ELSE Extract(client, Pattern(o), name, j)
PartAt(client, o, name, k) ==
    LET path == ClientPath(client, o)
    IN IF path[k].kind = "lit" THEN path[k].text
       ELSE escapePathVar(client, ValueOf(client, o, name, NthOf(Wildcards(path), k)), path[k].kind = "rest")

\* A URL is the parts of the client's path, joined, and the verb.
LEMMA UrlIs ==
    ASSUME NEW client, NEW o, NEW name
    PROVE  Url(client, o, name) =
             Joined([k \in DOMAIN ClientPath(client, o) |-> PartAt(client, o, name, k)], Slash) \o Verb(o)
BY Zenon DEF Url, PartAt, ValueOf, NthOf, UpTo

\* A client takes the server's path, or a segment for the rest of it.
LEMMA ClientPathIs ==
    ASSUME NEW client, NEW o \in Ops, NEW path, path = Path(o), NEW p, p = ClientPath(client, o)
    PROVE  /\ DOMAIN p = 1 .. Len(path) /\ Wildcards(p) = Wildcards(path)
           /\ \A k \in 1 .. Len(path) :
                /\ p[k].kind = "lit" <=> path[k].kind = "lit"
                /\ p[k].text = path[k].text
                /\ p[k].kind = "rest" => path[k].kind = "rest"
<1>1. /\ path \in Seq(SegSet) /\ Len(path) \in Nat /\ DOMAIN path = 1 .. Len(path)
  <2>1. Shaped(Path(o), Pattern(o), Len(Stars(Pattern(o))), LiteralsOf(Operations[o]))
    BY PathShape
  <2>2. path \in Seq(SegSet) /\ Len(path) \in Nat
    BY <2>1 DEF Shaped
  <2> QED
    BY <2>2
<1>2. p = IF client = "go" \/ Operations[o].verb = "" THEN path
          ELSE [k \in DOMAIN path |-> IF path[k].kind = "rest" THEN [path[k] EXCEPT !.kind = "var"] ELSE path[k]]
  BY Zenon DEF ClientPath, Path
<1>3. ASSUME NEW k \in 1 .. Len(path)
      PROVE  LET x == [path[k] EXCEPT !.kind = "var"] IN x.kind = "var" /\ x.text = path[k].text
  <2>1. path[k] \in SegRecords
    BY <1>1 DEF SegSet
  <2> QED
    BY <2>1 DEF SegRecords
<1>4. DOMAIN p = 1 .. Len(path)
  BY <1>1, <1>2
<1>5. \A k \in 1 .. Len(path) :
         \/ p[k] = path[k]
         \/ path[k].kind = "rest" /\ p[k] = [path[k] EXCEPT !.kind = "var"]
  BY <1>1, <1>2
<1>6. \A k \in 1 .. Len(path) :
         /\ p[k].kind = "lit" <=> path[k].kind = "lit"
         /\ p[k].text = path[k].text
         /\ p[k].kind = "rest" => path[k].kind = "rest"
         /\ p[k].kind \in {"var", "rest"} <=> path[k].kind \in {"var", "rest"}
  <2> SUFFICES ASSUME NEW k \in 1 .. Len(path)
               PROVE  /\ p[k].kind = "lit" <=> path[k].kind = "lit"
                      /\ p[k].text = path[k].text
                      /\ p[k].kind = "rest" => path[k].kind = "rest"
                      /\ p[k].kind \in {"var", "rest"} <=> path[k].kind \in {"var", "rest"}
    BY Zenon
  <2>1. CASE p[k] = path[k]
    BY <2>1
  <2>2. CASE path[k].kind = "rest" /\ p[k] = [path[k] EXCEPT !.kind = "var"]
    <3>1. p[k].kind = "var" /\ p[k].text = path[k].text
      BY <1>3, <2>2
    <3> QED
      BY <2>2, <3>1
  <2> QED
    BY <1>5, <2>1, <2>2
<1>7. Wildcards(p) = Wildcards(path)
  BY <1>1, <1>4, <1>6 DEF Wildcards
<1> QED
  BY <1>4, <1>6, <1>7

\* What the segments of a URL are, V being the values of its wildcards: the
\* first ones fr are literals and escaped values, the last part may be several.
Carries(client, segs, path, V, verb, fr, last, multi) ==
    /\ fr \in Seq(Texts) /\ Len(fr) = Len(path) - 1 /\ last \in Texts /\ multi \in BOOLEAN
    /\ segs = fr \o Segments(last \o verb)
    /\ \A k \in 1 .. Len(path) - 1 :
         fr[k] = IF path[k].kind = "lit" THEN path[k].text
                 ELSE escapePathVar(client, V[NthOf(Wildcards(path), k)], FALSE)
    /\ last = IF path[Len(path)].kind = "lit" THEN path[Len(path)].text
              ELSE escapePathVar(client, V[Cardinality(Wildcards(path))], multi)
    /\ multi => path[Len(path)].kind = "rest"

ValuesOf(client, o, name) == [j \in 1 .. Len(Stars(Pattern(o))) |-> ValueOf(client, o, name, j)]

\* The segments of a URL are those of its values.
LEMMA UrlSegments ==
    ASSUME NEW client, NEW o \in Ops, NEW name, NEW s, s = Len(Stars(Pattern(o))),
           NEW V \in [1 .. s -> Texts], V = ValuesOf(client, o, name)
    PROVE  \E fr, last, multi :
             /\ Carries(client, Segments(Url(client, o, name)), Path(o), V, Verb(o), fr, last, multi)
             /\ multi <=> ClientPath(client, o)[Len(Path(o))].kind = "rest"
<1>1. PICK path : path = Path(o)
  OBVIOUS
<1>2. PICK p : p = ClientPath(client, o)
  OBVIOUS
<1>3. PICK W : W = Wildcards(path)
  OBVIOUS
<1>4. /\ path \in Seq(SegSet) /\ Len(path) \in Nat \ {0} /\ DOMAIN path = 1 .. Len(path)
      /\ \A k \in 1 .. Len(path) :
           \/ path[k].kind = "var"
           \/ path[k].kind = "rest" /\ k = Len(path)
           \/ \E w \in LiteralsOf(Operations[o]) : path[k] = Lit(w)
      /\ Cardinality(W) = s
  BY <1>1, <1>3, PathShape DEF Shaped
<1>5. PICK i \in Nat : Len(path) = i + 1 /\ i = Len(path) - 1
  <2>1. PICK n \in Nat : n = Len(path) /\ n # 0
    BY <1>4
  <2>2. n - 1 \in Nat /\ n = (n - 1) + 1
    BY <2>1
  <2> QED
    BY <2>1, <2>2
<1>6. /\ DOMAIN p = 1 .. i + 1 /\ Wildcards(p) = W
      /\ \A k \in 1 .. i + 1 :
           /\ p[k].kind = "lit" <=> path[k].kind = "lit"
           /\ p[k].text = path[k].text
           /\ p[k].kind = "rest" => path[k].kind = "rest"
  BY <1>1, <1>2, <1>3, <1>5, ClientPathIs
<1>7. ASSUME NEW k \in 1 .. i + 1, path[k].kind # "lit" PROVE k \in W /\ NthOf(W, k) \in 1 .. s
  <2>1. k \in W
    <3>1. path[k].kind \in {"var", "rest"}
      BY <1>4, <1>5, <1>7, LitIs
    <3> QED
      BY <1>3, <1>4, <1>5, <3>1 DEF Wildcards
  <2>2. Below(W, Len(path))
    BY <1>3, <1>4, WildcardsBelow
  <2> QED
    BY <1>4, <2>1, <2>2, RanksOnce
<1>8. \A t \in LiteralsOf(Operations[o]) : Word(t)
  <2>1. PICK m : m = Operations[o]
    OBVIOUS
  <2>2. OperationOf(o, m, Len(m.tmpl))
    BY <2>1, OperationIs
  <2> QED
    BY <2>1, <2>2 DEF OperationOf
<1>9. ASSUME NEW k \in 1 .. i + 1, path[k].kind = "lit"
      PROVE  path[k].text \in Texts /\ Slashless(path[k].text)
  <2>1. PICK w \in LiteralsOf(Operations[o]) : path[k] = Lit(w)
    BY <1>4, <1>5, <1>9
  <2>2. w \in STRING
    <3>1. path[k] \in SegSet
      BY <1>4, <1>5
    <3>2. path[k].text \in VarTexts
      BY <1>9, <3>1, SegFields
    <3>3. <<w>> \in VarTexts
      BY <2>1, <3>2, LitIs
    <3> QED
      BY <3>3 DEF VarTexts
  <2>3. w \in Tokens
    BY <2>2 DEF Tokens
  <2>4. <<w>> \in Texts /\ Slashless(<<w>>)
    BY <1>8, <2>3, WordsFit
  <2> QED
    BY <2>1, <2>4, LitIs
<1> DEFINE P == [k \in 1 .. i + 1 |-> PartAt(client, o, name, k)]
           fr == [k \in 1 .. i |-> P[k]]
<1>10. Url(client, o, name) = Joined(P, Slash) \o Verb(o)
  <2>1. [k \in DOMAIN p |-> PartAt(client, o, name, k)] = P
    BY <1>6
  <2> QED
    BY <1>2, <2>1, UrlIs
<1>11. ASSUME NEW k \in 1 .. i + 1
       PROVE  PartAt(client, o, name, k) = IF path[k].kind = "lit" THEN path[k].text
                                           ELSE escapePathVar(client, V[NthOf(W, k)], p[k].kind = "rest")
  <2>1. CASE path[k].kind = "lit"
    BY <1>2, <1>6, <2>1 DEF PartAt
  <2>2. CASE path[k].kind # "lit"
    <3>1. V[NthOf(W, k)] = ValueOf(client, o, name, NthOf(W, k))
      BY <1>7, <2>2 DEF ValuesOf
    <3>2. PartAt(client, o, name, k) = escapePathVar(client, ValueOf(client, o, name, NthOf(W, k)), p[k].kind = "rest")
      BY <1>2, <1>6, <2>2, Zenon DEF PartAt
    <3> QED
      BY <2>2, <3>1, <3>2, Zenon
  <2> QED
    BY <2>1, <2>2
<1>12. ASSUME NEW k \in 1 .. i + 1
       PROVE  /\ P[k] \in Texts
              /\ ~(p[k].kind = "rest") => Slashless(P[k])
  <2>1. P[k] = PartAt(client, o, name, k)
    OBVIOUS
  <2> HIDE DEF P
  <2>2. CASE path[k].kind = "lit"
    BY <1>9, <1>11, <2>1, <2>2
  <2>3. CASE path[k].kind # "lit"
    <3>1. PICK x \in Texts : x = V[NthOf(W, k)]
      BY <1>7, <2>3
    <3>2. PICK b \in BOOLEAN : b = (p[k].kind = "rest")
      OBVIOUS
    <3>3. P[k] = escapePathVar(client, x, b)
      BY <1>11, <2>1, <2>3, <3>1, <3>2, Zenon
    <3>4. P[k] \in Texts /\ (~b => Slashless(P[k]))
      BY <3>3, EscapedText, Zenon
    <3> QED
      BY <3>2, <3>4
  <2> QED
    BY <2>2, <2>3
<1>13. ASSUME NEW k \in 1 .. i PROVE p[k].kind # "rest" /\ k \in 1 .. i + 1
  <2>1. k \in 1 .. i + 1 /\ k # i + 1
    OBVIOUS
  <2>2. path[k].kind # "rest"
    BY <1>4, <1>5, <2>1, LitIs
  <2> QED
    BY <1>6, <2>1, <2>2
<1>14. \A k \in 1 .. i : fr[k] = P[k] /\ P[k] \in Texts /\ Slashless(P[k])
  <2> HIDE DEF P
  <2> QED
    BY <1>12, <1>13
<1>15. PICK last \in Texts : last = P[i + 1]
  <2>1. i + 1 \in 1 .. i + 1
    OBVIOUS
  <2> HIDE DEF P
  <2> QED
    BY <1>12, <2>1
<1>16. P \in [1 .. i + 1 -> Texts] /\ \A k \in 1 .. i + 1 : P[k] = PartAt(client, o, name, k)
  <2>1. P = [k \in 1 .. i + 1 |-> P[k]] /\ \A k \in 1 .. i + 1 : P[k] = PartAt(client, o, name, k)
    OBVIOUS
  <2> HIDE DEF P
  <2> QED
    BY <1>12, <2>1
<1> HIDE DEF P
<1>17. fr \in Seq(Texts) /\ Len(fr) = i /\ \A k \in 1 .. i : fr[k] = P[k]
  <2>1. fr \in [1 .. i -> Texts]
    BY <1>14
  <2> QED
    BY <2>1, <1>14
<1> HIDE DEF fr
<1>18. P = Append(fr, last)
  <2>1. Append(fr, last) \in Seq(Texts) /\ Len(Append(fr, last)) = i + 1
    BY <1>17
  <2>2. \A k \in 1 .. i : Append(fr, last)[k] = P[k]
    BY <1>17
  <2>3. Append(fr, last)[i + 1] = P[i + 1]
    BY <1>15, <1>17
  <2>4. \A k \in 1 .. i + 1 : Append(fr, last)[k] = P[k]
    <3>1. \A k \in 1 .. i + 1 : k \in 1 .. i \/ k = i + 1
      OBVIOUS
    <3> QED
      BY <2>2, <2>3, <3>1
  <2>5. P \in Seq(Texts) /\ Len(P) = i + 1
    BY <1>16
  <2>6. \A a, b \in Seq(Texts) : Len(a) = i + 1 /\ Len(b) = i + 1 /\ (\A k \in 1 .. i + 1 : a[k] = b[k]) => a = b
    OBVIOUS
  <2> QED
    BY <2>1, <2>4, <2>5, <2>6
<1>19. Segments(Url(client, o, name)) = fr \o Segments(last \o Verb(o))
  <2>1. Verb(o) \in Texts /\ Cat(last, Verb(o)) \in Texts
    BY VerbIs, Cats
  <2>2. CASE i = 0
    <3>1. fr = <<>>
      BY <1>17, <2>2
    <3>2. P = <<last>>
      BY <1>18, <3>1
    <3>3. Joined(P, Slash) = last
      BY <3>2, JoinedOne
    <3>4. Segments(last \o Verb(o)) \in Seq(Texts)
      BY <2>1, SegmentsAre DEF Cat
    <3> QED
      BY <1>10, <3>1, <3>3, <3>4
  <2>3. CASE i # 0
    <3>1. fr # <<>>
      BY <1>17, <2>3
    <3>2. Parted(fr)
      BY <1>14, <1>17, <3>1 DEF Parted
    <3>3. Joined(P, Slash) = Joined(fr, Slash) \o (Slash \o last)
      BY <1>17, <1>18, <3>1, JoinedNext
    <3>4. PICK j \in Texts : j = Joined(fr, Slash)
      BY <1>17, JoinedIs
    <3>5. Cat(Cat(j, Cat(Slash, last)), Verb(o)) = Cat(j, Cat(Slash, Cat(last, Verb(o))))
      <4>1. /\ Cat(Slash, last) \in Texts
            /\ Cat(Cat(j, Cat(Slash, last)), Verb(o)) = Cat(j, Cat(Cat(Slash, last), Verb(o)))
        BY <2>1, SlashFits, Cats
      <4>2. Cat(Cat(Slash, last), Verb(o)) = Cat(Slash, Cat(last, Verb(o)))
        BY <2>1, SlashFits, Cats
      <4> QED
        BY <4>1, <4>2
    <3>6. Joined(P, Slash) = Cat(j, Cat(Slash, last))
      BY <3>3, <3>4, Zenon DEF Cat
    <3>7. Url(client, o, name) = Cat(Joined(P, Slash), Verb(o))
      BY <1>10, Zenon DEF Cat
    <3>8. PICK z \in Texts : z = Cat(last, Verb(o))
      BY <2>1
    <3>9. Url(client, o, name) = Cat(j, Cat(Slash, z))
      BY <3>5, <3>6, <3>7, <3>8
    <3>10. Segments(j \o (Slash \o z)) = Segments(j) \o Segments(z)
      BY SegmentsSplit
    <3>11. Segments(Url(client, o, name)) = Segments(j) \o Segments(z)
      BY <3>9, <3>10, Zenon DEF Cat
    <3>12. Segments(j) = fr
      BY <3>2, <3>4, SegmentsOfJoined
    <3>13. z = last \o Verb(o)
      BY <3>8, Zenon DEF Cat
    <3> QED
      BY <3>11, <3>12, <3>13, Zenon
  <2> QED
    BY <2>2, <2>3
<1>20. ASSUME NEW k \in 1 .. i
       PROVE  fr[k] = IF path[k].kind = "lit" THEN path[k].text ELSE escapePathVar(client, V[NthOf(W, k)], FALSE)
  <2>1. k \in 1 .. i + 1 /\ (p[k].kind = "rest") = FALSE
    BY <1>13
  <2>2. PartAt(client, o, name, k) = IF path[k].kind = "lit" THEN path[k].text
                                     ELSE escapePathVar(client, V[NthOf(W, k)], FALSE)
    BY <1>11, <2>1, Zenon
  <2> QED
    BY <1>16, <1>17, <2>1, <2>2, Zenon
<1>21. PICK multi \in BOOLEAN : multi = (p[i + 1].kind = "rest")
  OBVIOUS
<1>22. last = IF path[i + 1].kind = "lit" THEN path[i + 1].text ELSE escapePathVar(client, V[Cardinality(W)], multi)
  <2>1. i + 1 \in 1 .. i + 1
    OBVIOUS
  <2>2. last = IF path[i + 1].kind = "lit" THEN path[i + 1].text
               ELSE escapePathVar(client, V[NthOf(W, i + 1)], multi)
    BY <1>11, <1>15, <1>16, <1>21, <2>1, Zenon
  <2>3. ASSUME path[i + 1].kind # "lit" PROVE NthOf(W, i + 1) = Cardinality(W)
    <3>1. i + 1 \in W
      BY <1>7, <2>1, <2>3
    <3>2. Below(W, Len(path)) /\ Len(path) \in Nat /\ Len(path) \in W
      BY <1>3, <1>4, <1>5, <3>1, WildcardsBelow
    <3>3. NthOf(W, Len(path)) = Cardinality(W)
      BY <3>2, RanksOnce
    <3> QED
      BY <1>5, <3>3
  <2> QED
    BY <2>2, <2>3, Zenon
<1>23. multi => path[i + 1].kind = "rest"
  <2>1. i + 1 \in 1 .. i + 1
    OBVIOUS
  <2> QED
    BY <1>6, <1>21, <2>1
<1>24. Carries(client, Segments(Url(client, o, name)), path, V, Verb(o), fr, last, multi)
  <2>1. Len(path) - 1 = i /\ Len(path) = i + 1
    BY <1>5
  <2>2. /\ fr \in Seq(Texts) /\ Len(fr) = Len(path) - 1 /\ last \in Texts /\ multi \in BOOLEAN
    BY <1>17, <2>1
  <2>3. \A k \in 1 .. Len(path) - 1 :
          fr[k] = IF path[k].kind = "lit" THEN path[k].text
                  ELSE escapePathVar(client, V[NthOf(Wildcards(path), k)], FALSE)
    BY <1>3, <1>20, <2>1, Zenon
  <2>4. last = IF path[Len(path)].kind = "lit" THEN path[Len(path)].text
               ELSE escapePathVar(client, V[Cardinality(Wildcards(path))], multi)
    BY <1>3, <1>22, <2>1, Zenon
  <2>5. multi => path[Len(path)].kind = "rest"
    BY <1>23, <2>1
  <2> QED
    BY <1>19, <2>2, <2>3, <2>4, <2>5, Zenon DEF Carries
<1>25. multi <=> ClientPath(client, o)[Len(Path(o))].kind = "rest"
  BY <1>1, <1>2, <1>5, <1>21, Zenon
<1> QED
  BY <1>1, <1>24, <1>25

-----------------------------------------------------------------------------
\* What the server makes of the segments.
PathIs(path, s) ==
    /\ path \in Seq(SegSet) /\ Len(path) \in Nat \ {0} /\ s \in Nat \ {0}
    /\ \A k \in 1 .. Len(path) :
         \/ path[k].kind = "var"
         \/ path[k].kind = "rest" /\ k = Len(path)
         \/ \E w \in Tokens : Word(w) /\ path[k] = Lit(w)
    /\ Cardinality(Wildcards(path)) = s

\* The path a URL was made from, by the places of its wildcards.
LEMMA OwnPath ==
    ASSUME NEW o \in Ops, NEW path, path = Path(o), NEW pat, pat = Pattern(o), NEW s, s = Len(Stars(pat))
    PROVE  /\ PathIs(path, s) /\ Starry(pat)
           /\ path[Len(path)].kind = "rest" <=> s = 1 /\ pat[Len(pat)] # "*"
           /\ path[Len(path)].kind = "lit" <=> s > 1 /\ pat[Len(pat)] # "*"
           /\ \A k \in 1 .. Len(path) : path[k].kind = "lit" =>
                \E w \in LiteralsOf(Operations[o]) : path[k].text = <<w>>
<1>1. Shaped(Path(o), pat, s, LiteralsOf(Operations[o]))
  BY PathShape
<1>2. /\ path \in Seq(SegSet) /\ Len(path) \in Nat \ {0}
      /\ \A k \in 1 .. Len(path) :
           \/ path[k].kind = "var"
           \/ path[k].kind = "rest" /\ k = Len(path)
           \/ \E w \in LiteralsOf(Operations[o]) : path[k] = Lit(w)
      /\ Cardinality(Wildcards(path)) = s
      /\ path[Len(path)].kind = "rest" <=> s = 1 /\ pat[Len(pat)] # "*"
      /\ path[Len(path)].kind = "lit" <=> s > 1 /\ pat[Len(pat)] # "*"
  BY <1>1 DEF Shaped
<1>3. Starry(pat) /\ \A t \in LiteralsOf(Operations[o]) : Word(t)
  <2>1. PICK m : m = Operations[o]
    OBVIOUS
  <2>2. OperationOf(o, m, Len(m.tmpl))
    BY <2>1, OperationIs
  <2> QED
    BY <2>1, <2>2 DEF OperationOf
<1>4. s \in Nat \ {0}
  BY <1>3, StarryIs
<1>5. ASSUME NEW k \in 1 .. Len(path), NEW w, path[k] = Lit(w) PROVE w \in Tokens /\ path[k].text = <<w>>
  <2>1. path[k] \in SegSet
    BY <1>2
  <2>2. path[k].kind = "lit" /\ path[k].text = <<w>>
    BY <1>5, LitIs
  <2>3. <<w>> \in VarTexts
    BY <2>1, <2>2, SegFields
  <2>4. w \in STRING
    BY <2>3 DEF VarTexts
  <2> QED
    BY <2>2, <2>4 DEF Tokens
<1>6. \A k \in 1 .. Len(path) :
         \/ path[k].kind = "var"
         \/ path[k].kind = "rest" /\ k = Len(path)
         \/ \E w \in Tokens : Word(w) /\ path[k] = Lit(w)
  BY <1>2, <1>3, <1>5
<1>7. \A k \in 1 .. Len(path) : path[k].kind = "lit" =>
        \E w \in LiteralsOf(Operations[o]) : path[k].text = <<w>>
  BY <1>2, <1>5
<1> QED
  BY <1>2, <1>3, <1>4, <1>6, <1>7 DEF PathIs

\* Unescaping two texts, one behind the other.
LEMMA UnescapedBoth ==
    ASSUME NEW a \in Texts, NEW b \in Texts
    PROVE  Unescape(a \o b) = Unescape(a) \o Unescape(b)
<1>1. a \in Seq(Tokens) /\ b \in Seq(Tokens)
  BY DEF Texts
<1>2. PICK n \in Nat : n = Len(a)
  BY <1>1
<1>3. PICK m \in Nat : m = Len(b)
  BY <1>1
<1>4. /\ a \o b \in Seq(Tokens) /\ Len(a \o b) = n + m
      /\ \A k \in 1 .. n : (a \o b)[k] = a[k]
      /\ \A j \in 1 .. m : (a \o b)[n + j] = b[j]
  <2>1. a \o b \in Seq(Tokens) /\ Len(a \o b) = Len(a) + Len(b)
    BY <1>1, Concatenated
  <2>2. /\ \A k \in 1 .. Len(a) : (a \o b)[k] = a[k]
        /\ \A j \in 1 .. Len(b) : (a \o b)[Len(a) + j] = b[j]
    BY <1>1, JoinedAt
  <2> QED
    BY <1>2, <1>3, <2>1, <2>2
<1>5. \A t \in Tokens : UnescapeToken(t) \in Tokens
  BY TokensEscaped
<1>6. ASSUME NEW s \in Seq(Tokens)
      PROVE  Unescape(s) \in Seq(Tokens) /\ Len(Unescape(s)) = Len(s) /\ \A k \in 1 .. Len(s) : Unescape(s)[k] = UnescapeToken(s[k])
  <2>1. DOMAIN s = 1 .. Len(s) /\ Len(s) \in Nat /\ \A k \in 1 .. Len(s) : s[k] \in Tokens
    OBVIOUS
  <2>2. Unescape(s) = [k \in 1 .. Len(s) |-> UnescapeToken(s[k])]
    BY <2>1 DEF Unescape
  <2>3. Unescape(s) \in [1 .. Len(s) -> Tokens]
    BY <1>5, <2>1, <2>2
  <2> QED
    BY <2>1, <2>2, <2>3
<1>7. PICK c \in Seq(Tokens) : c = a \o b
  BY <1>4
<1>8. /\ Unescape(c) \in Seq(Tokens) /\ Len(Unescape(c)) = n + m
      /\ \A k \in 1 .. n + m : Unescape(c)[k] = UnescapeToken(c[k])
  BY <1>4, <1>6, <1>7
<1>9. /\ Unescape(a) \in Seq(Tokens) /\ Len(Unescape(a)) = n
      /\ \A k \in 1 .. n : Unescape(a)[k] = UnescapeToken(a[k])
  BY <1>1, <1>2, <1>6
<1>10. /\ Unescape(b) \in Seq(Tokens) /\ Len(Unescape(b)) = m
       /\ \A k \in 1 .. m : Unescape(b)[k] = UnescapeToken(b[k])
  BY <1>1, <1>3, <1>6
<1>11. PICK x \in Seq(Tokens) : x = Unescape(a)
  BY <1>9
<1>12. PICK y \in Seq(Tokens) : y = Unescape(b)
  BY <1>10
<1>13. PICK z \in Seq(Tokens) : z = Unescape(c)
  BY <1>8
<1>14. /\ x \o y \in Seq(Tokens) /\ Len(x \o y) = n + m
       /\ \A k \in 1 .. n : (x \o y)[k] = x[k]
       /\ \A j \in 1 .. m : (x \o y)[n + j] = y[j]
  <2>1. x \o y \in Seq(Tokens) /\ Len(x \o y) = Len(x) + Len(y)
    BY Concatenated
  <2>2. /\ \A k \in 1 .. Len(x) : (x \o y)[k] = x[k]
        /\ \A j \in 1 .. Len(y) : (x \o y)[Len(x) + j] = y[j]
    BY JoinedAt
  <2> QED
    BY <1>9, <1>10, <1>11, <1>12, <2>1, <2>2
<1>15. ASSUME NEW k \in 1 .. n + m PROVE z[k] = (x \o y)[k]
  <2>1. CASE k \in 1 .. n
    BY <1>4, <1>7, <1>8, <1>9, <1>11, <1>13, <1>14, <2>1, Zenon
  <2>2. CASE k \notin 1 .. n
    <3>1. PICK j \in 1 .. m : k = n + j
      <4>1. k - n \in 1 .. m /\ k = n + (k - n)
        BY <2>2
      <4> QED
        BY <4>1
    <3>2. z[k] = UnescapeToken(c[k])
      BY <1>8, <1>13
    <3>3. c[k] = b[j]
      BY <1>4, <1>7, <3>1, Zenon
    <3>4. (x \o y)[k] = y[j]
      BY <1>14, <3>1, Zenon
    <3>5. y[j] = UnescapeToken(b[j])
      BY <1>10, <1>12
    <3> QED
      BY <3>2, <3>3, <3>4, <3>5
  <2> QED
    BY <2>1, <2>2
<1>16. PICK u \in Seq(Tokens) : u = x \o y
  BY <1>14
<1>17. z = u
  BY <1>8, <1>13, <1>14, <1>15, <1>16
<1> QED
  BY <1>7, <1>11, <1>12, <1>13, <1>16, <1>17

\* The segments one by one.
Spread(segs, path, verb, fr, last) ==
    /\ segs \in Seq(Texts) /\ Len(segs) \in Nat /\ Len(segs) >= Len(path)
    /\ \A k \in 1 .. Len(path) - 1 : segs[k] = fr[k] /\ fr[k] \in Texts
    /\ SubSeq(segs, Len(path), Len(segs)) = Segments(last \o verb)
    /\ last \o verb \in Texts
    /\ Slashless(last \o verb) => Len(segs) = Len(path) /\ segs[Len(path)] = last \o verb
    /\ \A k \in 1 .. Len(segs) : k >= Len(path) =>
         \E j \in DOMAIN Segments(last \o verb) : segs[k] = Segments(last \o verb)[j]
    /\ segs[Len(segs)] = Segments(last \o verb)[Len(Segments(last \o verb))]
    /\ Segments(last \o verb) \in Seq(Texts)

\* Such are the segments of any URL.
LEMMA SpreadIs ==
    ASSUME NEW client, NEW segs, NEW path, Len(path) \in Nat \ {0}, NEW V, NEW verb \in Texts, NEW fr, NEW last, NEW multi,
           Carries(client, segs, path, V, verb, fr, last, multi)
    PROVE  Spread(segs, path, verb, fr, last)
<1>1. fr \in Seq(Texts) /\ Len(fr) = Len(path) - 1 /\ last \in Texts /\ segs = fr \o Segments(last \o verb)
  BY DEF Carries
<1>2. PICK z \in Texts : z = last \o verb
  <2>1. Cat(last, verb) \in Texts
    BY <1>1, Cats
  <2> QED
    BY <2>1 DEF Cat
<1>3. PICK t \in Seq(Texts) : t = Segments(z) /\ Len(t) \in Nat \ {0}
  BY SegmentsAre
<1>4. PICK i \in Nat : i = Len(fr) /\ Len(path) = i + 1 /\ i = Len(path) - 1
  BY <1>1
<1>5. PICK m \in Nat : m = Len(t) /\ m # 0
  BY <1>3
<1>6. segs = fr \o t
  BY <1>1, <1>2, <1>3
<1>7. segs \in Seq(Texts) /\ Len(segs) = i + m
  <2>1. fr \o t \in Seq(Texts) /\ Len(fr \o t) = Len(fr) + Len(t)
    BY <1>1, Concatenated
  <2> QED
    BY <1>4, <1>5, <1>6, <2>1
<1>8. /\ \A k \in 1 .. i : segs[k] = fr[k]
      /\ \A j \in 1 .. m : segs[i + j] = t[j]
  <2>1. /\ \A k \in 1 .. Len(fr) : (fr \o t)[k] = fr[k]
        /\ \A j \in 1 .. Len(t) : (fr \o t)[Len(fr) + j] = t[j]
    BY <1>1, JoinedAt
  <2> QED
    BY <1>4, <1>5, <1>6, <2>1
<1>9. SubSeq(segs, i + 1, i + m) = t
  <2>1. SubSeq(fr \o t, Len(fr) + 1, Len(fr \o t)) = t
    BY <1>1, SubSeqBehind
  <2> QED
    BY <1>4, <1>6, <1>7, <2>1
<1>10. Slashless(z) => t = <<z>>
  BY <1>3, OneSegmentOf
<1>11. Slashless(z) => Len(segs) = Len(path) /\ segs[Len(path)] = z
  <2> SUFFICES ASSUME Slashless(z) PROVE Len(segs) = Len(path) /\ segs[Len(path)] = z
    OBVIOUS
  <2>1. t = <<z>>
    BY <1>10
  <2>2. m = 1 /\ t[1] = z
    BY <1>5, <2>1
  <2>3. segs[i + 1] = z
    BY <1>8, <2>2
  <2> QED
    BY <1>4, <1>7, <2>2, <2>3
<1>12. ASSUME NEW k \in 1 .. Len(segs), k >= Len(path) PROVE \E j \in DOMAIN t : segs[k] = t[j]
  <2>1. k \in 1 .. i + m /\ k >= i + 1
    BY <1>4, <1>7, <1>12
  <2>2. PICK j \in 1 .. m : k = i + j
    <3>1. k - i \in 1 .. m /\ k = i + (k - i)
      BY <2>1
    <3> QED
      BY <3>1
  <2>3. segs[k] = t[j] /\ j \in DOMAIN t
    BY <1>3, <1>5, <1>8, <2>2
  <2> QED
    BY <2>3
<1>13. segs[i + m] = t[m]
  <2>1. m \in 1 .. m
    BY <1>5
  <2> QED
    BY <1>8, <2>1
<1>14. \A k \in 1 .. i : fr[k] \in Texts
  BY <1>1, <1>4
<1>15. Len(segs) \in Nat /\ Len(segs) >= Len(path)
  BY <1>4, <1>5, <1>7
<1> QED
  BY <1>2, <1>3, <1>4, <1>5, <1>7, <1>8, <1>9, <1>11, <1>12, <1>13, <1>14, <1>15 DEF Spread

\* A URL of an operation with a verb ends in it.
LEMMA UrlEndsInVerb ==
    ASSUME NEW client, NEW segs, NEW path, NEW s, PathIs(path, s), NEW V, NEW verb, VerbText(verb), NEW fr, NEW last, NEW multi,
           Carries(client, segs, path, V, verb, fr, last, multi)
    PROVE  /\ segs \in Seq(Texts) /\ segs # <<>>
           /\ \E e \in Texts : Slashless(e) /\ segs[Len(segs)] = e \o verb
<1>1. verb \in Texts /\ Slashless(verb)
  BY VerbTextIs
<1>2. Len(path) \in Nat \ {0}
  BY DEF PathIs
<1>3. Spread(segs, path, verb, fr, last)
  BY <1>1, <1>2, SpreadIs
<1>4. last \in Texts
  BY DEF Carries
<1>5. PICK f \in Seq(Texts), e \in Texts :
         Slashless(e) /\ Segments(last) = Append(f, e) /\ Segments(last \o verb) = Append(f, e \o verb)
  BY <1>1, <1>4, SegmentsEnd
<1>6. PICK x : x = e \o verb
  OBVIOUS
<1>7. Append(f, x)[Len(Append(f, x))] = x
  <2>1. x \in Texts
    <3>1. Cat(e, verb) \in Texts
      BY <1>1, Cats
    <3> QED
      BY <1>6, <3>1 DEF Cat
  <2>2. PICK n \in Nat : n = Len(f)
    BY <1>5
  <2>3. Len(Append(f, x)) = n + 1 /\ Append(f, x)[n + 1] = x
    BY <1>5, <2>1, <2>2
  <2> QED
    BY <2>3
<1>8. segs[Len(segs)] = x
  BY <1>3, <1>5, <1>6, <1>7 DEF Spread
<1>9. segs \in Seq(Texts) /\ segs # <<>>
  <2>1. segs \in Seq(Texts) /\ Len(segs) \in Nat /\ Len(segs) >= Len(path)
    BY <1>3 DEF Spread
  <2>2. Len(segs) # 0
    BY <1>2, <2>1
  <2> QED
    BY <2>1, <2>2
<1> QED
  BY <1>5, <1>6, <1>8, <1>9

\* What the last part of a URL is.
LastPartIs(client, path, V, verb, last, multi, s) ==
    /\ last \in Texts
    /\ path[Len(path)].kind # "rest" => Slashless(last \o verb)
    /\ path[Len(path)].kind = "lit" =>
         \E w \in Tokens : Word(w) /\ last = <<w>> /\ path[Len(path)].text = <<w>>
    /\ path[Len(path)].kind # "lit" => V[s] \in Texts /\ multi \in BOOLEAN /\ last = escapePathVar(client, V[s], multi)
    /\ multi => path[Len(path)].kind = "rest"

\* Such is the last part of the URL of any values.
LEMMA LastPart ==
    ASSUME NEW client, NEW segs, NEW path, NEW s, PathIs(path, s), NEW V \in [1 .. s -> Texts], NEW verb \in Texts,
           verb = <<>> \/ VerbText(verb), NEW fr, NEW last, NEW multi,
           Carries(client, segs, path, V, verb, fr, last, multi)
    PROVE  LastPartIs(client, path, V, verb, last, multi, s)
<1>1. /\ path \in Seq(SegSet) /\ Len(path) \in Nat \ {0} /\ s \in Nat \ {0}
      /\ \A k \in 1 .. Len(path) :
           \/ path[k].kind = "var"
           \/ path[k].kind = "rest" /\ k = Len(path)
           \/ \E w \in Tokens : Word(w) /\ path[k] = Lit(w)
      /\ Cardinality(Wildcards(path)) = s
  BY DEF PathIs
<1>2. /\ last \in Texts /\ multi \in BOOLEAN
      /\ last = IF path[Len(path)].kind = "lit" THEN path[Len(path)].text ELSE escapePathVar(client, V[s], multi)
      /\ multi => path[Len(path)].kind = "rest"
  BY <1>1 DEF Carries
<1>3. Len(path) \in 1 .. Len(path) /\ s \in 1 .. s
  BY <1>1
<1>4. path[Len(path)].kind = "lit" =>
        \E w \in Tokens : Word(w) /\ last = <<w>> /\ path[Len(path)].text = <<w>>
  BY <1>1, <1>2, <1>3, LitIs
<1>5. V[s] \in Texts
  BY <1>3
<1>6. path[Len(path)].kind # "lit" => last = escapePathVar(client, V[s], multi)
  BY <1>2
<1>7. path[Len(path)].kind # "rest" => Slashless(last)
  <2>1. CASE path[Len(path)].kind = "lit"
    BY <1>4, <2>1, WordsFit
  <2>2. CASE path[Len(path)].kind # "lit" /\ path[Len(path)].kind # "rest"
    <3>1. multi = FALSE
      BY <1>2, <2>2
    <3>2. Slashless(last)
      BY <1>2, <1>5, <1>6, <2>2, <3>1, EscapedText, Zenon
    <3> QED
      BY <3>2
  <2> QED
    BY <2>1, <2>2
<1>8. Slashless(last) => Slashless(last \o verb)
  BY <1>2, VerbTextIs, SlashlessBoth
<1> QED
  BY <1>2, <1>4, <1>5, <1>6, <1>7, <1>8 DEF LastPartIs

\* A URL matches the path it was made from.
LEMMA OwnMatch ==
    ASSUME NEW client, NEW segs, NEW path, NEW s, PathIs(path, s), NEW V \in [1 .. s -> Texts], NEW verb \in Texts,
           verb = <<>> \/ VerbText(verb), NEW fr, NEW last, NEW multi,
           Carries(client, segs, path, V, verb, fr, last, multi),
           path[Len(path)].kind = "lit" => verb = <<>>,
           \A k \in 1 .. Len(path) : k # Len(segs) => segs[k] # <<>>,
           segs[Len(segs)] # <<>> \/ path[Len(path)].kind = "rest"
    PROVE  Matches(path, segs)
<1>1. /\ path \in Seq(SegSet) /\ Len(path) \in Nat \ {0} /\ DOMAIN path = 1 .. Len(path)
      /\ \A k \in 1 .. Len(path) :
           \/ path[k].kind = "var"
           \/ path[k].kind = "rest" /\ k = Len(path)
           \/ \E w \in Tokens : Word(w) /\ path[k] = Lit(w)
  BY DEF PathIs
<1>2. PICK n \in Nat : n = Len(path) /\ n # 0 /\ n \in 1 .. n
  <2>1. PICK n \in Nat : n = Len(path) /\ n # 0
    BY <1>1
  <2>2. n \in 1 .. n
    BY <2>1
  <2> QED
    BY <2>1, <2>2
<1>3. Spread(segs, path, verb, fr, last)
  BY <1>1, SpreadIs
<1>4. /\ last \in Texts
      /\ path[n].kind # "rest" => Slashless(last \o verb)
      /\ path[n].kind = "lit" => \E w \in Tokens : Word(w) /\ last = <<w>> /\ path[n].text = <<w>>
  <2>1. LastPartIs(client, path, V, verb, last, multi, s)
    BY LastPart
  <2> QED
    BY <1>2, <2>1 DEF LastPartIs
<1>5. /\ Len(segs) \in Nat /\ Len(segs) >= n
      /\ \A k \in 1 .. n - 1 : segs[k] = fr[k]
      /\ path[n].kind # "rest" => Len(segs) = n /\ segs[n] = last \o verb
  BY <1>2, <1>3, <1>4 DEF Spread
<1>6. \A k \in 1 .. n - 1 : path[k].kind = "lit" => fr[k] = path[k].text
  BY <1>2 DEF Carries
<1>7. ASSUME NEW k \in 1 .. n, path[k].kind = "lit" PROVE Unescape(segs[k]) = path[k].text
  <2>1. PICK w \in Tokens : Word(w) /\ path[k].text = <<w>>
    BY <1>1, <1>2, <1>7, LitIs
  <2>2. segs[k] = <<w>>
    <3>1. CASE k = n
      <4>1. verb = <<>> /\ last = <<w>>
        BY <1>2, <1>4, <1>7, <2>1, <3>1
      <4>2. Cat(last, <<>>) = last
        BY <1>4, Cats
      <4>3. last \o verb = last
        BY <4>1, <4>2 DEF Cat
      <4>4. segs[n] = last \o verb
        BY <1>5, <1>7, <3>1
      <4> QED
        BY <3>1, <4>1, <4>3, <4>4
    <3>2. CASE k # n
      <4>1. k \in 1 .. n - 1
        BY <3>2
      <4> QED
        BY <1>5, <1>6, <1>7, <2>1, <4>1
    <3> QED
      BY <3>1, <3>2
  <2> QED
    BY <2>1, <2>2, WordsFit
<1>8. ASSUME NEW k \in 1 .. n, path[k].kind = "var" PROVE segs[k] # <<>>
  <2>1. CASE k # Len(segs)
    BY <1>2, <2>1
  <2>2. CASE k = Len(segs)
    <3>1. k = n
      BY <1>5, <2>2
    <3> QED
      BY <1>2, <1>8, <2>2, <3>1
  <2> QED
    BY <2>1, <2>2
<1>9. IF path[n].kind = "rest" THEN Len(segs) >= n ELSE Len(segs) = n
  BY <1>5
<1>10. \A k \in 1 .. n : CASE path[k].kind = "lit" -> Unescape(segs[k]) = path[k].text
                           [] path[k].kind = "var" -> segs[k] # <<>>
                           [] OTHER -> TRUE
  BY <1>7, <1>8
<1> QED
  BY <1>1, <1>2, <1>9, <1>10 DEF Matches

\* What a path captures of a URL made from it: the client's values, with the
\* verb behind the last.
WithVerb(V, verb, s) == [j \in 1 .. s |-> IF j = s THEN V[j] \o verb ELSE V[j]]

\* What a path captures, A being the places of its wildcards.
CapturedAt(path, segs, s, A) ==
    /\ Captured(path, segs) =
         [j \in 1 .. s |-> IF path[A[j]].kind = "var" THEN Unescape(segs[A[j]])
                           ELSE Unescape(Joined(SubSeq(segs, A[j], Len(segs)), Slash))]
    /\ \A j \in 1 .. s : /\ A[j] \in 1 .. Len(path) /\ path[A[j]].kind \in {"var", "rest"}
                         /\ NthOf(Wildcards(path), A[j]) = j
    /\ path[Len(path)].kind # "lit" => A[s] = Len(path)

\* Such is what any path captures.
LEMMA CapturedIs ==
    ASSUME NEW path, NEW s, PathIs(path, s), NEW segs, NEW A, A = Ascending(Wildcards(path))
    PROVE  CapturedAt(path, segs, s, A)
<1>1. /\ path \in Seq(SegSet) /\ Len(path) \in Nat \ {0} /\ DOMAIN path = 1 .. Len(path)
      /\ s \in Nat \ {0} /\ Cardinality(Wildcards(path)) = s
      /\ \A k \in 1 .. Len(path) :
           \/ path[k].kind = "var"
           \/ path[k].kind = "rest" /\ k = Len(path)
           \/ \E w \in Tokens : Word(w) /\ path[k] = Lit(w)
  BY DEF PathIs
<1>2. PICK W : W = Wildcards(path)
  OBVIOUS
<1>3. PICK n \in Nat : n = Len(path) /\ n # 0
  BY <1>1
<1>4. Below(W, n)
  BY <1>1, <1>2, <1>3, WildcardsBelow
<1>5. /\ A \in Seq(1 .. n) /\ Len(A) = s
      /\ \A j \in 1 .. s : A[j] \in W /\ NthOf(W, A[j]) = j
      /\ \A k \in W : A[NthOf(W, k)] = k
  BY <1>1, <1>2, <1>4, AscendingRank
<1>6. DOMAIN A = 1 .. s
  <2>1. PICK t : t = s /\ Len(A) = t
    BY <1>5
  <2>2. PICK T : T = 1 .. n
    OBVIOUS
  <2>3. A \in Seq(T)
    BY <1>5, <2>2
  <2>4. DOMAIN A = 1 .. Len(A)
    BY <2>3
  <2> QED
    BY <2>1, <2>4
<1>7. Captured(path, segs) =
         [j \in DOMAIN A |-> IF path[A[j]].kind = "var" THEN Unescape(segs[A[j]])
                             ELSE Unescape(Joined(SubSeq(segs, A[j], Len(segs)), Slash))]
  BY Zenon DEF Captured
<1>8. ASSUME NEW j \in 1 .. s PROVE A[j] \in 1 .. n /\ path[A[j]].kind \in {"var", "rest"}
  <2>1. A[j] \in W
    BY <1>5
  <2> QED
    BY <1>1, <1>2, <1>3, <2>1 DEF Wildcards
<1>9. ASSUME path[n].kind # "lit" PROVE A[s] = n
  <2>1. n \in 1 .. n
    BY <1>3
  <2>2. path[n].kind \in {"var", "rest"}
    BY <1>1, <1>3, <1>9, <2>1, LitIs
  <2>3. n \in W
    BY <1>1, <1>2, <1>3, <2>1, <2>2 DEF Wildcards
  <2>4. NthOf(W, n) = s
    BY <1>1, <1>2, <1>4, <2>3, RanksOnce
  <2> QED
    BY <1>5, <2>3, <2>4
<1>10. \A j \in 1 .. s : NthOf(Wildcards(path), A[j]) = j
  BY <1>2, <1>5
<1>11. Captured(path, segs) =
         [j \in 1 .. s |-> IF path[A[j]].kind = "var" THEN Unescape(segs[A[j]])
                           ELSE Unescape(Joined(SubSeq(segs, A[j], Len(segs)), Slash))]
  BY <1>6, <1>7, Zenon
<1> QED
  BY <1>3, <1>8, <1>9, <1>10, <1>11, Zenon DEF CapturedAt

\* A path captures of its own URL the values the client put there, the verb
\* behind the last.
THEOREM OwnCaptured ==
    ASSUME NEW client, NEW segs, NEW path, NEW s, PathIs(path, s), NEW V \in [1 .. s -> Texts], NEW verb \in Texts,
           verb = <<>> \/ VerbText(verb), NEW fr, NEW last, NEW multi,
           Carries(client, segs, path, V, verb, fr, last, multi),
           path[Len(path)].kind = "lit" => verb = <<>>,
           \A j \in 1 .. s : Plain(V[j])
    PROVE  Captured(path, segs) = WithVerb(V, verb, s)
<1>1. /\ path \in Seq(SegSet) /\ Len(path) \in Nat \ {0} /\ s \in Nat \ {0}
      /\ \A k \in 1 .. Len(path) :
           \/ path[k].kind = "var"
           \/ path[k].kind = "rest" /\ k = Len(path)
           \/ \E w \in Tokens : Word(w) /\ path[k] = Lit(w)
  BY DEF PathIs
<1>2. PICK n \in Nat : n = Len(path) /\ n # 0
  BY <1>1
<1>3. PICK A : A = Ascending(Wildcards(path))
  OBVIOUS
<1>4. /\ Captured(path, segs) =
                [j \in 1 .. s |-> IF path[A[j]].kind = "var" THEN Unescape(segs[A[j]])
                                  ELSE Unescape(Joined(SubSeq(segs, A[j], Len(segs)), Slash))]
      /\ \A j \in 1 .. s : /\ A[j] \in 1 .. n /\ path[A[j]].kind \in {"var", "rest"}
                           /\ NthOf(Wildcards(path), A[j]) = j
      /\ path[n].kind # "lit" => A[s] = n
  <2>1. CapturedAt(path, segs, s, A)
    BY <1>3, CapturedIs
  <2> QED
    BY <1>2, <2>1, Zenon DEF CapturedAt
<1>5. Spread(segs, path, verb, fr, last)
  BY <1>1, SpreadIs
<1>6. LastPartIs(client, path, V, verb, last, multi, s)
  BY LastPart
<1>7. /\ last \in Texts
      /\ path[n].kind # "rest" => Slashless(last \o verb)
      /\ path[n].kind # "lit" => V[s] \in Texts /\ multi \in BOOLEAN /\ last = escapePathVar(client, V[s], multi)
  BY <1>2, <1>6 DEF LastPartIs
<1>8. /\ \A k \in 1 .. n - 1 : segs[k] = fr[k]
      /\ path[n].kind # "rest" => segs[n] = last \o verb
      /\ SubSeq(segs, n, Len(segs)) = Segments(last \o verb)
      /\ last \o verb \in Texts
  BY <1>2, <1>5, <1>7 DEF Spread
<1>9. Unescape(verb) = verb
  BY VerbTextIs
<1>10. \A x \in Texts : x \o <<>> = x
  <2>1. \A x \in Texts : Cat(x, <<>>) = x
    BY Cats
  <2> QED
    BY <2>1 DEF Cat
<1>11. path[n].kind # "lit" => Unescape(last \o verb) = V[s] \o verb
  <2> SUFFICES ASSUME path[n].kind # "lit" PROVE Unescape(last \o verb) = V[s] \o verb
    OBVIOUS
  <2>1. PICK v \in Texts : v = V[s]
    BY <1>7
  <2>2. Plain(v)
    <3>1. s \in 1 .. s
      BY <1>1
    <3> QED
      BY <2>1, <3>1
  <2>3. Unescape(last) = v
    <3>1. multi \in BOOLEAN /\ last = escapePathVar(client, v, multi)
      BY <1>7, <2>1
    <3> QED
      BY <2>2, <3>1, EscapedBack, Zenon
  <2>4. Unescape(last \o verb) = Unescape(last) \o Unescape(verb)
    BY <1>7, UnescapedBoth
  <2> QED
    BY <1>9, <2>1, <2>3, <2>4
<1>12. ASSUME NEW j \in 1 .. s
       PROVE  (IF path[A[j]].kind = "var" THEN Unescape(segs[A[j]])
               ELSE Unescape(Joined(SubSeq(segs, A[j], Len(segs)), Slash)))
              = IF j = s THEN V[j] \o verb ELSE V[j]
  <2>1. PICK a \in 1 .. n : a = A[j] /\ path[a].kind \in {"var", "rest"} /\ NthOf(Wildcards(path), a) = j
    BY <1>4
  <2>2. V[j] \in Texts /\ Plain(V[j])
    OBVIOUS
  <2>3. CASE a # n
    <3>1. a \in 1 .. n - 1
      BY <2>3
    <3>2. path[a].kind = "var"
      BY <1>1, <1>2, <2>1, <2>3, LitIs
    <3>3. fr[a] = escapePathVar(client, V[j], FALSE)
      <4>1. fr[a] = IF path[a].kind = "lit" THEN path[a].text
                    ELSE escapePathVar(client, V[NthOf(Wildcards(path), a)], FALSE)
        BY <1>2, <3>1, Zenon DEF Carries
      <4>2. path[a].kind # "lit"
        BY <3>2
      <4> QED
        BY <2>1, <4>1, <4>2, Zenon
    <3>4. Unescape(segs[a]) = V[j]
      <4>1. PICK v \in Texts : v = V[j] /\ Plain(v)
        BY <2>2
      <4>2. PICK b \in BOOLEAN : b = FALSE
        OBVIOUS
      <4>3. segs[a] = escapePathVar(client, v, b)
        BY <1>8, <3>1, <3>3, <4>1, <4>2
      <4> QED
        BY <4>1, <4>3, EscapedBack, Zenon
    <3>5. j = s => verb = <<>>
      BY <1>2, <1>4, <2>1, <2>3
    <3>6. (IF j = s THEN V[j] \o verb ELSE V[j]) = V[j]
      BY <1>10, <2>2, <3>5
    <3> QED
      BY <2>1, <3>2, <3>4, <3>6, Zenon
  <2>4. CASE a = n
    <3>1. path[n].kind # "lit"
      BY <2>1, <2>4
    <3>2. j = s
      <4>1. A[s] = n /\ s \in 1 .. s
        BY <1>1, <1>4, <3>1
      <4>2. NthOf(Wildcards(path), A[s]) = s
        BY <1>4, <4>1
      <4> QED
        BY <2>1, <2>4, <4>1, <4>2
    <3>3. CASE path[n].kind = "var"
      <4>1. segs[n] = last \o verb
        BY <1>8, <3>3
      <4> QED
        BY <1>11, <2>1, <2>4, <3>1, <3>2, <3>3, <4>1, Zenon
    <3>4. CASE path[n].kind = "rest"
      <4>1. Joined(Segments(last \o verb), Slash) = last \o verb
        BY <1>8, TextIsJoined
      <4>2. Unescape(Joined(SubSeq(segs, n, Len(segs)), Slash)) = V[s] \o verb
        BY <1>8, <1>11, <3>1, <4>1, Zenon
      <4>3. path[n].kind # "var"
        BY <3>4
      <4> QED
        BY <2>1, <2>4, <3>2, <4>2, <4>3, Zenon
    <3> QED
      BY <2>1, <2>4, <3>3, <3>4
  <2> QED
    BY <2>3, <2>4
<1> QED
  BY <1>4, <1>12, Zenon DEF WithVerb

\* Values a URL can carry make a clean path.
LEMMA CarriedClean ==
    ASSUME NEW client, NEW segs, NEW path, NEW s, PathIs(path, s), NEW V \in [1 .. s -> Texts], NEW verb \in Texts,
           verb = <<>> \/ VerbText(verb), NEW fr, NEW last, NEW multi,
           Carries(client, segs, path, V, verb, fr, last, multi),
           \A j \in 1 .. s : V[j] \notin Improper,
           path[Len(path)].kind = "rest" => Carried(V[s])
    PROVE  /\ Clean(segs) = segs /\ Len(segs) \in Nat /\ Len(segs) >= Len(path)
           /\ \A k \in 1 .. Len(segs) : segs[k] # <<>>
<1>1. /\ path \in Seq(SegSet) /\ Len(path) \in Nat \ {0} /\ DOMAIN path = 1 .. Len(path) /\ s \in Nat \ {0}
      /\ \A k \in 1 .. Len(path) :
           \/ path[k].kind = "var"
           \/ path[k].kind = "rest" /\ k = Len(path)
           \/ \E w \in Tokens : Word(w) /\ path[k] = Lit(w)
      /\ Cardinality(Wildcards(path)) = s
  BY DEF PathIs
<1>2. PICK n \in Nat : n = Len(path) /\ n # 0
  BY <1>1
<1>3. Spread(segs, path, verb, fr, last)
  BY <1>1, SpreadIs
<1>4. LastPartIs(client, path, V, verb, last, multi, s)
  BY LastPart
<1>5. /\ last \in Texts
      /\ path[n].kind # "rest" => Slashless(last \o verb)
      /\ path[n].kind = "lit" => \E w \in Tokens : Word(w) /\ last = <<w>>
      /\ path[n].kind # "lit" => V[s] \in Texts /\ multi \in BOOLEAN /\ last = escapePathVar(client, V[s], multi)
      /\ multi => path[n].kind = "rest"
  BY <1>2, <1>4 DEF LastPartIs
<1>6. /\ segs \in Seq(Texts) /\ Len(segs) \in Nat /\ Len(segs) >= n
      /\ \A k \in 1 .. n - 1 : segs[k] = fr[k] /\ fr[k] \in Texts
      /\ \A k \in 1 .. Len(segs) : k >= n => \E j \in DOMAIN Segments(last \o verb) : segs[k] = Segments(last \o verb)[j]
      /\ last \o verb \in Texts
  BY <1>2, <1>3 DEF Spread
<1>7. ASSUME NEW k \in 1 .. n - 1 PROVE segs[k] \notin Improper
  <2>1. fr[k] = IF path[k].kind = "lit" THEN path[k].text
                ELSE escapePathVar(client, V[NthOf(Wildcards(path), k)], FALSE)
    BY <1>2, Zenon DEF Carries
  <2>2. CASE path[k].kind = "lit"
    <3>1. PICK w \in Tokens : Word(w) /\ path[k] = Lit(w)
      BY <1>1, <1>2, <2>2
    <3>2. fr[k] = <<w>>
      BY <2>1, <2>2, <3>1, LitIs
    <3> QED
      BY <1>6, <3>1, <3>2, WordsFit
  <2>3. CASE path[k].kind # "lit"
    <3>1. k \in 1 .. n /\ path[k].kind \in {"var", "rest"}
      <4>1. k \in 1 .. n /\ k # n
        BY <1>2
      <4> QED
        BY <1>1, <1>2, <2>3, <4>1, LitIs
    <3>2. k \in Wildcards(path)
      BY <1>1, <1>2, <3>1 DEF Wildcards
    <3>3. Below(Wildcards(path), n)
      BY <1>1, <1>2, WildcardsBelow
    <3>4. NthOf(Wildcards(path), k) \in 1 .. s
      BY <1>1, <3>2, <3>3, RanksOnce
    <3>5. PICK v \in Texts : v = V[NthOf(Wildcards(path), k)] /\ v \notin Improper
      BY <3>4
    <3>6. PICK b \in BOOLEAN : b = FALSE
      OBVIOUS
    <3>7. fr[k] = escapePathVar(client, v, b)
      BY <2>1, <2>3, <3>5, <3>6, Zenon
    <3>8. escapePathVar(client, v, b) \notin Improper
      BY <3>5, ImproperEscaped
    <3> QED
      BY <1>6, <3>7, <3>8
  <2> QED
    BY <2>2, <2>3
<1>8. Carried(last)
  <2>1. CASE path[n].kind = "lit"
    BY <1>5, <2>1, WordsFit DEF Fit
  <2>2. CASE path[n].kind # "lit"
    <3>1. s \in 1 .. s
      BY <1>1
    <3>2. PICK v \in Texts : v = V[s] /\ v \notin Improper
      BY <3>1
    <3>3. last = escapePathVar(client, v, multi) /\ multi \in BOOLEAN
      BY <1>5, <2>2, <3>2
    <3>4. CASE multi = TRUE
      <4>1. Carried(v)
        BY <1>2, <1>5, <3>2, <3>4
      <4> QED
        BY <3>3, <3>4, <4>1, SegmentsEscaped
    <3>5. CASE multi = FALSE
      <4>1. last \notin Improper
        BY <3>2, <3>3, ImproperEscaped
      <4>2. Slashless(last)
        BY <3>3, <3>5, EscapedText, Zenon
      <4> QED
        BY <1>5, <4>1, <4>2, CarriedOne
    <3> QED
      BY <3>3, <3>4, <3>5
  <2> QED
    BY <2>1, <2>2
<1>9. Carried(last \o verb)
  <2>1. CASE verb = <<>>
    <3>1. Cat(last, <<>>) = last
      BY <1>5, Cats
    <3> QED
      BY <1>8, <2>1, <3>1 DEF Cat
  <2>2. CASE VerbText(verb)
    BY <1>5, <1>8, <2>2, CarriedVerb
  <2> QED
    BY <2>1, <2>2
<1>10. ASSUME NEW k \in 1 .. Len(segs) PROVE segs[k] \notin Improper
  <2>1. CASE k < n
    <3>1. k \in 1 .. n - 1
      BY <2>1
    <3> QED
      BY <1>7, <3>1
  <2>2. CASE k >= n
    BY <1>6, <1>9, <2>2 DEF Carried
  <2> QED
    BY <1>6, <2>1, <2>2
<1>11. segs # <<>>
  BY <1>2, <1>6
<1>12. Clean(segs) = segs
  BY <1>6, <1>10, <1>11, CleanStays
<1>13. \A k \in 1 .. Len(segs) : segs[k] # <<>>
  BY <1>10 DEF Improper
<1> QED
  BY <1>2, <1>6, <1>12, <1>13

\* Paths of one shape match and capture alike.
LEMMA Alike ==
    ASSUME NEW p, NEW q, NEW s, NEW t, PathIs(p, s), PathIs(q, t), Normalize(p) = Normalize(q), NEW segs
    PROVE  Captured(p, segs) = Captured(q, segs) /\ s = t
<1>1. p \in Seq(SegSet) /\ q \in Seq(SegSet) /\ Cardinality(Wildcards(p)) = s /\ Cardinality(Wildcards(q)) = t
  BY DEF PathIs
<1>2. /\ DOMAIN p = DOMAIN q
      /\ \A k \in DOMAIN p : p[k].kind = q[k].kind
      /\ Wildcards(p) = Wildcards(q)
  BY <1>1, SameShape
<1>3. s = t
  BY <1>1, <1>2
<1>4. PICK A : A = Ascending(Wildcards(p)) /\ A = Ascending(Wildcards(q))
  BY <1>2
<1>5. /\ Captured(p, segs) =
                [j \in 1 .. s |-> IF p[A[j]].kind = "var" THEN Unescape(segs[A[j]])
                                  ELSE Unescape(Joined(SubSeq(segs, A[j], Len(segs)), Slash))]
      /\ \A j \in 1 .. s : A[j] \in 1 .. Len(p)
  <2>1. CapturedAt(p, segs, s, A)
    BY <1>4, CapturedIs
  <2> QED
    BY <2>1, Zenon DEF CapturedAt
<1>6. Captured(q, segs) =
                [j \in 1 .. t |-> IF q[A[j]].kind = "var" THEN Unescape(segs[A[j]])
                                  ELSE Unescape(Joined(SubSeq(segs, A[j], Len(segs)), Slash))]
  <2>1. CapturedAt(q, segs, t, A)
    BY <1>4, CapturedIs
  <2> QED
    BY <2>1, Zenon DEF CapturedAt
<1>7. \A j \in 1 .. s : p[A[j]].kind = q[A[j]].kind
  BY <1>1, <1>2, <1>5
<1> QED
  BY <1>3, <1>5, <1>6, <1>7, Zenon

-----------------------------------------------------------------------------
\* The values a client takes out of a name.

\* What is cut out of a text is a text.
LEMMA TextsCut ==
    ASSUME NEW x \in Texts
    PROVE  /\ \A i \in Nat \ {0} : SubSeq(x, i, Len(x)) \in Texts
           /\ \A k \in 1 .. Len(x) : SubSeq(x, 1, k - 1) \in Texts
<1>1. x \in Seq(Tokens) /\ Len(x) \in Nat
  BY ElementOf DEF Texts
<1>2. \A k \in 1 .. Len(x) : x[k] \in Tokens
  BY <1>1, ElementOf
<1>3. ASSUME NEW i \in Nat \ {0} PROVE SubSeq(x, i, Len(x)) \in Texts
  <2>1. \A k \in i .. Len(x) : k \in 1 .. Len(x)
    BY <1>1
  <2>2. \A k \in i .. Len(x) : x[k] \in Tokens
    BY <1>2, <2>1
  <2> QED
    BY <1>1, <2>2, SubSeqProperties DEF Texts
<1>4. ASSUME NEW k \in 1 .. Len(x) PROVE SubSeq(x, 1, k - 1) \in Texts
  <2>1. \A i \in 1 .. k - 1 : i \in 1 .. Len(x)
    BY <1>1
  <2>2. \A i \in 1 .. k - 1 : x[i] \in Tokens
    BY <1>2, <2>1
  <2>3. PICK n \in Nat : n = k - 1
    BY <1>1
  <2> QED
    BY <1>1, <2>2, <2>3, SubSeqProperties DEF Texts
<1> QED
  BY <1>3, <1>4

\* So are the values of the extractors.
LEMMA TextsExtracted ==
    ASSUME NEW x \in Texts, NEW p \in Texts
    PROVE  /\ TrimPrefix(x, p) \in Texts
           /\ Occurs(x, p) => Before(x, p) \in Texts /\ After(x, p) \in Texts
           /\ RemoveFirstText(x, p) \in Texts
<1>1. x \in Seq(Tokens) /\ p \in Seq(Tokens) /\ Len(x) \in Nat /\ Len(p) \in Nat
  BY ElementOf DEF Texts
<1>2. Len(p) + 1 \in Nat \ {0}
  BY <1>1
<1>3. TrimPrefix(x, p) \in Texts
  BY <1>2, TextsCut DEF TrimPrefix
<1>4. ASSUME Occurs(x, p) PROVE Before(x, p) \in Texts /\ After(x, p) \in Texts
  <2>1. PICK f : f = FirstAt(x, p) /\ f \in 1 .. Len(x)
    BY <1>1, <1>4, FirstOccurrence
  <2>2. f + Len(p) \in Nat \ {0}
    BY <1>1, <2>1
  <2> QED
    BY <2>1, <2>2, TextsCut DEF Before, After
<1>5. Occurs(x, p) => Before(x, p) \o After(x, p) \in Texts
  <2>1. Occurs(x, p) => Cat(Before(x, p), After(x, p)) \in Texts
    BY <1>4, Cats
  <2> QED
    BY <2>1 DEF Cat
<1> QED
  BY <1>3, <1>4, <1>5 DEF RemoveFirstText

\* One separator is cut at alike by the Go runtime and by the others.
LEMMA TwoWays ==
    ASSUME NEW val \in Texts, NEW prefix \in Texts, NEW seps \in [1 .. 1 -> Texts], NEW idx \in 0 .. 1
    PROVE  SplitMultiWildcard(val, prefix, seps[1], idx) = split_multi_wildcard(val, prefix, seps, idx)
<1>1. PICK m \in Nat : m = 1
  OBVIOUS
<1>2. seps \in [1 .. m -> Texts]
  BY <1>1
<1>3. PICK f \in [0 .. m -> Texts] : SplitsOf(f, val, prefix, m, seps)
  BY <1>2, SplitIs
<1>4. PICK rest : rest = TrimPrefix(val, prefix)
  OBVIOUS
<1>5. /\ f[0] = rest
      /\ f[1] = IF Occurs(rest, seps[1]) THEN After(rest, seps[1]) ELSE <<>>
      /\ split_multi_wildcard(val, prefix, seps, 0) =
           IF Occurs(rest, seps[1]) THEN Before(rest, seps[1]) ELSE rest
      /\ split_multi_wildcard(val, prefix, seps, 1) = f[1]
  <2>1. f[0] = rest
    BY <1>3, <1>4 DEF SplitsOf
  <2>2. 1 \in 1 .. m /\ 1 - 1 = 0 /\ 0 \in 0 .. m /\ 1 \in 0 .. m /\ 0 < m /\ ~(1 < m) /\ 0 + 1 = 1
    BY <1>1
  <2>3. f[1] = IF Occurs(f[1 - 1], seps[1]) THEN After(f[1 - 1], seps[1]) ELSE <<>>
    BY <1>3, <2>2 DEF SplitsOf
  <2>4. split_multi_wildcard(val, prefix, seps, 0) =
           IF 0 < m /\ Occurs(f[0], seps[0 + 1]) THEN Before(f[0], seps[0 + 1]) ELSE f[0]
    BY <1>3, <2>2 DEF SplitsOf
  <2>5. split_multi_wildcard(val, prefix, seps, 1) =
           IF 1 < m /\ Occurs(f[1], seps[1 + 1]) THEN Before(f[1], seps[1 + 1]) ELSE f[1]
    BY <1>3, <2>2 DEF SplitsOf
  <2> QED
    BY <2>1, <2>2, <2>3, <2>4, <2>5
<1>6. SplitMultiWildcard(val, prefix, seps[1], idx) =
         IF Occurs(rest, seps[1]) THEN (IF idx = 0 THEN Before(rest, seps[1]) ELSE After(rest, seps[1]))
         ELSE IF idx = 0 THEN rest ELSE <<>>
  BY <1>4 DEF SplitMultiWildcard
<1>7. idx = 0 \/ idx = 1
  OBVIOUS
<1> QED
  BY <1>5, <1>6, <1>7, Zenon

\* The value of a wildcard by the number s of wildcards.
ExtractedAs(client, pat, s, name, j) ==
    /\ s = 1 /\ client = "ts" => Extract(client, pat, name, j) = RemoveFirstText(name, PrefixOf(pat))
    /\ s = 1 /\ client # "ts" => Extract(client, pat, name, j) = TrimPrefix(name, PrefixOf(pat))
    /\ s > 2 /\ client = "go" => Extract(client, pat, name, j) = name
    /\ s > 1 /\ ~(s > 2 /\ client = "go") =>
         Extract(client, pat, name, j) = split_multi_wildcard(name, PrefixOf(pat), SepsOf(pat), j - 1)
    /\ s = 1 /\ TrimPrefix(name, PrefixOf(pat)) # <<>> => ExtractSSE(pat, name, 1) = TrimPrefix(name, PrefixOf(pat))
    /\ s > 1 /\ name # <<>> => ExtractSSE(pat, name, 1) = name
    /\ j > 1 => ExtractSSE(pat, name, j) = Placeholder
    /\ ExtractSSE(pat, name, j) \in {Placeholder, name, TrimPrefix(name, PrefixOf(pat))}

\* Such is Extract, whatever the language of the client.
LEMMA ExtractIs ==
    ASSUME NEW client, NEW pat, Starry(pat), NEW s, s = Len(Stars(pat)), NEW name \in Texts, NEW j \in 1 .. s
    PROVE  ExtractedAs(client, pat, s, name, j)
<1>1. PICK m : m = s - 1
  OBVIOUS
<1>2. m \in Nat /\ s = m + 1 /\ PrefixOf(pat) \in Texts /\ SepsOf(pat) \in [1 .. m -> Texts]
  BY <1>1, PiecesAre
<1>3. PICK p \in Texts : p = PrefixOf(pat)
  BY <1>2
<1>4. Extract(client, pat, name, j) =
        CASE s = 1 /\ client = "ts" -> RemoveFirstText(name, p)
          [] s = 1 /\ client # "ts" -> TrimPrefix(name, p)
          [] s = 2 /\ client = "go" -> SplitMultiWildcard(name, p, SepsOf(pat)[1], j - 1)
          [] s > 2 /\ client = "go" -> name
          [] OTHER -> split_multi_wildcard(name, p, SepsOf(pat), j - 1)
  BY <1>3, Zenon DEF Extract
<1>5. ASSUME s = 2 PROVE SplitMultiWildcard(name, p, SepsOf(pat)[1], j - 1) = split_multi_wildcard(name, p, SepsOf(pat), j - 1)
  <2>1. m = 1 /\ j - 1 \in 0 .. 1
    BY <1>2, <1>5
  <2>2. SepsOf(pat) \in [1 .. 1 -> Texts]
    BY <1>2, <2>1
  <2> QED
    BY <1>3, <2>1, <2>2, TwoWays
<1>6. /\ s = 1 /\ client = "ts" => Extract(client, pat, name, j) = RemoveFirstText(name, p)
      /\ s = 1 /\ client # "ts" => Extract(client, pat, name, j) = TrimPrefix(name, p)
      /\ s > 2 /\ client = "go" => Extract(client, pat, name, j) = name
      /\ s > 1 /\ ~(s > 2 /\ client = "go") =>
           Extract(client, pat, name, j) = split_multi_wildcard(name, p, SepsOf(pat), j - 1)
  <2>1. s = 1 => ~(s > 2) /\ s # 2
    BY <1>2
  <2>2. s > 2 => s # 1 /\ s # 2
    BY <1>2
  <2>3. s = 2 => ~(s > 2) /\ s # 1
    BY <1>2
  <2>4. s > 1 => s = 2 \/ s > 2
    BY <1>2
  <2>5. s > 1 => s # 1
    BY <1>2
  <2>6. CASE s = 1
    <3>1. ~(s > 2) /\ ~(s > 1)
      BY <1>2, <2>6
    <3>2. client = "ts" => Extract(client, pat, name, j) = RemoveFirstText(name, p)
      BY <1>4, <2>6
    <3>3. client # "ts" => Extract(client, pat, name, j) = TrimPrefix(name, p)
      BY <1>4, <2>6
    <3> QED
      BY <3>1, <3>2, <3>3
  <2>7. CASE s = 2
    <3>1. client = "go" => Extract(client, pat, name, j) = SplitMultiWildcard(name, p, SepsOf(pat)[1], j - 1)
      BY <1>4, <2>7, <2>3
    <3>2. client # "go" => Extract(client, pat, name, j) = split_multi_wildcard(name, p, SepsOf(pat), j - 1)
      BY <1>4, <2>7, <2>3
    <3> QED
      BY <1>5, <2>3, <2>7, <3>1, <3>2
  <2>8. CASE s > 2
    <3>1. client = "go" => Extract(client, pat, name, j) = name
      BY <1>4, <2>8, <2>2
    <3>2. client # "go" => Extract(client, pat, name, j) = split_multi_wildcard(name, p, SepsOf(pat), j - 1)
      BY <1>4, <2>8, <2>2
    <3> QED
      BY <2>2, <2>8, <3>1, <3>2
  <2>9. s = 1 \/ s = 2 \/ s > 2
    BY <1>2
  <2> QED
    BY <2>6, <2>7, <2>8, <2>9
<1>7. \A i : ExtractSSE(pat, name, i) =
         IF i > 1 \/ (IF s = 1 THEN TrimPrefix(name, p) ELSE name) = <<>> THEN Placeholder
         ELSE IF s = 1 THEN TrimPrefix(name, p) ELSE name
  BY <1>3, Zenon DEF ExtractSSE
<1>8. /\ s = 1 /\ TrimPrefix(name, p) # <<>> => ExtractSSE(pat, name, 1) = TrimPrefix(name, p)
      /\ s > 1 /\ name # <<>> => ExtractSSE(pat, name, 1) = name
      /\ j > 1 => ExtractSSE(pat, name, j) = Placeholder
      /\ ExtractSSE(pat, name, j) \in {Placeholder, name, TrimPrefix(name, p)}
  <2>1. ~(1 > 1)
    OBVIOUS
  <2>2. s > 1 => s # 1
    BY <1>2
  <2> QED
    BY <1>7, <2>1, <2>2
<1> QED
  BY <1>3, <1>6, <1>8, Zenon DEF ExtractedAs

\* The values a client takes out of a name are texts.
LEMMA ValuesAreTexts ==
    ASSUME NEW client, NEW o \in Ops, NEW s, s = Len(Stars(Pattern(o))), NEW name \in Texts
    PROVE  ValuesOf(client, o, name) \in [1 .. s -> Texts]
<1>1. PICK pat : pat = Pattern(o)
  OBVIOUS
<1>2. Starry(pat)
  BY <1>1, OwnPath
<1>3. PICK m : m = s - 1
  OBVIOUS
<1>4. m \in Nat /\ s = m + 1 /\ PrefixOf(pat) \in Texts /\ SepsOf(pat) \in [1 .. m -> Texts]
  BY <1>1, <1>2, <1>3, PiecesAre
<1>5. PICK f \in [0 .. m -> Texts] : SplitsOf(f, name, PrefixOf(pat), m, SepsOf(pat))
  BY <1>4, SplitIs
<1>6. Placeholder \in Texts
  <2>1. "%7B%7D" \in Tokens
    BY DEF Tokens
  <2>2. <<>> \in Texts
    BY Cats
  <2> QED
    BY <2>1, <2>2, OneMore DEF Placeholder
<1>7. ASSUME NEW j \in 1 .. s PROVE ValueOf(client, o, name, j) \in Texts
  <2>1. ExtractedAs(client, pat, s, name, j)
    BY <1>1, <1>2, ExtractIs
  <2>2. split_multi_wildcard(name, PrefixOf(pat), SepsOf(pat), j - 1) \in Texts
    <3>1. PICK i \in 0 .. m : i = j - 1
      BY <1>4
    <3>2. split_multi_wildcard(name, PrefixOf(pat), SepsOf(pat), i) =
            IF i < m /\ Occurs(f[i], SepsOf(pat)[i + 1]) THEN Before(f[i], SepsOf(pat)[i + 1]) ELSE f[i]
      BY <1>5 DEF SplitsOf
    <3>3. f[i] \in Texts
      OBVIOUS
    <3>4. ASSUME i < m, Occurs(f[i], SepsOf(pat)[i + 1]) PROVE Before(f[i], SepsOf(pat)[i + 1]) \in Texts
      <4>1. i + 1 \in 1 .. m
        BY <1>4, <3>4
      <4>2. SepsOf(pat)[i + 1] \in Texts
        BY <1>4, <4>1
      <4> QED
        BY <3>3, <3>4, <4>2, TextsExtracted
    <3> QED
      BY <3>1, <3>2, <3>3, <3>4
  <2>3. TrimPrefix(name, PrefixOf(pat)) \in Texts /\ RemoveFirstText(name, PrefixOf(pat)) \in Texts
    BY <1>4, TextsExtracted
  <2>4. ExtractSSE(pat, name, j) \in Texts
    BY <1>6, <2>1, <2>3 DEF ExtractedAs
  <2>5. Extract(client, pat, name, j) \in Texts
    <3>1. s = 1 \/ s > 1
      BY <1>4
    <3> QED
      BY <2>1, <2>2, <2>3, <3>1 DEF ExtractedAs
  <2> QED
    BY <1>1, <2>4, <2>5 DEF ValueOf
<1>8. ValuesOf(client, o, name) = [j \in 1 .. s |-> ValueOf(client, o, name, j)]
  BY DEF ValuesOf
<1> QED
  BY <1>7, <1>8

\* IDs and strays are texts of characters.
LEMMA IdsAreTexts ==
    \A id \in Ids \cup Strays : id \in Texts /\ Plain(id)
<1> SUFFICES ASSUME NEW id \in Ids \cup Strays PROVE id \in Texts /\ Plain(id)
  OBVIOUS
<1>1. id \in Seq(STRING) /\ \A k \in DOMAIN id : id[k] \notin {"%2F", "%25", "%3A", "%21"}
  BY IdsAssumption
<1>2. \A k \in 1 .. Len(id) : id[k] \in Tokens
  BY <1>1 DEF Tokens
<1>3. id \in Seq(Tokens)
  BY <1>1, <1>2
<1> QED
  BY <1>1, <1>3 DEF Texts, Plain

\* The name of a call, in the pieces its pattern gives it.
NamedBy(o, s, ids, t) ==
    /\ ids \in [1 .. s -> Texts] /\ \A j \in 1 .. s : Plain(ids[j])
    /\ t \in Texts
    /\ t = Cat(FlattenSeq(Interleaved(ids, SepsOf(Pattern(o)))), TailOf(Pattern(o)))
    /\ NameOf(Pattern(o), ids) = PrefixOf(Pattern(o)) \o t

\* A name of IDs is its prefix and the IDs between the separators.
LEMMA NameIs ==
    ASSUME NEW o \in Ops, NEW s, s = Len(Stars(Pattern(o))), NEW ids \in IdsFor(o), ids # <<>>
    PROVE  \E t : NamedBy(o, s, ids, t)
<1>1. PICK pat : pat = Pattern(o)
  OBVIOUS
<1>2. Starry(pat)
  BY <1>1, OwnPath
<1>3. PICK m : m = s - 1
  OBVIOUS
<1>4. /\ m \in Nat /\ s = m + 1 /\ PrefixOf(pat) \in Texts /\ SepsOf(pat) \in [1 .. m -> Texts]
      /\ TailOf(pat) \in Texts
  BY <1>1, <1>2, <1>3, PiecesAre
<1>5. ids \in [1 .. s -> Ids]
  BY DEF IdsFor
<1>6. \A id \in Ids : id \in Texts /\ Plain(id)
  BY IdsAreTexts
<1>7. ids \in [1 .. s -> Texts] /\ \A j \in 1 .. s : Plain(ids[j])
  BY <1>5, <1>6
<1>8. Layered(ids, SepsOf(pat), s, m)
  BY <1>4, <1>7, InterleavedIs
<1>9. PICK F \in Texts : F = FlattenSeq(Interleaved(ids, SepsOf(pat)))
  <2>1. s \in 0 .. s
    BY <1>4
  <2> QED
    BY <1>8, <2>1 DEF Layered
<1>10. NameOf(pat, ids) = (PrefixOf(pat) \o F) \o TailOf(pat)
  BY <1>9, Zenon DEF NameOf, Interleaved
<1>11. NameOf(pat, ids) = Cat(Cat(PrefixOf(pat), F), TailOf(pat))
  BY <1>10 DEF Cat
<1>12. NameOf(pat, ids) = Cat(PrefixOf(pat), Cat(F, TailOf(pat)))
  BY <1>4, <1>11, Cats
<1>13. Cat(F, TailOf(pat)) \in Texts
  BY <1>4, Cats
<1>14. NameOf(pat, ids) = PrefixOf(pat) \o Cat(F, TailOf(pat))
  BY <1>12 DEF Cat
<1> QED
  BY <1>1, <1>7, <1>9, <1>13, <1>14, Zenon DEF NamedBy

\* The second text, not empty, is the end of the first.
EndsWith(a, b) == b # <<>> /\ \E u \in Texts : a = Cat(u, b)

\* A text behind another is its end, and what is the end of an end.
LEMMA CatEnds ==
    ASSUME NEW a \in Texts, NEW b \in Texts, b # <<>>
    PROVE  /\ EndsWith(Cat(a, b), b) /\ Cat(a, b) # <<>> /\ EndsWith(b, b)
           /\ \A x \in Texts : EndsWith(b, x) => EndsWith(Cat(a, b), x)
<1>1. EndsWith(Cat(a, b), b)
  BY DEF EndsWith
<1>2. Cat(a, b) # <<>>
  <2>1. a \in Seq(Tokens) /\ b \in Seq(Tokens) /\ Len(a) \in Nat /\ Len(b) \in Nat /\ Len(b) # 0
    BY ElementOf, EmptySeq DEF Texts
  <2>2. a \o b \in Seq(Tokens) /\ Len(a \o b) = Len(a) + Len(b)
    BY <2>1, Concatenated
  <2>3. PICK z \in Seq(Tokens) : z = a \o b
    BY <2>2
  <2>4. Len(z) # 0
    BY <2>1, <2>2, <2>3
  <2>5. z # <<>>
    BY <2>4, EmptySeq
  <2> QED
    BY <2>3, <2>5 DEF Cat
<1>3. EndsWith(b, b)
  <2>1. <<>> \in Texts /\ b = Cat(<<>>, b)
    BY Cats
  <2> QED
    BY <2>1 DEF EndsWith
<1>4. ASSUME NEW x \in Texts, EndsWith(b, x) PROVE EndsWith(Cat(a, b), x)
  <2>1. PICK u \in Texts : x # <<>> /\ b = Cat(u, x)
    BY <1>4 DEF EndsWith
  <2>2. Cat(a, Cat(u, x)) = Cat(Cat(a, u), x) /\ Cat(a, u) \in Texts
    BY Cats
  <2> QED
    BY <2>1, <2>2 DEF EndsWith
<1> QED
  BY <1>1, <1>2, <1>3, <1>4

\* A proper ID has the segments it needs.
LEMMA ProperIs ==
    ASSUME NEW o \in Ops, NEW id \in Texts, Proper(o, id), NEW s, s = Len(Stars(Pattern(o)))
    PROVE  /\ s = 1 /\ Pattern(o)[Len(Pattern(o))] = "*" => id \notin Improper
           /\ s > 1 \/ Pattern(o)[Len(Pattern(o))] # "*" => Carried(id)
<1>1. /\ Path(o)[Len(Path(o))].kind = "rest" <=> s = 1 /\ Pattern(o)[Len(Pattern(o))] # "*"
      /\ Starry(Pattern(o))
  BY OwnPath
<1>2. PICK m : m = s - 1
  OBVIOUS
<1>3. m \in Nat /\ s = m + 1
  BY <1>1, <1>2, PiecesAre
<1>4. \A seg \in (IF Path(o)[Len(Path(o))].kind = "rest" \/ s > 1 THEN ToSet(Segments(id)) ELSE {id}) :
        seg \notin Improper
  BY Zenon DEF Proper
<1>5. ASSUME Path(o)[Len(Path(o))].kind = "rest" \/ s > 1 PROVE Carried(id)
  BY <1>4, <1>5 DEF Carried, ToSet
<1>6. ASSUME ~(Path(o)[Len(Path(o))].kind = "rest" \/ s > 1) PROVE id \notin Improper
  BY <1>4, <1>6
<1>7. s = 1 => ~(s > 1)
  OBVIOUS
<1>8. s = 1 \/ s > 1
  BY <1>3
<1> QED
  BY <1>1, <1>5, <1>6, <1>7, <1>8

\* A name of proper IDs: its part t behind the prefix fits a URL, and so does
\* the whole of it; a lone wildcard at the end is the ID.
NameFit(o, s, ids, t, name) ==
    /\ t \in Texts /\ name \in Texts /\ name = PrefixOf(Pattern(o)) \o t
    /\ t # <<>> /\ name # <<>> /\ EndsWith(name, t)
    /\ Plain(t) /\ t \notin Improper
    /\ s > 1 \/ Pattern(o)[Len(Pattern(o))] # "*" => Fit(t) /\ Fit(name)

\* Such is every name of proper IDs.
LEMMA NameFits ==
    ASSUME NEW o \in Ops, NEW s, s = Len(Stars(Pattern(o))), NEW ids, NEW t, NamedBy(o, s, ids, t),
           \A j \in 1 .. s : Proper(o, ids[j]), NEW name, name = NameOf(Pattern(o), ids)
    PROVE  NameFit(o, s, ids, t, name)
<1>1. PICK pat : pat = Pattern(o)
  OBVIOUS
<1>2. Starry(pat)
  BY <1>1, OwnPath
<1>3. PICK m : m = s - 1
  OBVIOUS
<1>4. /\ m \in Nat /\ s = m + 1
      /\ PrefixOf(pat) \in Texts
      /\ PrefixOf(pat) = <<>> \/ \E x \in Texts : Fit(x) /\ PrefixOf(pat) = Cat(x, Slash)
      /\ TailOf(pat) \in Texts
      /\ TailOf(pat) = <<>> \/ \E x \in Texts : Fit(x) /\ TailOf(pat) = Cat(Slash, x)
      /\ pat[Len(pat)] = "*" => TailOf(pat) = <<>>
      /\ SepsOf(pat) \in [1 .. m -> Texts]
      /\ \A j \in 1 .. m : Separator(SepsOf(pat)[j])
  BY <1>1, <1>2, <1>3, PiecesAre
<1>5. /\ ids \in [1 .. s -> Texts] /\ \A j \in 1 .. s : Plain(ids[j])
      /\ t \in Texts
      /\ t = Cat(FlattenSeq(Interleaved(ids, SepsOf(pat))), TailOf(pat))
      /\ name = PrefixOf(pat) \o t
  BY <1>1 DEF NamedBy
<1>6. Layered(ids, SepsOf(pat), s, m)
  BY <1>4, <1>5, InterleavedIs
<1>7. PICK F \in Texts : F = FlattenSeq(Interleaved(ids, SepsOf(pat)))
  <2>1. s \in 0 .. s
    BY <1>4
  <2> QED
    BY <1>6, <2>1 DEF Layered
<1>8. t = Cat(F, TailOf(pat)) /\ name = Cat(PrefixOf(pat), t) /\ name \in Texts
  <2>1. name = Cat(PrefixOf(pat), t)
    BY <1>5 DEF Cat
  <2> QED
    BY <1>4, <1>5, <1>7, <2>1, Cats
<1>9. ASSUME s > 1 \/ pat[Len(pat)] # "*" PROVE Fit(t) /\ Fit(name)
  <2>1. \A j \in 1 .. s : Fit(ids[j])
    <3> SUFFICES ASSUME NEW j \in 1 .. s PROVE Fit(ids[j])
      OBVIOUS
    <3>1. PICK id \in Texts : id = ids[j] /\ Plain(id)
      BY <1>5
    <3>2. Carried(id)
      BY <1>1, <1>9, <3>1, ProperIs
    <3> QED
      BY <3>1, <3>2 DEF Fit
  <2>2. Fit(F)
    <3>1. PICK seps \in [1 .. m -> Texts] : seps = SepsOf(pat) /\ \A j \in 1 .. m : Separator(seps[j])
      BY <1>4
    <3>2. s \in Nat \ {0} /\ ids \in [1 .. s -> Texts]
      BY <1>4, <1>5
    <3>3. Fit(FlattenSeq(Interleaved(ids, seps))) <=> \A j \in 1 .. s : Fit(ids[j])
      BY <1>3, <3>1, <3>2, InterleavedFits
    <3> QED
      BY <1>7, <2>1, <3>1, <3>3
  <2>3. Fit(t)
    <3>1. CASE TailOf(pat) = <<>>
      <4>1. t = F
        BY <1>7, <1>8, <3>1, Cats
      <4> QED
        BY <2>2, <4>1
    <3>2. ASSUME NEW x \in Texts, Fit(x), TailOf(pat) = Cat(Slash, x) PROVE Fit(t)
      BY <1>7, <1>8, <2>2, <3>2, SlashFits
    <3> QED
      BY <1>4, <3>1, <3>2
  <2>4. Fit(name)
    <3>1. CASE PrefixOf(pat) = <<>>
      <4>1. name = t
        BY <1>5, <1>8, <3>1, Cats
      <4> QED
        BY <2>3, <4>1
    <3>2. ASSUME NEW x \in Texts, Fit(x), PrefixOf(pat) = Cat(x, Slash) PROVE Fit(name)
      <4>1. name = Cat(x, Cat(Slash, t))
        <5>1. Slash \in Texts
          BY SlashFits
        <5>2. name = Cat(Cat(x, Slash), t)
          BY <1>8, <3>2
        <5>3. Cat(x, Cat(Slash, t)) = Cat(Cat(x, Slash), t)
          BY <1>5, <5>1, Cats
        <5> QED
          BY <5>2, <5>3
      <4>2. Fit(Cat(x, Cat(Slash, t)))
        BY <1>5, <2>3, <3>2, SlashFits
      <4> QED
        BY <4>1, <4>2
    <3> QED
      BY <1>4, <3>1, <3>2
  <2> QED
    BY <2>3, <2>4
<1>10. ASSUME s = 1, pat[Len(pat)] = "*" PROVE t = ids[1] /\ Plain(t) /\ t \notin Improper
  <2>1. PICK id \in Texts : id = ids[1] /\ Plain(id) /\ Proper(o, id)
    <3>1. 1 \in 1 .. s
      BY <1>10
    <3> QED
      BY <1>5, <3>1
  <2>2. id \notin Improper
    BY <1>1, <1>10, <2>1, ProperIs
  <2>3. F = id
    <3>1. m = 0 /\ s \in 0 .. s /\ 0 \in 0 .. m
      BY <1>4, <1>10
    <3>2. FirstOnes(ids, SepsOf(pat), 0 + 1) =
            Cat(FirstOnes(ids, SepsOf(pat), 0), Cat(SepAhead(SepsOf(pat), 0), ids[0 + 1]))
      BY <1>6, <3>1 DEF Layered
    <3>3. FirstOnes(ids, SepsOf(pat), 0) = <<>> /\ SepAhead(SepsOf(pat), 0) = <<>>
      BY <1>6 DEF Layered, SepAhead
    <3>4. FirstOnes(ids, SepsOf(pat), s) = F
      BY <1>6, <1>7 DEF Layered
    <3>5. FirstOnes(ids, SepsOf(pat), s) = Cat(<<>>, Cat(<<>>, id))
      BY <1>10, <2>1, <3>2, <3>3
    <3> QED
      BY <2>1, <3>4, <3>5, Cats
  <2>4. t = id
    BY <1>4, <1>7, <1>8, <1>10, <2>3, Cats
  <2> QED
    BY <2>1, <2>2, <2>4
<1>11. Plain(t) /\ t \notin Improper
  <2>1. CASE s > 1 \/ pat[Len(pat)] # "*"
    <3>1. Carried(t) /\ Plain(t)
      BY <1>9, <2>1 DEF Fit
    <3> QED
      BY <1>5, <3>1, CarriedOne
  <2>2. CASE ~(s > 1 \/ pat[Len(pat)] # "*")
    <3>1. s = 1 /\ pat[Len(pat)] = "*"
      BY <1>4, <2>2
    <3> QED
      BY <1>10, <3>1
  <2> QED
    BY <2>1, <2>2
<1>12. t # <<>>
  BY <1>11 DEF Improper
<1>13. EndsWith(name, t)
  BY <1>4, <1>5, <1>8, <1>12, CatEnds
<1>14. name # <<>>
  BY <1>4, <1>5, <1>8, <1>12, CatEnds
<1> QED
  BY <1>1, <1>5, <1>8, <1>9, <1>11, <1>12, <1>13, <1>14, Zenon DEF NameFit

Cuttable(c, prefix, seps, t) == \E v \in [1 .. c -> Texts] : CutBack(v, c, prefix, seps, t)

\* NameSplits, in the form the clients need.
LEMMA NameCuts ==
    ASSUME NEW c, NEW m, NEW ids, NEW seps, NEW prefix, NEW tail, NEW t,
           c \in Nat \ {0}, m = c - 1, ids \in [1 .. c -> Texts], seps \in [1 .. m -> Texts],
           \A k \in 1 .. m : seps[k] # <<>>, prefix \in Texts, tail \in Texts,
           t = Cat(FlattenSeq(Interleaved(ids, seps)), tail)
    PROVE  Cuttable(c, prefix, seps, t)
<1>1. \E v \in [1 .. c -> Texts] : CutBack(v, c, prefix, seps, t)
  BY NameSplits
<1> QED
  BY <1>1 DEF Cuttable

\* What a client takes out of such a name can be carried, and put together
\* again it is the name: but for Go, whose streams put all of it into the first
\* wildcard and whose other calls put it into each of three and more.
OrdinaryValues(client, o, s, name, t, V) ==
    /\ V \in [1 .. s -> Texts]
    /\ \A j \in 1 .. s : V[j] \notin Improper /\ Plain(V[j])
    /\ Path(o)[Len(Path(o))].kind = "rest" => Carried(V[s])
    /\ V[s] = Placeholder \/ EndsWith(name, V[s])
    /\ ~Operations[o].serverStream /\ ~(s > 2 /\ client = "go") =>
         FlattenSeq(Interleaved(V, SepsOf(Pattern(o)))) = t
    /\ ~Operations[o].serverStream /\ s > 2 /\ client = "go" => \A j \in 1 .. s : V[j] = name

\* Every client takes such values out of the name of an ordinary call.
LEMMA ValuesSplit ==
    ASSUME NEW client \in {"go", "py", "ts"}, NEW o \in Ops, NEW s, s = Len(Stars(Pattern(o))),
           NEW ids, NEW t, NamedBy(o, s, ids, t), \A j \in 1 .. s : Proper(o, ids[j]),
           NEW name, name = NameOf(Pattern(o), ids), NEW V, V = ValuesOf(client, o, name)
    PROVE  OrdinaryValues(client, o, s, name, t, V)
<1>1. PICK pat : pat = Pattern(o)
  OBVIOUS
<1>2. Starry(pat)
  BY <1>1, OwnPath
<1>3. PICK m : m = s - 1
  OBVIOUS
<1>4. /\ m \in Nat /\ s = m + 1
      /\ PrefixOf(pat) \in Texts /\ TailOf(pat) \in Texts
      /\ SepsOf(pat) \in [1 .. m -> Texts]
      /\ \A j \in 1 .. m : Separator(SepsOf(pat)[j])
  BY <1>1, <1>2, <1>3, PiecesAre
<1>5. PICK p \in Texts : p = PrefixOf(pat)
  BY <1>4
<1>6. PICK seps \in [1 .. m -> Texts] : seps = SepsOf(pat) /\ \A j \in 1 .. m : Separator(seps[j])
  BY <1>4
<1>7. NameFit(o, s, ids, t, name)
  BY NameFits
<1>8. /\ t \in Texts /\ name \in Texts /\ name = p \o t
      /\ t # <<>> /\ name # <<>> /\ EndsWith(name, t)
      /\ Plain(t) /\ t \notin Improper
      /\ s > 1 \/ pat[Len(pat)] # "*" => Fit(t) /\ Fit(name)
  BY <1>1, <1>5, <1>7, Zenon DEF NameFit
<1>9. V \in [1 .. s -> Texts] /\ \A j \in 1 .. s : V[j] = ValueOf(client, o, name, j)
  <2>1. V \in [1 .. s -> Texts]
    BY <1>8, ValuesAreTexts
  <2>2. V = [j \in 1 .. s |-> ValueOf(client, o, name, j)]
    BY Zenon DEF ValuesOf
  <2> QED
    BY <2>1, <2>2
<1>10. \A j \in 1 .. s : ExtractedAs(client, pat, s, name, j)
  BY <1>1, <1>2, <1>8, ExtractIs
<1>11. s \in 1 .. s /\ 1 \in 1 .. s
  BY <1>4
<1>12. \A j \in 1 .. s : V[j] = IF client = "go" /\ Operations[o].serverStream THEN ExtractSSE(pat, name, j)
                                ELSE Extract(client, pat, name, j)
  BY <1>1, <1>9 DEF ValueOf
<1>13. Path(o)[Len(Path(o))].kind = "rest" <=> s = 1 /\ pat[Len(pat)] # "*"
  BY <1>1, OwnPath
<1>14. TrimPrefix(name, p) = t /\ RemoveFirstText(name, p) = t
  <2>1. TrimPrefix(p \o t, p) = t
    BY <1>8, TrimAddedPrefix DEF Texts
  <2> QED
    BY <1>8, <2>1, FirstTextRemoved
<1>15. ASSUME s > 1 PROVE Fit(name) /\ Fit(t) /\ name \notin Improper /\ Plain(name)
  <2>1. Fit(name) /\ Fit(t)
    BY <1>8, <1>15
  <2>2. Carried(name) /\ Plain(name)
    BY <2>1 DEF Fit
  <2> QED
    BY <1>8, <2>1, <2>2, CarriedOne
<1>16. CASE s = 1
  <2>1. V[1] = t
    <3>1. ExtractedAs(client, pat, s, name, 1)
      BY <1>10, <1>11
    <3>2. ExtractSSE(pat, name, 1) = t
      BY <1>5, <1>8, <1>14, <1>16, <3>1 DEF ExtractedAs
    <3>3. Extract(client, pat, name, 1) = t
      BY <1>5, <1>14, <1>16, <3>1 DEF ExtractedAs
    <3> QED
      BY <1>11, <1>12, <3>2, <3>3
  <2>2. \A j \in 1 .. s : j = 1
    BY <1>16
  <2>3. pat[Len(pat)] # "*" => Carried(t)
    BY <1>8 DEF Fit
  <2>5. FlattenSeq(Interleaved(V, seps)) = t
    <3>1. Layered(V, seps, s, m)
      BY <1>4, <1>9, InterleavedIs
    <3>2. m = 0 /\ 0 \in 0 .. m
      BY <1>4, <1>16
    <3>3. FirstOnes(V, seps, 0 + 1) = Cat(FirstOnes(V, seps, 0), Cat(SepAhead(seps, 0), V[0 + 1]))
      BY <3>1, <3>2 DEF Layered
    <3>4. FirstOnes(V, seps, 0) = <<>> /\ SepAhead(seps, 0) = <<>>
      BY <3>1 DEF Layered, SepAhead
    <3>5. FirstOnes(V, seps, 1) = FlattenSeq(Interleaved(V, seps))
      BY <1>16, <3>1 DEF Layered
    <3>6. FirstOnes(V, seps, 1) = Cat(<<>>, Cat(<<>>, t))
      BY <2>1, <3>3, <3>4
    <3> QED
      BY <1>8, <3>5, <3>6, Cats
  <2>6. ~(s > 2)
    BY <1>16
  <2>7. \A j \in 1 .. s : V[j] \notin Improper /\ Plain(V[j])
    BY <1>8, <2>1, <2>2
  <2> QED
    BY <1>1, <1>6, <1>9, <1>13, <1>16, <1>8, <2>1, <2>3, <2>5, <2>6, <2>7, Zenon DEF OrdinaryValues
<1>17. CASE s > 1 /\ client = "go" /\ Operations[o].serverStream
  <2>1. Placeholder \in Texts /\ Placeholder \notin Improper /\ Plain(Placeholder)
    <3>1. "%7B%7D" \in Tokens
      BY DEF Tokens
    <3>2. Placeholder \in Texts
      BY <3>1, OneMore, Cats DEF Placeholder
    <3>3. Plain(Placeholder)
      BY DEF Placeholder, Plain
    <3>4. Placeholder \notin Improper
      BY DEF Placeholder, Improper
    <3> QED
      BY <3>2, <3>3, <3>4
  <2>2. V[1] = name
    BY <1>8, <1>10, <1>11, <1>12, <1>17 DEF ExtractedAs
  <2>3. \A j \in 1 .. s : j > 1 => V[j] = Placeholder
    BY <1>10, <1>12, <1>17 DEF ExtractedAs
  <2>4. \A j \in 1 .. s : V[j] = name \/ V[j] = Placeholder
    <3>1. \A j \in 1 .. s : j = 1 \/ j > 1
      BY <1>4
    <3> QED
      BY <2>2, <2>3, <3>1
  <2>5. V[s] = Placeholder
    BY <1>11, <1>17, <2>3
  <2>6. s # 1
    BY <1>17
  <2>7. \A j \in 1 .. s : V[j] \notin Improper /\ Plain(V[j])
    BY <1>15, <1>17, <2>1, <2>4
  <2> QED
    BY <1>9, <1>13, <1>17, <2>5, <2>6, <2>7, Zenon DEF OrdinaryValues
<1>18. CASE s > 2 /\ client = "go" /\ ~Operations[o].serverStream
  <2>1. \A j \in 1 .. s : V[j] = name
    BY <1>10, <1>12, <1>18 DEF ExtractedAs
  <2>2. s > 1 /\ s # 1
    BY <1>4, <1>18
  <2>3. EndsWith(name, name)
    BY <1>8, CatEnds
  <2>4. \A j \in 1 .. s : V[j] \notin Improper /\ Plain(V[j])
    BY <1>15, <2>1, <2>2
  <2>5. V[s] = name
    BY <1>11, <2>1
  <2> QED
    BY <1>9, <1>13, <1>18, <2>1, <2>2, <2>3, <2>4, <2>5, Zenon DEF OrdinaryValues
<1>19. CASE s > 1 /\ ~(s > 2 /\ client = "go") /\ ~(client = "go" /\ Operations[o].serverStream)
  <2>1. \A j \in 1 .. s : V[j] = split_multi_wildcard(p \o t, p, seps, j - 1)
    BY <1>5, <1>6, <1>8, <1>10, <1>12, <1>19 DEF ExtractedAs
  <2>2. \A k \in 1 .. m : seps[k] # <<>>
    BY <1>6, SeparatorIs
  <2>3. /\ ids \in [1 .. s -> Texts]
        /\ t = Cat(FlattenSeq(Interleaved(ids, seps)), TailOf(pat))
    BY <1>1, <1>6 DEF NamedBy
  <2>4. s \in Nat \ {0}
    BY <1>4
  <2>5. PICK v \in [1 .. s -> Texts] : CutBack(v, s, p, seps, t)
    <3>1. PICK tail \in Texts : tail = TailOf(pat)
      BY <1>4
    <3>2. t = Cat(FlattenSeq(Interleaved(ids, seps)), tail)
      BY <2>3, <3>1
    <3>3. ids \in [1 .. s -> Texts] /\ m = s - 1
      BY <1>3, <2>3
    <3> QED
      <4>1. s \in Nat \ {0} /\ m = s - 1 /\ \A k \in 1 .. m : seps[k] # <<>>
        BY <2>2, <2>4, <3>3
      <4>2. ids \in [1 .. s -> Texts]
        BY <3>3
      <4>3. seps \in [1 .. m -> Texts] /\ p \in Texts /\ tail \in Texts
        OBVIOUS
      <4>4. Cuttable(s, p, seps, t)
        BY <3>2, <4>1, <4>2, <4>3, NameCuts
      <4> QED
        BY <4>4 DEF Cuttable
  <2>6. \A j \in 1 .. s : V[j] = v[j]
    BY <2>1, <2>5 DEF CutBack
  <2>7. FlattenSeq(Interleaved(V, seps)) = t
    <3>1. V = v
      BY <1>9, <2>6
    <3> QED
      BY <2>5, <3>1 DEF CutBack
  <2>8. Fit(FlattenSeq(Interleaved(V, seps)))
    BY <1>15, <1>19, <2>7
  <2>9. \A j \in 1 .. s : Fit(V[j])
    BY <1>3, <1>6, <1>9, <2>4, <2>8, InterleavedFits
  <2>10. \A j \in 1 .. s : V[j] \notin Improper /\ Plain(V[j])
    <3> SUFFICES ASSUME NEW j \in 1 .. s PROVE V[j] \notin Improper /\ Plain(V[j])
      OBVIOUS
    <3>1. PICK x \in Texts : x = V[j] /\ Fit(x)
      BY <1>9, <2>9
    <3>2. Carried(x) /\ Plain(x)
      BY <3>1 DEF Fit
    <3> QED
      BY <3>1, <3>2, CarriedOne
  <2>11. EndsWith(name, V[s])
    <3>1. Layered(V, seps, s, m)
      BY <1>3, <1>6, <1>9, <2>4, InterleavedIs
    <3>2. m \in 0 .. m /\ m + 1 = s /\ m \in 0 .. s /\ s \in 0 .. s
      BY <1>4
    <3>3. FirstOnes(V, seps, s) = Cat(FirstOnes(V, seps, m), Cat(SepAhead(seps, m), V[s]))
      BY <3>1, <3>2 DEF Layered
    <3>4. FirstOnes(V, seps, s) = t /\ FirstOnes(V, seps, m) \in Texts /\ SepAhead(seps, m) \in Texts
      BY <2>7, <3>1, <3>2 DEF Layered
    <3>5. PICK a \in Texts, b \in Texts, x \in Texts :
            a = FirstOnes(V, seps, m) /\ b = SepAhead(seps, m) /\ x = V[s] /\ x \notin Improper
      BY <1>9, <1>11, <2>10, <3>4
    <3>6. t = Cat(Cat(a, b), x) /\ Cat(a, b) \in Texts
      <4>1. t = Cat(a, Cat(b, x))
        BY <3>3, <3>4, <3>5
      <4>2. Cat(a, Cat(b, x)) = Cat(Cat(a, b), x)
        BY Cats
      <4> QED
        BY <4>1, <4>2, Cats
    <3>7. x # <<>>
      BY <3>5 DEF Improper
    <3>8. EndsWith(t, x)
      BY <3>6, <3>7, CatEnds
    <3>9. EndsWith(Cat(p, t), x)
      BY <1>8, <3>8, CatEnds
    <3> QED
      BY <1>8, <3>5, <3>9, Zenon DEF Cat
  <2>12. s # 1
    BY <1>19
  <2> QED
    BY <1>1, <1>6, <1>9, <1>13, <1>19, <2>7, <2>10, <2>11, <2>12, Zenon DEF OrdinaryValues
<1>20. s = 1 \/ s > 1
  BY <1>4
<1>21. s > 2 => s > 1
  BY <1>4
<1> QED
  BY <1>16, <1>17, <1>18, <1>19, <1>20, <1>21

-----------------------------------------------------------------------------
\* The generators agree.

\* The client's path is the server's.
LEMMA OnePath ==
    ASSUME NoVerbAfterRest, NEW client, NEW o \in Ops
    PROVE  ClientPath(client, o) = Path(o)
<1>1. PICK path : path = Path(o)
  OBVIOUS
<1>2. PICK p : p = ClientPath(client, o)
  OBVIOUS
<1>3. PathIs(path, Len(Stars(Pattern(o))))
  BY <1>1, OwnPath
<1>4. /\ path \in Seq(SegSet) /\ Len(path) \in Nat \ {0} /\ DOMAIN path = 1 .. Len(path)
      /\ \A k \in 1 .. Len(path) : \/ path[k].kind = "var"
                                   \/ path[k].kind = "rest" /\ k = Len(path)
                                   \/ \E w \in Tokens : Word(w) /\ path[k] = Lit(w)
  BY <1>3 DEF PathIs
<1>5. p = IF client = "go" \/ Operations[o].verb = "" THEN path
          ELSE [k \in DOMAIN path |-> IF path[k].kind = "rest" THEN [path[k] EXCEPT !.kind = "var"] ELSE path[k]]
  BY <1>1, <1>2, Zenon DEF ClientPath, Path
<1>6. ASSUME Operations[o].verb # "" PROVE \A k \in DOMAIN path : path[k].kind # "rest"
  <2>1. Verb(o) # <<>>
    BY <1>6, VerbIs
  <2>2. path[Len(path)].kind # "rest"
    BY <1>1, <2>1 DEF NoVerbAfterRest
  <2> SUFFICES ASSUME NEW k \in DOMAIN path, path[k].kind = "rest" PROVE FALSE
    OBVIOUS
  <2>3. k \in 1 .. Len(path) /\ k # Len(path)
    BY <1>4, <2>2
  <2>4. path[k].kind = "var" \/ path[k].kind = "lit"
    BY <1>4, <2>3, LitIs
  <2> QED
    BY <2>4
<1>7. path = [k \in DOMAIN path |-> path[k]]
  BY <1>4
<1>8. Operations[o].verb # "" =>
        [k \in DOMAIN path |-> IF path[k].kind = "rest" THEN [path[k] EXCEPT !.kind = "var"] ELSE path[k]]
        = [k \in DOMAIN path |-> path[k]]
  BY <1>6, Zenon
<1>9. p = path
  BY <1>5, <1>7, <1>8, Zenon
<1> QED
  BY <1>1, <1>2, <1>9

\* A name is a text.
LEMMA NameIsText ==
    ASSUME NEW o \in Ops, NEW ids \in IdsFor(o), NEW name \in NamesFor(o, ids)
    PROVE  name \in Texts
<1>1. PICK s : s = Len(Stars(Pattern(o)))
  OBVIOUS
<1>2. CASE ids = <<>>
  <2>1. name \in Strays
    BY <1>2 DEF NamesFor
  <2> QED
    BY <2>1, IdsAreTexts
<1>3. CASE ids # <<>>
  <2>1. PICK t : NamedBy(o, s, ids, t)
    BY <1>1, <1>3, NameIs
  <2>2. Starry(Pattern(o))
    BY OwnPath
  <2>3. PrefixOf(Pattern(o)) \in Texts
    BY <2>2, PiecesAre
  <2>4. name = Cat(PrefixOf(Pattern(o)), t) /\ t \in Texts
    BY <1>3, <2>1 DEF NamedBy, NamesFor, Cat
  <2> QED
    BY <2>3, <2>4, Cats
<1> QED
  BY <1>2, <1>3

\* Where a prefix occurs at the front or not at all, to trim it off the front is
\* to take its first occurrence out.
LEMMA CutAtFront ==
    ASSUME NEW name \in Texts, NEW p \in Texts, Occurs(name, p) => IsPrefix(p, name)
    PROVE  TrimPrefix(name, p) = RemoveFirstText(name, p)
<1>1. CASE ~IsPrefix(p, name)
  BY <1>1 DEF TrimPrefix, RemoveFirstText
<1>2. CASE IsPrefix(p, name)
  <2>1. PICK n \in Nat, m \in Nat : n = Len(name) /\ m = Len(p)
    BY ElementOf DEF Texts
  <2>2. m <= n /\ SubSeq(p, 1, m) = SubSeq(name, 1, m)
    BY <1>2, <2>1 DEF IsPrefix
  <2>3. PICK t : t = SubSeq(name, m + 1, n)
    OBVIOUS
  <2>4. t \in Texts /\ name = Cat(SubSeq(name, 1, m), t)
    <3>1. 1 \in 1 .. n + 1 /\ m \in 1 - 1 .. n /\ n \in m .. n /\ m + 1 \in Nat \ {0}
      BY <2>2
    <3>2. SubSeq(name, 1, m) \o SubSeq(name, m + 1, n) = SubSeq(name, 1, n)
      BY <2>1, <3>1, ConcatAdjacentSubSeq DEF Texts
    <3>3. SubSeq(name, 1, n) = name
      BY <2>1, SubSeqFull DEF Texts
    <3>4. t \in Texts
      BY <2>1, <2>3, <3>1, TextsCut
    <3> QED
      BY <2>3, <3>2, <3>3, <3>4 DEF Cat
  <2>5. SubSeq(p, 1, m) = p
    BY <2>1, SubSeqFull DEF Texts
  <2>6. name = p \o t
    BY <2>2, <2>4, <2>5 DEF Cat
  <2>7. TrimPrefix(p \o t, p) = t
    BY <2>4, TrimAddedPrefix DEF Texts
  <2>8. RemoveFirstText(p \o t, p) = t
    BY <2>4, FirstTextRemoved
  <2> QED
    BY <2>6, <2>7, <2>8
<1> QED
  BY <1>1, <1>2

\* Every client takes the same values out of a name, but for TypeScript where
\* it cuts inside.
LEMMA OneValue ==
    ASSUME NEW client, NEW o \in Ops, ~Operations[o].serverStream, NEW s, s = Len(Stars(Pattern(o))), ~(s > 2),
           NEW name \in Texts, NEW j \in 1 .. s,
           s = 1 /\ client = "ts" /\ Occurs(name, PrefixOf(Pattern(o))) => IsPrefix(PrefixOf(Pattern(o)), name)
    PROVE  ValueOf(client, o, name, j) = ValueOf("go", o, name, j)
<1>1. PICK pat : pat = Pattern(o)
  OBVIOUS
<1>2. Starry(pat)
  BY <1>1, OwnPath
<1>3. PICK m : m = s - 1
  OBVIOUS
<1>4. m \in Nat /\ s = m + 1 /\ PrefixOf(pat) \in Texts
  BY <1>1, <1>2, <1>3, PiecesAre
<1>5. PICK p \in Texts : p = PrefixOf(pat)
  BY <1>4
<1>6. s = 1 /\ client = "ts" => TrimPrefix(name, p) = RemoveFirstText(name, p)
  BY <1>1, <1>5, CutAtFront
<1>7. ExtractedAs(client, pat, s, name, j) /\ ExtractedAs("go", pat, s, name, j)
  BY <1>1, <1>2, ExtractIs
<1>8. Extract(client, pat, name, j) = Extract("go", pat, name, j)
  <2>1. CASE s = 1
    BY <1>5, <1>6, <1>7, <2>1, Zenon DEF ExtractedAs
  <2>2. CASE s > 1
    BY <1>7, <2>2, Zenon DEF ExtractedAs
  <2>3. s = 1 \/ s > 1
    BY <1>4
  <2> QED
    BY <2>1, <2>2, <2>3
<1>9. \A c : ValueOf(c, o, name, j) = Extract(c, pat, name, j)
  BY <1>1, Zenon DEF ValueOf
<1> QED
  BY <1>8, <1>9

\* A concatenation by the lengths of its two parts.
PartsAre(z, s, t, n, m) ==
    /\ Len(z) = n + m /\ DOMAIN z = 1 .. n + m
    /\ \A k \in 1 .. n : z[k] = s[k]
    /\ \A k \in 1 .. m : z[n + k] = t[k]
LEMMA TwoParts ==
    ASSUME NEW S, NEW s \in Seq(S), NEW t \in Seq(S), NEW n, n = Len(s), NEW m, m = Len(t)
    PROVE  s \o t \in Seq(S) /\ PartsAre(s \o t, s, t, n, m)
<1> DEFINE z == s \o t
<1>1. z \in Seq(S) /\ Len(z) = n + m
  BY Concatenated
<1>2. /\ \A k \in 1 .. n : z[k] = s[k]
      /\ \A k \in 1 .. m : z[n + k] = t[k]
  BY JoinedAt
<1>3. DOMAIN z = 1 .. n + m
  BY <1>1
<1> HIDE DEF z
<1>4. z \in Seq(S) /\ PartsAre(z, s, t, n, m)
  BY <1>1, <1>2, <1>3 DEF PartsAre
<1> QED
  BY <1>4 DEF z

\* Two texts the server reads as one, cut at the same places.
SameRead(a, b) ==
    /\ a \in Texts /\ b \in Texts /\ Len(a) = Len(b)
    /\ \A k \in 1 .. Len(a) : (a[k] = "/" <=> b[k] = "/") /\ UnescapeToken(a[k]) = UnescapeToken(b[k])

\* So are the escaped forms of a value in two languages.
LEMMA EscapedAlike ==
    ASSUME NEW c, NEW d, NEW v \in Texts, NEW multi \in BOOLEAN
    PROVE  SameRead(escapePathVar(c, v, multi), escapePathVar(d, v, multi))
<1>1. PICK n \in Nat : n = Len(v) /\ DOMAIN v = 1 .. n
  BY ElementOf DEF Texts
<1>2. \A k \in 1 .. n : v[k] \in Tokens
  BY <1>1, ElementOf DEF Texts
<1>3. PICK a, b : a = escapePathVar(c, v, multi) /\ b = escapePathVar(d, v, multi)
  OBVIOUS
<1>4. a \in Texts /\ b \in Texts /\ Len(a) = n /\ Len(b) = n
  <2>1. \A e : e \in {c, d} => escapePathVar(e, v, multi) \in Texts /\ Len(escapePathVar(e, v, multi)) = Len(v)
    <3> SUFFICES ASSUME NEW e PROVE escapePathVar(e, v, multi) \in Texts /\ Len(escapePathVar(e, v, multi)) = Len(v)
      OBVIOUS
    <3>1. PICK x : x = escapePathVar(e, v, multi)
      OBVIOUS
    <3>2. x \in Texts /\ Len(x) = Len(v)
      BY <3>1, EscapedIs
    <3> QED
      BY <3>1, <3>2
  <2> QED
    BY <1>1, <1>3, <2>1
<1>5. ASSUME NEW k \in 1 .. n
      PROVE  (a[k] = "/" <=> b[k] = "/") /\ UnescapeToken(a[k]) = UnescapeToken(b[k])
  <2>1. /\ a[k] = IF multi /\ v[k] = "/" THEN "/" ELSE EscapeToken(c, v[k])
        /\ b[k] = IF multi /\ v[k] = "/" THEN "/" ELSE EscapeToken(d, v[k])
    BY <1>1, <1>3 DEF escapePathVar
  <2>2. EscapeToken(c, v[k]) # "/" /\ EscapeToken(d, v[k]) # "/"
    BY <1>2, TokensEscaped
  <2>3. UnescapeToken(EscapeToken(c, v[k])) = UnescapeToken(EscapeToken(d, v[k]))
    BY TokenRoundTrip
  <2> QED
    BY <2>1, <2>2, <2>3
<1> QED
  BY <1>3, <1>4, <1>5 DEF SameRead

\* Text behind both does not tell them apart.
LEMMA AlikeBefore ==
    ASSUME NEW a, NEW b, SameRead(a, b), NEW v \in Texts
    PROVE  SameRead(a \o v, b \o v)
<1>1. /\ a \in Seq(Tokens) /\ b \in Seq(Tokens) /\ v \in Seq(Tokens)
      /\ Len(a) \in Nat /\ Len(v) \in Nat /\ Len(a) = Len(b)
  BY ElementOf DEF SameRead, Texts
<1>2. PICK n \in Nat, m \in Nat : n = Len(a) /\ m = Len(v)
  BY <1>1
<1>3. PICK x, y : x = a \o v /\ y = b \o v
  OBVIOUS
<1>4. /\ x \in Texts /\ y \in Texts /\ Len(x) = n + m /\ Len(y) = n + m
      /\ \A k \in 1 .. n : x[k] = a[k] /\ y[k] = b[k]
      /\ \A k \in 1 .. m : x[n + k] = v[k] /\ y[n + k] = v[k]
  <2>1. a \o v \in Seq(Tokens) /\ PartsAre(a \o v, a, v, n, m)
    BY <1>1, <1>2, TwoParts, Zenon
  <2>2. n = Len(b)
    BY <1>1, <1>2
  <2>3. b \o v \in Seq(Tokens) /\ PartsAre(b \o v, b, v, n, m)
    BY <1>1, <1>2, <2>2, TwoParts, Zenon
  <2>4. /\ x \in Seq(Tokens) /\ PartsAre(x, a, v, n, m)
        /\ y \in Seq(Tokens) /\ PartsAre(y, b, v, n, m)
    BY <1>3, <2>1, <2>3
  <2> QED
    BY <2>4 DEF PartsAre, Texts
<1>5. ASSUME NEW k \in 1 .. n + m
      PROVE  (x[k] = "/" <=> y[k] = "/") /\ UnescapeToken(x[k]) = UnescapeToken(y[k])
  <2>1. CASE k \in 1 .. n
    BY <1>2, <1>4, <2>1 DEF SameRead
  <2>2. CASE k \notin 1 .. n
    <3>1. PICK i \in 1 .. m : k = n + i
      <4>1. k - n \in 1 .. m /\ k = n + (k - n)
        BY <2>2
      <4> QED
        BY <4>1
    <3> QED
      BY <1>4, <3>1
  <2> QED
    BY <2>1, <2>2
<1> QED
  BY <1>3, <1>4, <1>5 DEF SameRead

\* They unescape to one text.
LEMMA AlikeRead ==
    ASSUME NEW a, NEW b, SameRead(a, b)
    PROVE  Unescape(a) = Unescape(b)
<1>1. DOMAIN a = 1 .. Len(a) /\ DOMAIN b = 1 .. Len(a)
  BY DEF SameRead, Texts
<1>2. \A k \in 1 .. Len(a) : UnescapeToken(a[k]) = UnescapeToken(b[k])
  BY DEF SameRead
<1> QED
  BY <1>1, <1>2, Zenon DEF Unescape

\* Segment by segment too.
LEMMA AlikeSegments ==
    ASSUME NEW a, NEW b, SameRead(a, b)
    PROVE  /\ Segments(a) \in Seq(Texts) /\ Segments(b) \in Seq(Texts) /\ Len(Segments(a)) = Len(Segments(b))
           /\ \A j \in 1 .. Len(Segments(a)) : Unescape(Segments(a)[j]) = Unescape(Segments(b)[j])
<1>1. PICK l \in Nat : l = Len(a) /\ l = Len(b)
  BY ElementOf DEF SameRead, Texts
<1>2. DOMAIN a = 1 .. l /\ DOMAIN b = 1 .. l /\ a \in Texts /\ b \in Texts
  BY <1>1 DEF SameRead, Texts
<1>3. \A k \in 1 .. l : (a[k] = "/" <=> b[k] = "/") /\ UnescapeToken(a[k]) = UnescapeToken(b[k])
  BY <1>1 DEF SameRead
<1>4. Inner(a) = Inner(b)
  <2>1. \A k : k \in Inner(a) <=> k \in Inner(b)
    BY <1>2, <1>3 DEF Inner
  <2> QED
    BY <2>1
<1>5. PICK n : n = Len(Ascending(Inner(a)))
  OBVIOUS
<1>6. /\ n \in Nat \ {0}
      /\ Segments(a) = [j \in 1 .. n |-> SubSeq(a, CutAt(a, j) + 1, CutAt(a, j + 1) - 1)]
      /\ \A j \in 1 .. n : CutAt(a, j) \in 0 .. Len(a) /\ CutAt(a, j + 1) \in 1 .. Len(a) + 1
      /\ Segments(a) \in Seq(Texts) /\ Len(Segments(a)) = n
  BY <1>2, <1>5, SegmentsAre
<1>7. /\ Segments(b) = [j \in 1 .. n |-> SubSeq(b, CutAt(b, j) + 1, CutAt(b, j + 1) - 1)]
      /\ Segments(b) \in Seq(Texts) /\ Len(Segments(b)) = n
  BY <1>2, <1>4, <1>5, SegmentsAre
<1>8. \A j : CutAt(a, j) = CutAt(b, j)
  BY <1>1, <1>4 DEF CutAt
<1>9. ASSUME NEW i \in Nat \ {0}, NEW k \in Int, k <= l
      PROVE  Unescape(SubSeq(a, i, k)) = Unescape(SubSeq(b, i, k))
  <2>1. /\ SubSeq(a, i, k) = [h \in 1 .. k - i + 1 |-> a[i + h - 1]]
        /\ SubSeq(b, i, k) = [h \in 1 .. k - i + 1 |-> b[i + h - 1]]
    OBVIOUS
  <2>2. \A h \in 1 .. k - i + 1 : UnescapeToken(a[i + h - 1]) = UnescapeToken(b[i + h - 1])
    <3> SUFFICES ASSUME NEW h \in 1 .. k - i + 1
                 PROVE  UnescapeToken(a[i + h - 1]) = UnescapeToken(b[i + h - 1])
      OBVIOUS
    <3>1. i + h - 1 \in 1 .. l
      BY <1>9
    <3> QED
      BY <1>3, <3>1
  <2> QED
    BY <2>1, <2>2 DEF Unescape
<1>10. ASSUME NEW j \in 1 .. n PROVE Unescape(Segments(a)[j]) = Unescape(Segments(b)[j])
  <2>1. PICK i \in Nat \ {0}, k \in Int : i = CutAt(a, j) + 1 /\ k = CutAt(a, j + 1) - 1 /\ k <= l
    <3>1. PICK x, y : x = CutAt(a, j) /\ y = CutAt(a, j + 1)
      OBVIOUS
    <3>2. x \in 0 .. l /\ y \in 1 .. l + 1
      BY <1>1, <1>6, <3>1
    <3>3. x + 1 \in Nat \ {0} /\ y - 1 \in Int /\ y - 1 <= l
      BY <3>2
    <3> QED
      BY <3>1, <3>3
  <2>2. Segments(a)[j] = SubSeq(a, i, k) /\ Segments(b)[j] = SubSeq(b, i, k)
    BY <1>6, <1>7, <1>8, <2>1
  <2> QED
    BY <1>9, <2>1, <2>2
<1> QED
  BY <1>6, <1>7, <1>10

\* With one path and one value per wildcard the server reads the same.
LEMMA OneReading ==
    ASSUME NoVerbAfterRest, NEW client, NEW o \in Ops, ~Operations[o].serverStream, ~Unsplit(o), NEW name \in Texts,
           Len(Stars(Pattern(o))) = 1 /\ client = "ts" /\ Occurs(name, PrefixOf(Pattern(o)))
             => IsPrefix(PrefixOf(Pattern(o)), name)
    PROVE  Received(Url(client, o, name)) = Received(Url("go", o, name))
<1>1. PICK s : s = Len(Stars(Pattern(o)))
  OBVIOUS
<1>2. ~(s > 2)
  BY <1>1 DEF Unsplit
<1>3. PICK path : path = Path(o)
  OBVIOUS
<1>4. ClientPath(client, o) = path /\ ClientPath("go", o) = path
  BY <1>3, OnePath
<1>5. PathIs(path, s)
  BY <1>1, <1>3, OwnPath
<1>6. /\ path \in Seq(SegSet) /\ Len(path) \in Nat \ {0}
      /\ Cardinality(Wildcards(path)) = s /\ s \in Nat \ {0}
      /\ \A k \in 1 .. Len(path) : \/ path[k].kind = "var"
                                   \/ path[k].kind = "rest" /\ k = Len(path)
                                   \/ \E w \in Tokens : Word(w) /\ path[k] = Lit(w)
  BY <1>5 DEF PathIs
<1>7. Below(Wildcards(path), Len(path))
  BY <1>6, WildcardsBelow
<1>8. PICK V : V = ValuesOf(client, o, name) /\ V \in [1 .. s -> Texts]
  BY <1>1, ValuesAreTexts
<1>9. V = ValuesOf("go", o, name)
  <2>1. \A j \in 1 .. s : ValueOf(client, o, name, j) = ValueOf("go", o, name, j)
    BY <1>1, <1>2, OneValue
  <2> QED
    BY <1>1, <1>8, <2>1, Zenon DEF ValuesOf
<1>10. PICK verb \in Texts : verb = Verb(o)
  BY VerbIs
<1>11. PICK p, q : p = Segments(Url(client, o, name)) /\ q = Segments(Url("go", o, name))
  OBVIOUS
<1>12. PICK f, x, multi : /\ Carries(client, p, path, V, verb, f, x, multi)
                          /\ multi <=> path[Len(path)].kind = "rest"
  BY <1>1, <1>3, <1>4, <1>8, <1>10, <1>11, UrlSegments
<1>13. PICK g, y, multj : /\ Carries("go", q, path, V, verb, g, y, multj)
                          /\ multj <=> path[Len(path)].kind = "rest"
  BY <1>1, <1>3, <1>4, <1>8, <1>9, <1>10, <1>11, UrlSegments
<1>14. multi \in BOOLEAN /\ multj = multi
  <2>1. multi \in BOOLEAN /\ multj \in BOOLEAN
    BY <1>12, <1>13 DEF Carries
  <2> QED
    BY <1>12, <1>13, <2>1
<1>15. PICK n \in Nat : n = Len(path) - 1
  BY <1>6
<1>16. /\ f \in Seq(Texts) /\ Len(f) = n /\ x \in Texts /\ p = f \o Segments(x \o verb)
       /\ \A k \in 1 .. n : f[k] = IF path[k].kind = "lit" THEN path[k].text
                                   ELSE escapePathVar(client, V[NthOf(Wildcards(path), k)], FALSE)
       /\ x = IF path[Len(path)].kind = "lit" THEN path[Len(path)].text ELSE escapePathVar(client, V[s], multi)
  BY <1>6, <1>12, <1>15 DEF Carries
<1>17. /\ g \in Seq(Texts) /\ Len(g) = n /\ y \in Texts /\ q = g \o Segments(y \o verb)
       /\ \A k \in 1 .. n : g[k] = IF path[k].kind = "lit" THEN path[k].text
                                   ELSE escapePathVar("go", V[NthOf(Wildcards(path), k)], FALSE)
       /\ y = IF path[Len(path)].kind = "lit" THEN path[Len(path)].text ELSE escapePathVar("go", V[s], multi)
  BY <1>6, <1>13, <1>14, <1>15 DEF Carries
<1>18. ASSUME NEW k \in 1 .. n PROVE Unescape(f[k]) = Unescape(g[k])
  <2>1. CASE path[k].kind = "lit"
    BY <1>16, <1>17, <2>1
  <2>2. CASE path[k].kind # "lit"
    <3>1. k \in 1 .. Len(path) /\ path[k].kind \in {"var", "rest"}
      <4>1. k \in 1 .. Len(path)
        BY <1>6, <1>15
      <4> QED
        BY <1>6, <2>2, <4>1, LitIs
    <3>2. k \in Wildcards(path)
      BY <1>6, <3>1 DEF Wildcards
    <3>3. PICK j \in 1 .. s : j = NthOf(Wildcards(path), k)
      BY <1>6, <1>7, <3>2, RanksOnce
    <3>4. PICK v \in Texts : v = V[j]
      BY <1>8
    <3>5. f[k] = escapePathVar(client, v, FALSE) /\ g[k] = escapePathVar("go", v, FALSE)
      BY <1>16, <1>17, <2>2, <3>3, <3>4
    <3>6. SameRead(escapePathVar(client, v, FALSE), escapePathVar("go", v, FALSE))
      BY EscapedAlike
    <3> QED
      BY <3>5, <3>6, AlikeRead
  <2> QED
    BY <2>1, <2>2
<1>19. SameRead(x, y)
  <2>1. CASE path[Len(path)].kind = "lit"
    <3>1. x = y
      BY <1>16, <1>17, <2>1
    <3> QED
      BY <1>16, <3>1 DEF SameRead
  <2>2. CASE path[Len(path)].kind # "lit"
    <3>1. PICK v \in Texts : v = V[s]
      BY <1>6, <1>8
    <3>2. x = escapePathVar(client, v, multi) /\ y = escapePathVar("go", v, multi)
      BY <1>16, <1>17, <2>2, <3>1
    <3> QED
      BY <1>14, <3>2, EscapedAlike
  <2> QED
    BY <2>1, <2>2
<1>20. SameRead(x \o verb, y \o verb)
  BY <1>19, AlikeBefore
<1>21. PICK a, b : a = Segments(x \o verb) /\ b = Segments(y \o verb)
  OBVIOUS
<1>22. /\ a \in Seq(Texts) /\ b \in Seq(Texts) /\ Len(a) = Len(b)
       /\ \A j \in 1 .. Len(a) : Unescape(a[j]) = Unescape(b[j])
  BY <1>20, <1>21, AlikeSegments
<1>23. PICK m \in Nat : m = Len(a)
  BY <1>22
<1>24. /\ p \in Seq(Texts) /\ Len(p) = n + m /\ DOMAIN p = 1 .. n + m
       /\ \A k \in 1 .. n : p[k] = f[k]
       /\ \A k \in 1 .. m : p[n + k] = a[k]
  <2>1. p = f \o a /\ n = Len(f)
    BY <1>16, <1>21
  <2>2. f \o a \in Seq(Texts) /\ PartsAre(f \o a, f, a, n, m)
    BY <1>16, <1>22, <1>23, <2>1, TwoParts, Zenon
  <2>3. p \in Seq(Texts) /\ PartsAre(p, f, a, n, m)
    BY <2>1, <2>2
  <2> QED
    BY <2>3 DEF PartsAre
<1>25. /\ q \in Seq(Texts) /\ Len(q) = n + m /\ DOMAIN q = 1 .. n + m
       /\ \A k \in 1 .. n : q[k] = g[k]
       /\ \A k \in 1 .. m : q[n + k] = b[k]
  <2>1. q = g \o b /\ n = Len(g) /\ m = Len(b)
    BY <1>17, <1>21, <1>22, <1>23
  <2>2. g \o b \in Seq(Texts) /\ PartsAre(g \o b, g, b, n, m)
    BY <1>17, <1>22, <2>1, TwoParts, Zenon
  <2>3. q \in Seq(Texts) /\ PartsAre(q, g, b, n, m)
    BY <2>1, <2>2
  <2> QED
    BY <2>3 DEF PartsAre
<1>26. ASSUME NEW k \in 1 .. n + m PROVE Unescape(p[k]) = Unescape(q[k])
  <2>1. CASE k \in 1 .. n
    BY <1>18, <1>24, <1>25, <2>1
  <2>2. CASE k \notin 1 .. n
    <3>1. PICK i \in 1 .. m : k = n + i
      <4>1. k - n \in 1 .. m /\ k = n + (k - n)
        BY <2>2
      <4> QED
        BY <4>1
    <3> QED
      BY <1>22, <1>23, <1>24, <1>25, <3>1
  <2> QED
    BY <2>1, <2>2
<1>27. [k \in DOMAIN p |-> Unescape(p[k])] = [k \in DOMAIN q |-> Unescape(q[k])]
  BY <1>24, <1>25, <1>26, Zenon
<1> QED
  BY <1>11, <1>27, Zenon DEF Received

\* Of a unary call with at most two wildcards the server reads the same in every
\* language, whatever its IDs and whatever name that is not of the pattern the
\* caller passes, but for a name TypeScript cuts inside; if no custom verb
\* follows a rest-of-path wildcard (ClientsAgree; the path expressions of the
\* three generators and the escaping of their clients).
THEOREM ClientsWriteAlike ==
    ASSUME NoVerbAfterRest
    PROVE  Spec => []ClientsAgree
<1>1. PathVarsInv => ClientsAgree
  <2> SUFFICES ASSUME PathVarsInv, step = "sent", ~Operations[call.op].serverStream, ~Unsplit(call.op),
                      ~CutInside(call)
               PROVE  Received(url) = Received(Url("go", call.op, call.name))
    BY DEF ClientsAgree
  <2>1. /\ call.op \in Ops /\ call.ids \in IdsFor(call.op)
        /\ call.name \in NamesFor(call.op, call.ids)
        /\ url = Url(call.client, call.op, call.name)
    BY DEF PathVarsInv, Sent
  <2>2. call.name \in Texts
    BY <2>1, NameIsText
  <2>3. Len(Stars(Pattern(call.op))) = 1 /\ call.client = "ts" /\ Occurs(call.name, PrefixOf(Pattern(call.op)))
          => IsPrefix(PrefixOf(Pattern(call.op)), call.name)
    BY DEF CutInside
  <2> QED
    BY <2>1, <2>2, <2>3, OneReading
<1> QED
  BY <1>1, PathVarsInductive, PTL

-----------------------------------------------------------------------------
\* The route a call takes.

\* Of two paths only one is the more specific.
LEMMA OneMoreSpecific ==
    ASSUME NEW p \in Seq(SegSet), NEW q \in Seq(SegSet), MoreSpecific(p, q)
    PROVE  ~MoreSpecific(q, p)
<1>1. Len(p) \in Nat /\ Len(q) \in Nat
  OBVIOUS
<1>2. Longer(q, p) = Longer(p, q)
  BY <1>1 DEF Longer
<1>3. PICK k \in Longer(p, q) : Width(At(p, k)) < Width(At(q, k))
  BY DEF MoreSpecific
<1>4. Width(At(p, k)) \in Int /\ Width(At(q, k)) \in Int
  BY DEF Width
<1>5. ~(Width(At(q, k)) <= Width(At(p, k)))
  BY <1>3, <1>4
<1> QED
  BY <1>2, <1>3, <1>5 DEF MoreSpecific

\* Operations of one group share all that the server makes of it.
LEMMA OneGroup ==
    ASSUME NEW o \in Ops, NEW p \in Group(o)
    PROVE  /\ p \in Ops /\ o \in Group(p) /\ o \in Group(o) /\ Group(p) = Group(o)
           /\ Base(p) = Base(o) /\ Verbs(p) = Verbs(o)
           /\ Operations[p].http = Operations[o].http
           /\ Normalize(Path(p)) = Normalize(Path(o))
<1>1. p \in Ops /\ Key(p) = Key(o)
  BY DEF Group
<1>2. Group(p) = Group(o) /\ o \in Group(p) /\ o \in Group(o)
  BY <1>1 DEF Group
<1>3. Operations[p].http = Operations[o].http /\ Normalize(Path(p)) = Normalize(Path(o))
  BY <1>1 DEF Key
<1> QED
  BY <1>1, <1>2, <1>3 DEF Base, Verbs

\* The slot that matched is of the group of any operation that matches best.
LEMMA HomeSlot ==
    ASSUME NEW o \in Ops, NEW http, NEW segs, NEW p, p \in Best(http, segs), o \in Best(http, segs)
    PROVE  p \in Group(o)
<1>1. p \in Ops /\ p \in MatchedBy(http, segs) /\ o \in MatchedBy(http, segs)
  BY DEF Best, MatchedBy
<1>2. SUFFICES ASSUME p \notin Group(o) PROVE FALSE
  OBVIOUS
<1>3. o \notin Group(p)
  BY <1>1, <1>2 DEF Group
<1>4. MoreSpecific(Path(o), Path(p)) /\ MoreSpecific(Path(p), Path(o))
  BY <1>1, <1>2, <1>3 DEF Best
<1>5. PathIs(Path(o), Len(Stars(Pattern(o)))) /\ PathIs(Path(p), Len(Stars(Pattern(p))))
  BY <1>1, OwnPath
<1>6. Path(o) \in Seq(SegSet) /\ Path(p) \in Seq(SegSet)
  BY <1>5 DEF PathIs
<1> QED
  BY <1>4, <1>6, OneMoreSpecific

\* Two paths that match one URL are not disjoint.
LEMMA MatchedBoth ==
    ASSUME NEW p, NEW s, PathIs(p, s), NEW q, NEW t, PathIs(q, t), NEW segs, Len(segs) \in Nat,
           Matches(p, segs), Matches(q, segs)
    PROVE  ~Disjoint(p, q)
<1>1. ASSUME NEW x, NEW u, PathIs(x, u), Matches(x, segs), NEW k \in Nat \ {0}, k <= Len(segs)
      PROVE  /\ At(x, k).kind # "end"
             /\ At(x, k).kind = "lit" => k \in DOMAIN x /\ At(x, k) = x[k] /\ Unescape(segs[k]) = x[k].text
                                          /\ \E w : x[k] = Lit(w)
  <2>1. /\ x \in Seq(SegSet) /\ Len(x) \in Nat \ {0} /\ DOMAIN x = 1 .. Len(x)
        /\ \A h \in 1 .. Len(x) : \/ x[h].kind = "var"
                                  \/ x[h].kind = "rest" /\ h = Len(x)
                                  \/ \E w \in Tokens : Word(w) /\ x[h] = Lit(w)
    BY <1>1 DEF PathIs
  <2>2. /\ IF x[Len(x)].kind = "rest" THEN Len(segs) >= Len(x) ELSE Len(segs) = Len(x)
        /\ \A h \in DOMAIN x : x[h].kind = "lit" => Unescape(segs[h]) = x[h].text
    BY <1>1 DEF Matches
  <2>3. CASE k <= Len(x)
    <3>1. k \in 1 .. Len(x) /\ At(x, k) = x[k]
      <4>1. k \in 1 .. Len(x)
        <5>1. PICK l \in Nat : l = Len(x)
          BY <2>1
        <5> QED
          BY <1>1, <2>3, <5>1
      <4> QED
        BY <2>3, <4>1 DEF At
    <3>2. x[k].kind = "var" \/ x[k].kind = "rest" \/ \E w : x[k] = Lit(w)
      BY <2>1, <3>1
    <3>3. x[k].kind # "end"
      BY <3>2, LitIs
    <3>4. x[k].kind = "lit" => \E w : x[k] = Lit(w)
      BY <3>2
    <3> QED
      BY <2>1, <2>2, <3>1, <3>3, <3>4
  <2>4. CASE ~(k <= Len(x))
    <3>1. x[Len(x)].kind = "rest"
      BY <1>1, <2>1, <2>2, <2>4
    <3>2. At(x, k) = x[Len(x)]
      BY <2>4, <3>1 DEF At
    <3> QED
      BY <3>1, <3>2
  <2> QED
    BY <2>3, <2>4
<1>2. Len(p) \in Nat \ {0} /\ Len(q) \in Nat \ {0} /\ Len(segs) >= Len(p) /\ Len(segs) >= Len(q)
  <2>1. Len(p) \in Nat \ {0} /\ Len(q) \in Nat \ {0}
    BY DEF PathIs
  <2> QED
    BY <2>1 DEF Matches
<1>3. SUFFICES ASSUME NEW k \in Longer(p, q),
                      \/ At(p, k).kind = "end" \/ At(q, k).kind = "end"
                      \/ At(p, k).kind = "lit" /\ At(q, k).kind = "lit" /\ At(p, k) # At(q, k)
               PROVE  FALSE
  BY DEF Disjoint
<1>4. k \in Nat \ {0} /\ k <= Len(segs)
  BY <1>2 DEF Longer
<1>5. At(p, k).kind # "end" /\ At(q, k).kind # "end"
  BY <1>1, <1>4
<1>6. At(p, k).kind = "lit" /\ At(q, k).kind = "lit" /\ At(p, k) # At(q, k)
  BY <1>3, <1>5
<1>7. /\ At(p, k) = p[k] /\ Unescape(segs[k]) = p[k].text /\ \E w : p[k] = Lit(w)
      /\ At(q, k) = q[k] /\ Unescape(segs[k]) = q[k].text /\ \E w : q[k] = Lit(w)
  BY <1>1, <1>4, <1>6
<1>8. PICK v, w : p[k] = Lit(v) /\ q[k] = Lit(w)
  BY <1>7
<1>9. <<v>> = <<w>>
  BY <1>7, <1>8, LitIs
<1>10. v = w
  BY <1>9
<1> QED
  BY <1>6, <1>7, <1>8, <1>10

\* What a call sends, in segments.
SentAs(client, o, name, segs, s, V) ==
    /\ s = Len(Stars(Pattern(o))) /\ PathIs(Path(o), s)
    /\ V \in [1 .. s -> Texts] /\ V = ValuesOf(client, o, name)
    /\ Verb(o) \in Texts /\ (Verb(o) = <<>> \/ VerbText(Verb(o)))
    /\ segs \in Seq(Texts) /\ Len(segs) \in Nat /\ Len(segs) >= Len(Path(o))
    /\ \E fr, last, multi : Carries(client, segs, Path(o), V, Verb(o), fr, last, multi)

\* A call of any name sends such segments.
LEMMA SegmentsSent ==
    ASSUME NEW client, NEW o \in Ops, NEW ids \in IdsFor(o), NEW name \in NamesFor(o, ids),
           NEW segs, segs = Segments(Url(client, o, name))
    PROVE  \E s, V : SentAs(client, o, name, segs, s, V)
<1>1. PICK s : s = Len(Stars(Pattern(o)))
  OBVIOUS
<1>2. name \in Texts
  BY NameIsText
<1>3. PICK V : V = ValuesOf(client, o, name)
  OBVIOUS
<1>4. V \in [1 .. s -> Texts]
  BY <1>1, <1>2, <1>3, ValuesAreTexts
<1>5. PathIs(Path(o), s)
  BY <1>1, OwnPath
<1>6. Verb(o) \in Texts /\ (Verb(o) = <<>> \/ VerbText(Verb(o)))
  BY VerbIs
<1>7. PICK fr, last, multi : Carries(client, segs, Path(o), V, Verb(o), fr, last, multi)
  BY <1>1, <1>3, <1>4, UrlSegments
<1>8. Len(Path(o)) \in Nat \ {0}
  BY <1>5 DEF PathIs
<1>9. Spread(segs, Path(o), Verb(o), fr, last)
  BY <1>6, <1>7, <1>8, SpreadIs
<1>10. segs \in Seq(Texts) /\ Len(segs) \in Nat /\ Len(segs) >= Len(Path(o))
  BY <1>9 DEF Spread
<1> QED
  BY <1>1, <1>3, <1>4, <1>5, <1>6, <1>7, <1>10, Zenon DEF SentAs

\* Where no URL fits two paths, each call is routed home.
THEOREM ApartIsHome == PathsApart => RoutedHome
<1> SUFFICES ASSUME PathsApart, NEW o \in Ops, NEW client \in Clients, NEW ids \in IdsFor(o),
                    NEW name \in NamesFor(o, ids),
                    NEW segs, segs = Segments(Url(client, o, name)), Matches(Path(o), segs)
             PROVE  o \in Best(Operations[o].http, segs)
  BY DEF RoutedHome
<1>1. PICK s, V : SentAs(client, o, name, segs, s, V)
  BY SegmentsSent
<1>2. PathIs(Path(o), s) /\ Len(segs) \in Nat
  BY <1>1 DEF SentAs
<1>3. o \in MatchedBy(Operations[o].http, segs)
  BY DEF MatchedBy
<1>4. ASSUME NEW p \in MatchedBy(Operations[o].http, segs) \ Group(o) PROVE FALSE
  <2>1. p \in Ops /\ Operations[p].http = Operations[o].http /\ Matches(Path(p), segs) /\ p \notin Group(o)
    BY DEF MatchedBy
  <2>2. Disjoint(Path(o), Path(p))
    BY <2>1 DEF PathsApart
  <2>3. PICK t : t = Len(Stars(Pattern(p)))
    OBVIOUS
  <2>4. PathIs(Path(p), t)
    BY <2>1, <2>3, OwnPath
  <2> QED
    BY <1>2, <2>1, <2>2, <2>4, MatchedBoth
<1> QED
  BY <1>3, <1>4 DEF Best

\* The last value captured of a URL that ends in a verb ends in it.
LEMMA VerbCaptured ==
    ASSUME NEW p \in Ops, NEW s, s = Len(Stars(Pattern(p))), NEW segs \in Seq(Texts), Matches(Path(p), segs),
           NEW verb, VerbText(verb), NEW e \in Texts, segs[Len(segs)] = e \o verb
    PROVE  IsSuffix(verb, Captured(Path(p), segs)[s])
<1>1. PICK path : path = Path(p)
  OBVIOUS
<1>2. /\ PathIs(path, s)
      /\ \A k \in 1 .. Len(path) : path[k].kind = "lit" => \E v \in LiteralsOf(Operations[p]) : path[k].text = <<v>>
  BY <1>1, OwnPath
<1>3. /\ path \in Seq(SegSet) /\ Len(path) \in Nat \ {0} /\ DOMAIN path = 1 .. Len(path) /\ s \in Nat \ {0}
      /\ \A k \in 1 .. Len(path) : \/ path[k].kind = "var"
                                   \/ path[k].kind = "rest" /\ k = Len(path)
                                   \/ \E v \in Tokens : Word(v) /\ path[k] = Lit(v)
  BY <1>2 DEF PathIs
<1>4. PICK n \in Nat \ {0} : n = Len(path)
  BY <1>3
<1>5. PICK N \in Nat : N = Len(segs)
  OBVIOUS
<1>6. /\ IF path[n].kind = "rest" THEN N >= n ELSE N = n
      /\ path[n].kind = "lit" => Unescape(segs[n]) = path[n].text
  <2>1. n \in DOMAIN path
    <3>1. n \in 1 .. n
      OBVIOUS
    <3> QED
      BY <1>3, <1>4, <3>1, Zenon
  <2> QED
    BY <1>1, <1>4, <1>5, <2>1 DEF Matches
<1>7. N >= n /\ N \in 1 .. N
  BY <1>6
<1>8. \A y \in Texts : Unescape(y) \in Texts
  <2> SUFFICES ASSUME NEW y \in Texts PROVE Unescape(y) \in Texts
    OBVIOUS
  <2>1. y \in Seq(Tokens) /\ DOMAIN y = 1 .. Len(y) /\ Len(y) \in Nat
    BY DEF Texts
  <2>2. \A k \in 1 .. Len(y) : UnescapeToken(y[k]) \in Tokens
    <3> SUFFICES ASSUME NEW k \in 1 .. Len(y) PROVE UnescapeToken(y[k]) \in Tokens
      OBVIOUS
    <3>1. PICK x \in Tokens : x = y[k]
      BY <2>1, ElementOf
    <3>2. UnescapeToken(x) \in Tokens
      BY TokensEscaped, Zenon
    <3> QED
      BY <3>1, <3>2
  <2>3. Unescape(y) = [k \in 1 .. Len(y) |-> UnescapeToken(y[k])]
    BY <2>1 DEF Unescape
  <2> QED
    BY <2>1, <2>2, <2>3 DEF Texts
<1>9. verb \in Texts /\ Len(verb) = 2 /\ Unescape(verb) = verb
  BY VerbTextIs
<1>10. ASSUME NEW y \in Texts
       PROVE  \E u \in Texts : Unescape(y \o verb) = u \o verb
  <2>1. Unescape(y \o verb) = Unescape(y) \o Unescape(verb)
    BY <1>9, UnescapedBoth
  <2> QED
    BY <1>8, <1>9, <2>1
<1>11. PICK A : A = Ascending(Wildcards(path))
  OBVIOUS
<1>12. CapturedAt(path, segs, s, A)
  BY <1>2, <1>11, CapturedIs
<1>13. path[n].kind # "lit" =>
         /\ A[s] = n
         /\ Captured(path, segs)[s] = IF path[n].kind = "var" THEN Unescape(segs[n])
                                      ELSE Unescape(Joined(SubSeq(segs, n, N), Slash))
  <2>1. s \in 1 .. s
    <3>1. s \in Nat \ {0}
      BY <1>2 DEF PathIs
    <3> QED
      BY <3>1
  <2>2. Captured(path, segs) =
          [j \in 1 .. s |-> IF path[A[j]].kind = "var" THEN Unescape(segs[A[j]])
                            ELSE Unescape(Joined(SubSeq(segs, A[j], Len(segs)), Slash))]
    BY <1>12, Zenon DEF CapturedAt
  <2>3. path[n].kind # "lit" => A[s] = n
    BY <1>4, <1>12, Zenon DEF CapturedAt
  <2> QED
    BY <1>5, <2>1, <2>2, <2>3
<1>14. path[n].kind # "lit"
  <2> SUFFICES ASSUME path[n].kind = "lit" PROVE FALSE
    OBVIOUS
  <2>1. PICK v \in LiteralsOf(Operations[p]) : path[n].text = <<v>>
    <3>1. n \in 1 .. Len(path)
      BY <1>4
    <3> QED
      BY <1>2, <3>1
  <2>2. segs[n] = e \o verb
    BY <1>5, <1>6
  <2>3. PICK u \in Texts : Unescape(e \o verb) = u \o verb
    BY <1>10
  <2>4. u \o verb = <<v>>
    BY <1>6, <2>1, <2>2, <2>3
  <2>5. Len(u \o verb) = Len(u) + 2 /\ Len(u) \in Nat
    <3>1. u \in Seq(Tokens) /\ verb \in Seq(Tokens) /\ Len(verb) = 2 /\ Len(u) \in Nat
      BY <1>9, ElementOf DEF Texts
    <3> QED
      BY <3>1, Concatenated
  <2>6. Len(<<v>>) = 1
    OBVIOUS
  <2> QED
    BY <2>4, <2>5, <2>6
<1>15. \E u \in Texts : Captured(path, segs)[s] = u \o verb
  <2>1. CASE path[n].kind = "var"
    <3>1. segs[n] = e \o verb
      BY <1>5, <1>6, <2>1
    <3>2. Captured(path, segs)[s] = Unescape(e \o verb)
      BY <1>13, <2>1, <3>1
    <3> QED
      BY <1>10, <3>2
  <2>2. CASE path[n].kind # "var"
    <3>1. PICK q : q = SubSeq(segs, n, N)
      OBVIOUS
    <3>2. q \in Seq(Texts) /\ Len(q) = N - n + 1 /\ q[Len(q)] = e \o verb
      <4>1. \A i \in n .. N : segs[i] \in Texts
        BY <1>5
      <4>2. /\ q \in Seq(Texts) /\ Len(q) = N - n + 1
            /\ \A i \in 1 .. N - n + 1 : q[i] = segs[n + i - 1]
        BY <1>7, <3>1, <4>1, SubSeqProperties
      <4>3. PICK i \in 1 .. N - n + 1 : i = N - n + 1 /\ n + i - 1 = N
        BY <1>7
      <4>4. q[i] = segs[N]
        BY <4>2, <4>3
      <4> QED
        BY <1>5, <4>2, <4>3, <4>4
    <3>3. PICK x \in Texts : x = e \o verb /\ x = Cat(e, verb)
      BY <1>9, Cats DEF Cat
    <3>4. \E y \in Texts : Joined(q, Slash) = y \o verb
      <4>1. PICK r : r = SubSeq(q, 1, N - n)
        OBVIOUS
      <4>2. r \in Seq(Texts) /\ Len(r) = N - n /\ \A i \in 1 .. N - n : r[i] = q[i]
        <5>1. PICK l \in Nat : l = N - n
          BY <1>7
        <5>2. \A i \in 1 .. l : q[i] \in Texts
          BY <3>2, <5>1
        <5> QED
          BY <4>1, <5>1, <5>2, SubSeqProperties
      <4>3. q = Append(r, x)
        <5>1. PICK l \in Nat : l = N - n
          BY <1>7
        <5>2. /\ Append(r, x) \in Seq(Texts) /\ Len(Append(r, x)) = l + 1
              /\ Append(r, x)[l + 1] = x /\ \A i \in 1 .. l : Append(r, x)[i] = r[i]
          BY <4>2, <5>1
        <5>3. Len(q) = l + 1 /\ q[l + 1] = x /\ \A i \in 1 .. l : q[i] = r[i]
          BY <3>2, <3>3, <4>2, <5>1
        <5>4. \A i \in 1 .. l + 1 : q[i] = Append(r, x)[i]
          <6>1. \A i \in 1 .. l + 1 : i \in 1 .. l \/ i = l + 1
            OBVIOUS
          <6> QED
            BY <5>2, <5>3, <6>1
        <5> QED
          BY <3>2, <5>2, <5>3, <5>4, SeqEqual
      <4>4. CASE r = <<>>
        <5>1. Append(<<>>, x) = <<x>>
          OBVIOUS
        <5>2. Joined(q, Slash) = x
          BY <4>3, <4>4, <5>1, JoinedOne
        <5> QED
          BY <3>3, <5>2
      <4>5. CASE r # <<>>
        <5>1. PICK a : a = Joined(r, Slash) /\ a \in Texts
          BY <4>2, JoinedIs
        <5>2. Joined(q, Slash) = a \o (Slash \o x)
          BY <4>2, <4>3, <4>5, <5>1, JoinedNext
        <5>3. Joined(q, Slash) = Cat(a, Cat(Slash, Cat(e, verb)))
          BY <3>3, <5>2 DEF Cat
        <5>4. Slash \in Texts
          BY SlashIs
        <5>5. Cat(a, Cat(Slash, Cat(e, verb))) = Cat(Cat(a, Cat(Slash, e)), verb) /\ Cat(a, Cat(Slash, e)) \in Texts
          <6>1. Cat(Slash, Cat(e, verb)) = Cat(Cat(Slash, e), verb) /\ Cat(Slash, e) \in Texts
            BY <1>9, <5>4, Cats
          <6>2. PICK b \in Texts : b = Cat(Slash, e)
            BY <6>1
          <6>3. Cat(a, Cat(b, verb)) = Cat(Cat(a, b), verb) /\ Cat(a, b) \in Texts
            BY <1>9, <5>1, Cats
          <6> QED
            BY <6>1, <6>2, <6>3
        <5>6. Joined(q, Slash) = Cat(a, Cat(Slash, e)) \o verb
          BY <5>3, <5>5 DEF Cat
        <5> QED
          BY <5>5, <5>6
      <4> QED
        BY <4>4, <4>5
    <3>5. PICK y \in Texts : Joined(q, Slash) = y \o verb
      BY <3>4
    <3>6. Captured(path, segs)[s] = Unescape(y \o verb)
      BY <1>13, <1>14, <2>2, <3>1, <3>5
    <3> QED
      BY <1>10, <3>6
  <2> QED
    BY <2>1, <2>2
<1>16. PICK u \in Texts : Captured(path, segs)[s] = u \o verb
  BY <1>15
<1>17. IsSuffix(verb, u \o verb)
  BY <1>9, VerbTrimmed
<1> QED
  BY <1>1, <1>16, <1>17

\* The operation the dispatcher chooses, from the verbs the last value ends in.
Cases(o, vals) == {p \in Verbs(o) : IsSuffix(Verb(p), vals[Len(vals)])}

\* The choice by those cases.
LEMMA ChosenAs ==
    ASSUME NEW o \in Ops, NEW vals, vals # <<>>
    PROVE  /\ Cases(o, vals) # {} => \E p \in Cases(o, vals) : Chosen(o, vals) = {p}
           /\ Cases(o, vals) = {} => Chosen(o, vals) = Base(o)
<1>1. Cases(o, vals) \subseteq Ops
  BY DEF Cases, Verbs, Group
<1>2. (IF vals = <<>> THEN {} ELSE {p \in Verbs(o) : IsSuffix(Verb(p), vals[Len(vals)])}) = Cases(o, vals)
  BY DEF Cases
<1>3. Chosen(o, vals) = IF Cases(o, vals) # {} THEN {CHOOSE p \in Cases(o, vals) : \A q \in Cases(o, vals) : p <= q}
                        ELSE Base(o)
  BY <1>2, Zenon DEF Chosen
<1>4. Cases(o, vals) # {} => (CHOOSE p \in Cases(o, vals) : \A q \in Cases(o, vals) : p <= q) \in Cases(o, vals)
  BY <1>1, LeastOp
<1> QED
  BY <1>3, <1>4, Zenon

\* A call whose own path matches is routed to its group.
LEMMA RoutedToGroup ==
    ASSUME RoutedHome, NEW o \in Ops, NEW client \in Clients, NEW ids \in IdsFor(o),
           NEW name \in NamesFor(o, ids), NEW segs, segs = Segments(Url(client, o, name)), Matches(Path(o), segs)
    PROVE  /\ o \in Best(Operations[o].http, segs)
           /\ \A p \in Best(Operations[o].http, segs) : p \in Group(o) /\ Matches(Path(p), segs)
<1>1. o \in Best(Operations[o].http, segs)
  BY DEF RoutedHome
<1>2. \A p \in Best(Operations[o].http, segs) : p \in Group(o)
  BY <1>1, HomeSlot
<1>3. \A p \in Best(Operations[o].http, segs) : Matches(Path(p), segs)
  BY DEF Best, MatchedBy
<1> QED
  BY <1>1, <1>2, <1>3

\* A call of an operation with a verb ends in a case of its group.
LEMMA VerbFound ==
    ASSUME RoutedHome, VerbsBehindWildcards, PathVarsInv, step = "handled", Verb(call.op) # <<>>
    PROVE  Verb(got.op) # <<>>
<1>1. PICK o \in Ops : o = call.op
  BY DEF PathVarsInv, Sent
<1>2. PICK ids \in IdsFor(o) : ids = call.ids
  BY <1>1 DEF PathVarsInv, Sent
<1>3. PICK client \in Clients : client = call.client
  BY DEF PathVarsInv, Sent
<1>n. PICK name \in NamesFor(o, ids) : name = call.name
  BY <1>1, <1>2 DEF PathVarsInv, Sent
<1>4. PICK segs : segs = Segments(Url(client, o, name)) /\ segs = Segments(url)
  BY <1>1, <1>2, <1>3, <1>n DEF PathVarsInv, Sent
<1>5. /\ Clean(segs) = segs /\ slot \in Best(Operations[o].http, segs) /\ values = Captured(Path(slot), segs)
      /\ got.op \in Chosen(slot, values)
  BY <1>1, <1>4 DEF PathVarsInv, Matched
<1>6. PICK s, V : SentAs(client, o, name, segs, s, V)
  BY <1>4, SegmentsSent
<1>7. PICK verb \in Texts : verb = Verb(o) /\ VerbText(verb)
  BY <1>1, VerbIs
<1>8. PICK path : path = Path(o)
  OBVIOUS
<1>9. /\ PathIs(path, s) /\ V \in [1 .. s -> Texts] /\ Verb(o) \in Texts
      /\ segs \in Seq(Texts) /\ Len(segs) \in Nat /\ Len(segs) >= Len(path)
  BY <1>6, <1>8 DEF SentAs
<1>10. PICK fr, last, multi : Carries(client, segs, path, V, verb, fr, last, multi)
  BY <1>6, <1>7, <1>8 DEF SentAs
<1>11. segs # <<>> /\ \E e \in Texts : Slashless(e) /\ segs[Len(segs)] = e \o verb
  BY <1>7, <1>9, <1>10, UrlEndsInVerb
<1>12. PICK e \in Texts : segs[Len(segs)] = e \o verb
  BY <1>11
<1>13. e \o verb # <<>>
  <2>1. e \in Seq(Tokens) /\ verb \in Seq(Tokens) /\ Len(verb) = 2 /\ Len(e) \in Nat
    BY <1>7, VerbTextIs, ElementOf DEF Texts
  <2>2. Len(e \o verb) = Len(e) + 2
    BY <2>1, Concatenated
  <2>3. Len(<<>>) = 0
    OBVIOUS
  <2> QED
    BY <2>1, <2>2, <2>3
<1>14. \A k \in 1 .. Len(path) : k # Len(segs) => segs[k] # <<>>
  <2> SUFFICES ASSUME NEW k \in 1 .. Len(path), k # Len(segs) PROVE segs[k] # <<>>
    OBVIOUS
  <2>1. Len(path) \in Nat
    BY <1>9 DEF PathIs
  <2>2. k \in 1 .. Len(segs)
    BY <1>9, <2>1
  <2> QED
    BY <1>5, <1>9, <2>2, CleanIsFull
<1>15. path[Len(path)].kind # "lit"
  BY <1>1, <1>8 DEF VerbsBehindWildcards
<1>16. Matches(path, segs)
  <2>1. segs[Len(segs)] # <<>>
    BY <1>12, <1>13
  <2> QED
    BY <1>7, <1>9, <1>10, <1>14, <1>15, <2>1, OwnMatch
<1>17. slot \in Group(o) /\ Matches(Path(slot), segs)
  BY <1>4, <1>5, <1>8, <1>16, RoutedToGroup
<1>18. PICK p \in Ops : p = slot /\ o \in Group(p)
  BY <1>17, OneGroup
<1>19. PICK t : t = Len(Stars(Pattern(p))) /\ t \in Nat \ {0}
  <2>1. PICK t : t = Len(Stars(Pattern(p)))
    OBVIOUS
  <2>2. PathIs(Path(p), t)
    BY <2>1, OwnPath
  <2> QED
    BY <2>1, <2>2 DEF PathIs
<1>21. IsSuffix(verb, Captured(Path(p), segs)[t])
  BY <1>7, <1>9, <1>12, <1>17, <1>18, <1>19, VerbCaptured
<1>22. Len(values) = t /\ values # <<>>
  <2>1. Len(values) = t
    BY <1>5, <1>18, <1>19, CapturedLength
  <2>2. Len(<<>>) = 0
    BY EmptySeq
  <2> QED
    BY <1>19, <2>1, <2>2
<1>23. IsSuffix(Verb(o), values[Len(values)])
  BY <1>5, <1>7, <1>18, <1>21, <1>22
<1>24. o \in Cases(p, values)
  <2>1. o \in Verbs(p)
    BY <1>1, <1>18 DEF Verbs, Base
  <2> QED
    BY <1>23, <2>1 DEF Cases
<1>25. got.op \in Cases(p, values)
  BY <1>5, <1>18, <1>22, <1>24, ChosenAs
<1>26. got.op \in Group(p) /\ got.op \notin Base(p)
  BY <1>25 DEF Cases, Verbs
<1> QED
  BY <1>26 DEF Base

\* A call of an operation with a custom verb is never served by one without,
\* whatever its name, if it is routed home and its verb stands behind a
\* wildcard (VerbsAreNotDropped; the dispatchers of protoc-gen-aip-go).
THEOREM VerbsArrive ==
    ASSUME RoutedHome, VerbsBehindWildcards
    PROVE  Spec => []VerbsAreNotDropped
<1>1. PathVarsInv => VerbsAreNotDropped
  BY VerbFound DEF VerbsAreNotDropped
<1> QED
  BY <1>1, PathVarsInductive, PTL

-----------------------------------------------------------------------------
\* The round trip.

\* An ordinary call on the wire: a clean path, which its own route matches and
\* takes apart again into the values and the verb.
Arrives(client, o, ids, name, segs, s, t, V) ==
    /\ s = Len(Stars(Pattern(o))) /\ NamedBy(o, s, ids, t)
    /\ V = ValuesOf(client, o, name) /\ OrdinaryValues(client, o, s, name, t, V)
    /\ Clean(segs) = segs /\ Matches(Path(o), segs)
    /\ Captured(Path(o), segs) = WithVerb(V, Verb(o), s)

\* Every call of proper IDs arrives so.
LEMMA CallArrives ==
    ASSUME VerbsBehindWildcards, NEW client \in {"go", "py", "ts"}, NEW o \in Ops,
           NEW ids \in IdsFor(o), ids # <<>>, \A j \in DOMAIN ids : Proper(o, ids[j]),
           NEW name \in NamesFor(o, ids), NEW segs, segs = Segments(Url(client, o, name))
    PROVE  \E s, t, V : Arrives(client, o, ids, name, segs, s, t, V)
<1>1. PICK s, V : SentAs(client, o, name, segs, s, V)
  BY SegmentsSent
<1>2. PICK path : path = Path(o)
  OBVIOUS
<1>3. PICK verb \in Texts : verb = Verb(o) /\ (verb = <<>> \/ VerbText(verb))
  BY <1>1 DEF SentAs
<1>4. /\ s = Len(Stars(Pattern(o))) /\ PathIs(path, s)
      /\ V \in [1 .. s -> Texts] /\ V = ValuesOf(client, o, name)
      /\ segs \in Seq(Texts) /\ Len(segs) \in Nat /\ Len(segs) >= Len(path)
  BY <1>1, <1>2 DEF SentAs
<1>5. PICK fr, last, multi : Carries(client, segs, path, V, verb, fr, last, multi)
  BY <1>1, <1>2, <1>3 DEF SentAs
<1>6. PICK t : NamedBy(o, s, ids, t)
  BY <1>4, NameIs
<1>7. name = NameOf(Pattern(o), ids)
  BY DEF NamesFor
<1>8. \A j \in 1 .. s : Proper(o, ids[j])
  BY <1>6 DEF NamedBy
<1>9. OrdinaryValues(client, o, s, name, t, V)
  BY <1>4, <1>6, <1>7, <1>8, ValuesSplit
<1>10. /\ \A j \in 1 .. s : V[j] \notin Improper
       /\ \A j \in 1 .. s : Plain(V[j])
       /\ path[Len(path)].kind = "rest" => Carried(V[s])
  BY <1>2, <1>9 DEF OrdinaryValues
<1>11. /\ Clean(segs) = segs
       /\ \A k \in 1 .. Len(segs) : segs[k] # <<>>
  BY <1>3, <1>4, <1>5, <1>10, CarriedClean
<1>12. path[Len(path)].kind = "lit" => verb = <<>>
  BY <1>2, <1>3 DEF VerbsBehindWildcards
<1>13. Matches(path, segs)
  <2>1. Len(path) \in Nat \ {0}
    BY <1>4 DEF PathIs
  <2>2. Len(segs) \in 1 .. Len(segs)
    BY <1>4, <2>1
  <2>3. \A k \in 1 .. Len(path) : k \in 1 .. Len(segs)
    BY <1>4, <2>1
  <2>4. \A k \in 1 .. Len(path) : k # Len(segs) => segs[k] # <<>>
    BY <1>11, <2>3
  <2>5. segs[Len(segs)] # <<>>
    BY <1>11, <2>2
  <2> QED
    BY <1>3, <1>4, <1>5, <1>12, <2>4, <2>5, OwnMatch
<1>14. Captured(path, segs) = WithVerb(V, verb, s)
  BY <1>3, <1>4, <1>5, <1>10, <1>12, OwnCaptured
<1> QED
  BY <1>2, <1>3, <1>4, <1>6, <1>9, <1>11, <1>13, <1>14, Zenon DEF Arrives

\* The last token of a text that ends in two.
LEMMA EndOfTwo ==
    ASSUME NEW v \in Texts, NEW c \in Tokens, NEW w \in Tokens, NEW x, x = v \o <<c, w>>
    PROVE  x[Len(x)] = w
<1>1. v \in Seq(Tokens) /\ <<c, w>> \in Seq(Tokens) /\ Len(<<c, w>>) = 2 /\ Len(v) \in Nat
  BY TwoOf, ElementOf DEF Texts
<1>2. Len(x) = Len(v) + 2 /\ x[Len(v) + 2] = <<c, w>>[2]
  BY <1>1, Concatenated, JoinedAt
<1> QED
  BY <1>2

\* The dispatcher finds the operation that was called.
LEMMA RightCase ==
    ASSUME RoutesDiffer, NEW o \in Ops, NEW p \in Group(o), NEW client, NEW s \in Nat \ {0}, NEW t,
           NEW name \in Texts, NEW V, OrdinaryValues(client, o, s, name, t, V), ~EndsInVerb(o, name),
           NEW vals, vals = WithVerb(V, Verb(o), s)
    PROVE  Chosen(p, vals) = {o}
<1>1. /\ p \in Ops /\ o \in Group(o) /\ Base(p) = Base(o) /\ Verbs(p) = Verbs(o)
  BY OneGroup
<1>2. PICK v \in Texts : v = V[s] /\ (v = Placeholder \/ EndsWith(name, v))
  <2>1. s \in 1 .. s
    OBVIOUS
  <2> QED
    BY <2>1 DEF OrdinaryValues
<1>3. /\ vals # <<>> /\ Len(vals) = s /\ vals[Len(vals)] = v \o Verb(o)
  <2>1. DOMAIN vals = 1 .. s /\ s \in 1 .. s
    BY DEF WithVerb
  <2>2. vals[s] = V[s] \o Verb(o)
    BY <2>1 DEF WithVerb
  <2>3. vals = [j \in 1 .. s |-> IF j = s THEN V[j] \o Verb(o) ELSE V[j]]
    BY Zenon DEF WithVerb
  <2>4. Len(vals) = s
    BY <2>1, <2>3
  <2>5. vals # <<>>
    BY <2>4, EmptySeq
  <2> QED
    BY <1>2, <2>2, <2>4, <2>5
<1>4. \A q \in Verbs(o) : q \in Ops /\ q \in Group(o) /\ Verb(q) # <<>>
  BY DEF Verbs, Base, Group
<1>5. ASSUME Verb(o) # <<>> PROVE Chosen(p, vals) = {o}
  <2>1. PICK w \in Tokens : Verb(o) = <<":", w>>
    BY <1>5, VerbIs DEF VerbText
  <2>2. Verb(o) \in Texts /\ IsSuffix(Verb(o), v \o Verb(o))
    BY VerbIs, VerbTrimmed
  <2>3. PICK x \in Texts : x = v \o <<":", w>> /\ vals[Len(vals)] = x
    <3>1. v \o Verb(o) \in Texts
      BY <2>2, Joins
    <3> QED
      BY <1>3, <2>1, <3>1
  <2>4. ASSUME NEW q \in Cases(p, vals) PROVE q = o
    <3>1. q \in Ops /\ q \in Group(o) /\ Verb(q) # <<>> /\ IsSuffix(Verb(q), x)
      BY <1>1, <1>4, <2>3 DEF Cases
    <3>2. PICK u \in Tokens : Verb(q) = <<":", u>>
      BY <3>1, VerbIs DEF VerbText
    <3>3. PICK z \in Texts : x = z \o <<":", u>>
      <4>1. Verb(q) \in Texts
        BY <3>1, VerbIs
      <4> QED
        BY <3>1, <3>2, <4>1, SuffixIs
    <3>4. u = w
      <4>1. x[Len(x)] = w
        BY <2>3, EndOfTwo
      <4>2. x[Len(x)] = u
        BY <3>3, EndOfTwo
      <4> QED
        BY <4>1, <4>2
    <3> QED
      BY <2>1, <3>1, <3>2, <3>4 DEF RoutesDiffer
  <2>5. o \in Cases(p, vals)
    <3>1. o \in Verbs(p)
      BY <1>1, <1>5 DEF Verbs, Base
    <3>2. IsSuffix(Verb(o), vals[Len(vals)])
      BY <1>3, <2>2
    <3> QED
      BY <3>1, <3>2 DEF Cases
  <2> QED
    BY <1>1, <1>3, <2>4, <2>5, ChosenAs
<1>6. ASSUME Verb(o) = <<>> PROVE Chosen(p, vals) = {o}
  <2>1. vals[Len(vals)] = v
    <3>1. Cat(v, <<>>) = v
      BY Cats
    <3> QED
      BY <1>3, <1>6, <3>1 DEF Cat
  <2>2. ASSUME NEW q \in Cases(p, vals) PROVE FALSE
    <3>1. q \in Ops /\ q \in Verbs(o) /\ Verb(q) # <<>> /\ IsSuffix(Verb(q), v)
      BY <1>1, <1>4, <2>1 DEF Cases
    <3>2. VerbText(Verb(q)) /\ Verb(q) \in Texts /\ Len(Verb(q)) = 2
      BY <3>1, VerbIs, VerbTextIs
    <3>3. PICK z \in Texts : v = z \o Verb(q)
      BY <3>1, <3>2, SuffixIs
    <3>4. v # Placeholder
      <4>1. z \in Seq(Tokens) /\ Verb(q) \in Seq(Tokens) /\ Len(z) \in Nat
        BY <3>2, ElementOf DEF Texts
      <4>2. Len(z \o Verb(q)) = Len(z) + 2
        BY <3>2, <4>1, Concatenated
      <4>3. Len(Placeholder) = 1
        BY DEF Placeholder
      <4> QED
        BY <3>3, <4>1, <4>2, <4>3
    <3>5. PICK u \in Texts : name = Cat(u, v)
      BY <1>2, <3>4 DEF EndsWith
    <3>6. name = Cat(Cat(u, z), Verb(q)) /\ Cat(u, z) \in Texts
      <4>1. v = Cat(z, Verb(q))
        BY <3>3 DEF Cat
      <4> QED
        BY <3>2, <3>5, <4>1, Cats
    <3>7. IsSuffix(Verb(q), name)
      <4>1. name = Cat(u, z) \o Verb(q)
        BY <3>6 DEF Cat
      <4> QED
        BY <3>2, <3>6, <4>1, SuffixIs
    <3> QED
      BY <1>6, <3>1, <3>7 DEF EndsInVerb
  <2>3. Base(o) = {o}
    <3>1. o \in Base(o)
      BY <1>1, <1>6 DEF Base
    <3>2. \A q \in Base(o) : q \in Ops /\ q \in Group(o) /\ Verb(q) = Verb(o)
      BY <1>6 DEF Base, Group
    <3> QED
      BY <3>1, <3>2 DEF RoutesDiffer
  <2> QED
    BY <1>1, <1>3, <2>2, <2>3, ChosenAs
<1> QED
  BY <1>5, <1>6

\* The handler puts the values together.
LEMMA RebuiltIs ==
    ASSUME NEW o \in Ops, NEW s \in Nat \ {0}, NEW V \in [1 .. s -> Texts], NEW vals, vals = WithVerb(V, Verb(o), s)
    PROVE  Rebuilt(o, vals) = PrefixOf(Pattern(o)) \o FlattenSeq(Interleaved(V, SepsOf(Pattern(o))))
<1>1. PICK seps : seps = SepsOf(Pattern(o))
  OBVIOUS
<1>2. vals = [j \in 1 .. s |-> IF j = s THEN V[j] \o Verb(o) ELSE V[j]]
  BY Zenon DEF WithVerb
<1>3. DOMAIN vals = 1 .. s /\ Len(vals) = s
  BY <1>2
<1> DEFINE Value(j) == IF j = Len(vals) THEN TrimSuffix(vals[j], Verb(o)) ELSE vals[j]
<1>4. ASSUME NEW j \in 1 .. s PROVE Value(j) = V[j]
  <2>1. PICK v \in Texts : v = V[j]
    OBVIOUS
  <2>2. CASE j = s
    <3>1. vals[j] = v \o Verb(o)
      BY <1>2, <2>1, <2>2
    <3>2. TrimSuffix(v \o Verb(o), Verb(o)) = v
      <4>1. CASE Verb(o) = <<>>
        <5>1. Cat(v, <<>>) = v
          BY Cats
        <5>2. TrimSuffix(v, <<>>) = v
          BY NothingTrimmed
        <5> QED
          BY <4>1, <5>1, <5>2 DEF Cat
      <4>2. CASE Verb(o) # <<>>
        BY VerbIs, VerbTrimmed
      <4> QED
        BY <4>1, <4>2
    <3> QED
      BY <1>3, <2>1, <2>2, <3>1, <3>2
  <2>3. CASE j # s
    BY <1>2, <1>3, <2>3
  <2> QED
    BY <2>2, <2>3
<1>5. Rebuilt(o, vals) = PrefixOf(Pattern(o))
        \o FlattenSeq([j \in DOMAIN vals |-> IF j = 1 THEN Value(1) ELSE seps[j - 1] \o Value(j)])
  BY <1>1, Zenon DEF Rebuilt
<1> HIDE DEF Value
<1>6. DOMAIN V = DOMAIN vals /\ 1 \in 1 .. s
  BY <1>3
<1>7. [j \in DOMAIN vals |-> IF j = 1 THEN Value(1) ELSE seps[j - 1] \o Value(j)]
      = [j \in DOMAIN V |-> IF j = 1 THEN V[1] ELSE seps[j - 1] \o V[j]]
  <2>1. \A j \in DOMAIN vals : Value(j) = V[j]
    BY <1>3, <1>4
  <2>2. Value(1) = V[1]
    BY <1>4, <1>6
  <2> QED
    BY <1>6, <2>1, <2>2, Zenon
<1> QED
  BY <1>1, <1>5, <1>7, Zenon DEF Interleaved

\* The name several times over is not the name.
LEMMA TooLong ==
    ASSUME NEW o \in Ops, NEW s, s = Len(Stars(Pattern(o))), s > 1, NEW name \in Texts,
           NEW V \in [1 .. s -> Texts], \A j \in 1 .. s : V[j] = name
    PROVE  PrefixOf(Pattern(o)) \o FlattenSeq(Interleaved(V, SepsOf(Pattern(o)))) # name
<1>1. PICK pat : pat = Pattern(o)
  OBVIOUS
<1>2. Starry(pat)
  BY <1>1, OwnPath
<1>3. PICK m : m = s - 1
  OBVIOUS
<1>4. m \in Nat /\ s = m + 1 /\ PrefixOf(pat) \in Texts
  BY <1>1, <1>2, <1>3, PiecesAre
<1>5. PICK p \in Texts : p = PrefixOf(pat)
  BY <1>4
<1>6. PICK seps \in [1 .. m -> Texts] : seps = SepsOf(pat) /\ \A j \in 1 .. m : Separator(seps[j])
  BY <1>1, <1>2, <1>3, PiecesAre
<1>7. Layered(V, seps, s, m)
  BY <1>3, <1>4, <1>6, InterleavedIs
<1>8. m \in 0 .. m /\ m \in 1 .. m /\ m # 0 /\ m \in 0 .. s /\ s \in 1 .. s
  BY <1>4
<1>9. FirstOnes(V, seps, m + 1) = Cat(FirstOnes(V, seps, m), Cat(SepAhead(seps, m), V[m + 1]))
  BY <1>7, <1>8 DEF Layered
<1>10. PICK a \in Texts : a = FirstOnes(V, seps, m)
  BY <1>7, <1>8 DEF Layered
<1>11. PICK b \in Texts : b = SepAhead(seps, m) /\ b # <<>>
  <2>1. Separator(seps[m])
    BY <1>6, <1>8
  <2>2. SepAhead(seps, m) = seps[m]
    BY <1>8 DEF SepAhead
  <2> QED
    BY <2>1, <2>2, SeparatorIs
<1>12. V[m + 1] = name
  BY <1>4, <1>8
<1>13. FlattenSeq(Interleaved(V, seps)) = Cat(a, Cat(b, name))
  <2>1. FirstOnes(V, seps, s) = FlattenSeq(Interleaved(V, seps))
    BY <1>7 DEF Layered
  <2> QED
    BY <1>4, <1>9, <1>10, <1>11, <1>12, <2>1
<1>14. \A x, y \in Texts : Len(Cat(x, y)) = Len(x) + Len(y) /\ Len(x) \in Nat
  <2> SUFFICES ASSUME NEW x \in Texts, NEW y \in Texts PROVE Len(Cat(x, y)) = Len(x) + Len(y) /\ Len(x) \in Nat
    OBVIOUS
  <2> QED
    BY Joins DEF Cat
<1>15. Len(b) # 0
  BY <1>11, EmptySeq DEF Texts
<1>16. Cat(b, name) \in Texts /\ Cat(a, Cat(b, name)) \in Texts
  BY <1>11, <1>10, Cats
<1>17. Len(Cat(p, Cat(a, Cat(b, name)))) = Len(p) + (Len(a) + (Len(b) + Len(name)))
  <2>1. PICK y \in Texts : y = Cat(b, name)
    BY <1>16
  <2>2. PICK z \in Texts : z = Cat(a, y)
    BY <1>16, <2>1
  <2>3. Len(Cat(p, z)) = Len(p) + Len(z) /\ Len(z) = Len(a) + Len(y) /\ Len(y) = Len(b) + Len(name)
    BY <1>14, <2>1, <2>2
  <2> QED
    BY <2>1, <2>2, <2>3
<1>18. Len(p) \in Nat /\ Len(a) \in Nat /\ Len(b) \in Nat /\ Len(name) \in Nat
  BY <1>14
<1>19. Len(Cat(p, Cat(a, Cat(b, name)))) # Len(name)
  BY <1>15, <1>17, <1>18
<1> QED
  BY <1>1, <1>5, <1>6, <1>13, <1>19 DEF Cat

\* An ordinary call that has ended was delivered, unless Go could not take its
\* name apart.
LEMMA OrdinaryEnds ==
    ASSUME RoutedHome, RoutesDiffer, VerbsBehindWildcards, PathVarsInv, step \in Ended, Ordinary(call)
    PROVE  Delivered <=> ~(call.client = "go" /\ Unsplit(call.op))
<1>0. PICK o \in Ops : o = call.op /\ call.ids \in IdsFor(o)
  BY DEF PathVarsInv, Sent, Ended
<1>1. PICK ids \in IdsFor(o) : o = call.op /\ ids = call.ids
  BY <1>0
<1>2. PICK client \in Clients : client = call.client
  BY DEF PathVarsInv, Sent, Ended
<1>3. client \in {"go", "py", "ts"}
  BY ClientsAssumption
<1>4. PICK name \in NamesFor(o, ids) : name = call.name
  BY <1>1 DEF PathVarsInv, Sent, Ended
<1>5. name \in Texts
  BY <1>1, <1>4, NameIsText
<1>6. PICK segs : segs = Segments(Url(client, o, name)) /\ segs = Segments(url)
  BY <1>1, <1>2, <1>4 DEF PathVarsInv, Sent, Ended
<1>7. ids # <<>> /\ (\A j \in DOMAIN ids : Proper(o, ids[j])) /\ ~EndsInVerb(o, name)
  BY <1>1, <1>4 DEF Ordinary
<1>8. PICK s, t, V : Arrives(client, o, ids, name, segs, s, t, V)
  BY <1>1, <1>3, <1>4, <1>6, <1>7, CallArrives
<1>9. /\ s = Len(Stars(Pattern(o))) /\ NamedBy(o, s, ids, t) /\ OrdinaryValues(client, o, s, name, t, V)
      /\ Clean(segs) = segs /\ Matches(Path(o), segs)
      /\ Captured(Path(o), segs) = WithVerb(V, Verb(o), s)
  BY <1>8 DEF Arrives
<1>10. /\ o \in Best(Operations[o].http, segs)
       /\ \A p \in Best(Operations[o].http, segs) : p \in Group(o)
  BY <1>1, <1>4, <1>6, <1>9, RoutedToGroup
<1>11. step # "redirected" /\ (step = "notFound" => Matched /\ Chosen(slot, values) = {})
  BY <1>1, <1>6, <1>9, <1>10 DEF PathVarsInv
<1>12. Matched
  BY <1>11 DEF PathVarsInv, Ended
<1>13. slot \in Group(o) /\ values = Captured(Path(slot), segs)
  BY <1>1, <1>6, <1>10, <1>12 DEF Matched
<1>14. PathIs(Path(o), s) /\ s \in Nat \ {0}
  <2>1. PathIs(Path(o), s)
    BY <1>9, OwnPath
  <2> QED
    BY <2>1 DEF PathIs
<1>15. values = WithVerb(V, Verb(o), s)
  <2>1. PICK p \in Ops : p = slot /\ Normalize(Path(p)) = Normalize(Path(o))
    BY <1>13, OneGroup
  <2>2. PICK u : u = Len(Stars(Pattern(p)))
    OBVIOUS
  <2>3. PathIs(Path(p), u)
    BY <2>2, OwnPath
  <2>4. Captured(Path(p), segs) = Captured(Path(o), segs)
    BY <1>14, <2>1, <2>3, Alike
  <2> QED
    BY <1>9, <1>13, <2>1, <2>4
<1>16. Chosen(slot, values) = {o}
  BY <1>5, <1>7, <1>9, <1>13, <1>14, <1>15, RightCase
<1>17. /\ step = "handled" /\ got.op = o
       /\ got.name = IF Operations[o].serverStream THEN call.name ELSE Rebuilt(o, values)
       /\ got = [op |-> o, name |-> got.name]
  <2>1. step # "notFound"
    BY <1>11, <1>16
  <2>2. step = "handled"
    BY <1>11, <2>1 DEF Ended
  <2> QED
    <3>1. got.op = o
      BY <1>16, <2>2 DEF PathVarsInv
    <3>2. PICK x : x = IF Operations[o].serverStream THEN call.name ELSE Rebuilt(o, values)
      OBVIOUS
    <3>3. got = [op |-> o, name |-> x]
      BY <2>2, <3>1, <3>2 DEF PathVarsInv
    <3> QED
      BY <2>2, <3>2, <3>3
<1>18. V \in [1 .. s -> Texts]
  BY <1>9 DEF OrdinaryValues
<1>19. Rebuilt(o, values) = PrefixOf(Pattern(o)) \o FlattenSeq(Interleaved(V, SepsOf(Pattern(o))))
  BY <1>14, <1>15, <1>18, RebuiltIs
<1>20. name = PrefixOf(Pattern(o)) \o t
  BY <1>4, <1>7, <1>9 DEF NamedBy, NamesFor
<1>21. Unsplit(o) <=> s > 2 /\ ~Operations[o].serverStream
  BY <1>9 DEF Unsplit
<1>22. CASE Operations[o].serverStream
  <2>1. got.name = call.name
    BY <1>17, <1>22
  <2>2. Delivered
    BY <1>1, <1>17, <2>1 DEF Delivered
  <2> QED
    BY <1>1, <1>21, <1>22, <2>2
<1>23. CASE ~Operations[o].serverStream /\ ~(s > 2 /\ client = "go")
  <2>1. FlattenSeq(Interleaved(V, SepsOf(Pattern(o)))) = t
    BY <1>9, <1>23 DEF OrdinaryValues
  <2>2. got.name = name
    BY <1>17, <1>19, <1>20, <1>23, <2>1
  <2>3. Delivered
    BY <1>1, <1>4, <1>17, <2>2 DEF Delivered
  <2> QED
    BY <1>1, <1>2, <1>21, <1>23, <2>3
<1>24. CASE ~Operations[o].serverStream /\ s > 2 /\ client = "go"
  <2>1. \A j \in 1 .. s : V[j] = name
    BY <1>9, <1>24 DEF OrdinaryValues
  <2>2. s > 1
    BY <1>14, <1>24
  <2>3. Rebuilt(o, values) # name
    BY <1>5, <1>9, <1>18, <1>19, <2>1, <2>2, TooLong
  <2>4. got.name # name
    BY <1>17, <1>24, <2>3
  <2>5. ~Delivered
    BY <1>4, <2>4 DEF Delivered
  <2> QED
    BY <1>1, <1>2, <1>21, <1>24, <2>5
<1> QED
  BY <1>22, <1>23, <1>24

\* A name goes through exactly: the operation that was called runs and reads
\* the name its caller passed, whatever the language of the client and
\* whatever slashes, separators, percent signs or verbs the IDs contain
\* (RoundTripExact; the path helpers of the three generators, the dispatcher
\* and the request literal of protoc-gen-aip-go).
THEOREM NamesArrive ==
    ASSUME RoutedHome, RoutesDiffer, VerbsBehindWildcards
    PROVE  Spec => []RoundTripExact
<1>1. PathVarsInv => RoundTripExact
  BY OrdinaryEnds DEF RoundTripExact
<1> QED
  BY <1>1, PathVarsInductive, PTL
=============================================================================
