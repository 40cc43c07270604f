------------------------------ MODULE PathText ------------------------------
(***************************************************************************)
(* The text operations a path variable goes through on its way from a      *)
(* field of the client's message into a URL and back into a field of the   *)
(* server's: trimming, splitting and escaping.                             *)
(*                                                                         *)
(* A text is a sequence of tokens.  "/" and "%" are the characters that    *)
(* mean something in a URL ("%" stands for every other such character);    *)
(* ":" stands for those that only Go leaves as they are ("@", "&", "="...),*)
(* "!" for those that only TypeScript does ("'" and brackets).  "%2F",     *)
(* "%25", "%3A" and "%21" are the escaped forms of the four.               *)
(***************************************************************************)
EXTENDS Integers, Sequences, FiniteSets, SequencesExt

\* strings.TrimPrefix, str.removeprefix; strings.TrimSuffix.
TrimPrefix(s, prefix) ==
    IF IsPrefix(prefix, s) THEN SubSeq(s, Len(prefix) + 1, Len(s)) ELSE s
TrimSuffix(s, suffix) ==
    IF IsSuffix(suffix, s) THEN SubSeq(s, 1, Len(s) - Len(suffix)) ELSE s

\* strings.Cut, str.partition, indexOf: the first occurrence of a separator.
OccursAt(s, sep, k) == k + Len(sep) - 1 <= Len(s) /\ SubSeq(s, k, k + Len(sep) - 1) = sep
Occurs(s, sep) == \E k \in 1 .. Len(s) : OccursAt(s, sep, k)
FirstAt(s, sep) ==
    CHOOSE k \in 1 .. Len(s) : OccursAt(s, sep, k) /\ \A h \in 1 .. k - 1 : ~OccursAt(s, sep, h)
Before(s, sep) == SubSeq(s, 1, FirstAt(s, sep) - 1)
After(s, sep)  == SubSeq(s, FirstAt(s, sep) + Len(sep), Len(s))

\* SplitMultiWildcard of the Go runtime: two wildcards, one separator.
SplitMultiWildcard(val, prefix, sep, idx) ==
    LET rest == TrimPrefix(val, prefix)
    IN IF Occurs(rest, sep) THEN (IF idx = 0 THEN Before(rest, sep) ELSE After(rest, sep))
       ELSE IF idx = 0 THEN rest ELSE <<>>

\* Mutant: the last wildcard stops at a further occurrence of its separator.
split_multi_wildcard_EveryCut(val, prefix, seps, idx) ==
    LET rest[k \in 0 .. idx] ==
            IF k = 0 THEN TrimPrefix(val, prefix)
            ELSE IF Occurs(rest[k - 1], seps[k]) THEN After(rest[k - 1], seps[k]) ELSE <<>>
        next == IF idx < Len(seps) THEN seps[idx + 1] ELSE seps[idx]
    IN IF Occurs(rest[idx], next) THEN Before(rest[idx], next) ELSE rest[idx]

\* split_multi_wildcard and splitMultiWildcard of the Python and TypeScript
\* runtimes: any number of separators.  rest[k] is what follows the k-th cut;
\* a separator that is missing before idx leaves nothing.
split_multi_wildcard(val, prefix, seps, idx) ==
    LET rest[k \in 0 .. idx] ==
            IF k = 0 THEN TrimPrefix(val, prefix)
            ELSE IF Occurs(rest[k - 1], seps[k]) THEN After(rest[k - 1], seps[k]) ELSE <<>>
    IN IF idx < Len(seps) /\ Occurs(rest[idx], seps[idx + 1])
       THEN Before(rest[idx], seps[idx + 1]) ELSE rest[idx]

\* JavaScript's replace(prefix, ""): the first occurrence, wherever it is.
RemoveFirstText(s, part) ==
    IF Occurs(s, part) THEN Before(s, part) \o After(s, part) ELSE s

-----------------------------------------------------------------------------
\* url.PathEscape, quote(safe="") and encodeURIComponent, which leave different
\* characters alone, and the server's unescaping, which undoes each of them.

LeftAlone(client) == CASE client = "go" -> {":"} [] client = "ts" -> {"!"} [] OTHER -> {}
Encoded(t) ==
    CASE t = "/" -> "%2F" [] t = "%" -> "%25" [] t = ":" -> "%3A" [] t = "!" -> "%21" [] OTHER -> t

EscapeToken(client, t) == IF t \in LeftAlone(client) THEN t ELSE Encoded(t)
UnescapeToken(t) ==
    CASE t = "%2F" -> "/" [] t = "%25" -> "%" [] t = "%3A" -> ":" [] t = "%21" -> "!" [] OTHER -> t

Unescape(s) == [k \in DOMAIN s |-> UnescapeToken(s[k])]

\* Mutant: a single-segment value keeps its slashes.
escapePathVar_Verbatim(client, val, multiSegment) ==
    [k \in DOMAIN val |-> IF val[k] = "/" THEN "/" ELSE EscapeToken(client, val[k])]

\* escapePathVar, _escape_path_var, encodePathVar: a rest-of-path placeholder
\* keeps its slashes and has each segment escaped on its own.
escapePathVar(client, val, multiSegment) ==
    [k \in DOMAIN val |-> IF multiSegment /\ val[k] = "/" THEN "/" ELSE EscapeToken(client, val[k])]

-----------------------------------------------------------------------------
\* Segments of a text, and the text of segments.

\* The elements of a set of integers, in ascending order.
Ascending(S) ==
    [j \in 1 .. Cardinality(S) |-> CHOOSE k \in S : Cardinality({h \in S : h < k}) = j - 1]

Segments(s) ==
    LET cuts == Ascending({0, Len(s) + 1} \cup {k \in DOMAIN s : s[k] = "/"})
    IN [j \in 1 .. Len(cuts) - 1 |-> SubSeq(s, cuts[j] + 1, cuts[j + 1] - 1)]

Joined(segs, sep) ==
    FlattenSeq([j \in DOMAIN segs |-> IF j = 1 THEN segs[1] ELSE sep \o segs[j]])
=============================================================================
