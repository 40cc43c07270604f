----------------------------- MODULE UrlPattern -----------------------------
(***************************************************************************)
(* URL patterns: what parseURLPatternToServeMux makes of the pattern of a  *)
(* google.api.http annotation, and how grouping compares the result.       *)
(*                                                                         *)
(* A pattern is a sequence of elements, a literal or a variable with its   *)
(* sub-pattern, and a custom verb; text is compared, never taken apart.    *)
(***************************************************************************)
EXTENDS Integers, Sequences, FiniteSets, SequencesExt

\* parseURLPatternToServeMux.

\* A segment of a ServeMux path: its text (a variable's name), a verb left in
\* it, and for a rest-of-path wildcard the literals of the sub-pattern it
\* replaces, which the ServeMux path does not show.
Seg(kind, text) == [kind |-> kind, text |-> text, tail |-> "", hidden |-> <<>>]
Lit(t) == Seg("lit", <<t>>)
Var(n) == Seg("var", n)
Rest(n, literals) == [Seg("rest", n) EXCEPT !.hidden = literals]
Bad == Seg("bad", <<>>)

IsVar(e) == e.field # <<>>

\* What an RPC may be annotated with: at least one element, a literal element
\* being one segment, and a verb.
Annotated(m) ==
    /\ m.verb \in STRING
    /\ m.tmpl \in Seq([field : Seq(STRING), pat : Seq(STRING)]) \ {<<>>}
    /\ \A k \in DOMAIN m.tmpl : ~IsVar(m.tmpl[k]) => Len(m.tmpl[k].pat) = 1

\* strings.Count(pat, "*"): "**" counts twice.
StarCount(pat) ==
    Cardinality({k \in DOMAIN pat : pat[k] \in {"*", "**"}})
    + Cardinality({k \in DOMAIN pat : pat[k] = "**"})

StarsBefore(pat, k) == Cardinality({h \in 1 .. k - 1 : pat[h] = "*"})
FirstStar(pat) == CHOOSE k \in DOMAIN pat : pat[k] = "*" /\ StarsBefore(pat, k) = 0
Sanitized(field) == field[Len(field)]

\* One variable: several wildcards become one named segment each; a single
\* one becomes {f}, or {f...} when literals follow it inside the braces and
\* nothing outside; a literal sub-pattern is glued to the placeholder.
VarSegments(e, atEnd) ==
    LET n == StarCount(e.pat)
        f == Sanitized(e.field)
        Literals(k) == [h \in 1 .. k |-> Lit(e.pat[h])]
    IN CASE n > 1 ->
              [k \in DOMAIN e.pat |->
                 CASE e.pat[k] = "*"  -> Var(<<f, StarsBefore(e.pat, k)>>)
                   [] e.pat[k] = "**" -> Bad
                   [] OTHER           -> Lit(e.pat[k])]
         [] n = 1 ->
              Append(Literals(FirstStar(e.pat) - 1),
                     IF e.pat[Len(e.pat)] # "*" /\ atEnd
                     THEN Rest(<<f>>, SubSeq(e.pat, FirstStar(e.pat) + 1, Len(e.pat)))
                     ELSE Var(<<f>>))
         [] n = 0 /\ e.pat = <<>> -> <<Var(<<f>>)>>
         [] OTHER -> Append(Literals(Len(e.pat) - 1), Bad)

\* The field of each pathVar the variable adds: only the first of an expanded
\* variable assigns the field.
VarNames(e) ==
    LET n == StarCount(e.pat)
    IN IF n > 1 THEN [k \in 1 .. n |-> <<Sanitized(e.field), k - 1>>]
       ELSE <<<<Sanitized(e.field)>>>>

\* The verb is cut off only behind a variable with a wildcard; elsewhere it
\* stays in the text of the last segment.
VerbIsCut(tmpl) == IsVar(tmpl[Len(tmpl)]) /\ StarCount(tmpl[Len(tmpl)].pat) > 0

MuxPath(tmpl, verb) ==
    LET Segments(k) == IF IsVar(tmpl[k]) THEN VarSegments(tmpl[k], k = Len(tmpl))
                       ELSE <<Lit(tmpl[k].pat[1])>>
        path == FlattenSeq([k \in DOMAIN tmpl |-> Segments(k)])
    IN IF verb = "" \/ VerbIsCut(tmpl) THEN path
       ELSE [path EXCEPT ![Len(path)].tail = verb]

VarNamesOf(tmpl) ==
    LET Names(k) == IF IsVar(tmpl[k]) THEN VarNames(tmpl[k]) ELSE <<>>
    IN FlattenSeq([k \in DOMAIN tmpl |-> Names(k)])

\* Mutant: paths are compared with their variable names.
Normalize_Named(path) == path

\* normalizeServeMuxPath: the shape of a path, whatever its names.
Normalize(path) ==
    [k \in DOMAIN path |->
       IF path[k].kind = "lit" THEN path[k]
       ELSE [path[k] EXCEPT !.text = <<"_">>, !.hidden = <<>>]]
=============================================================================
