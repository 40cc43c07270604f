------------------------------ MODULE ServeMux ------------------------------
(***************************************************************************)
(* The patterns of http.ServeMux (standard library): which are refused,    *)
(* which conflict, which of two is the more specific.  Modelled from the   *)
(* documentation of net/http, for the patterns the generator writes.       *)
(***************************************************************************)
EXTENDS UrlPattern

\* The element a pattern has at position k: a rest-of-path wildcard goes on.
At(path, k) ==
    IF k <= Len(path) THEN path[k]
    ELSE IF path[Len(path)].kind = "rest" THEN path[Len(path)]
    ELSE Seg("end", <<>>)

\* How wide an element is: what it matches includes what a narrower one does.
Width(e) == CASE e.kind = "lit" -> 1 [] e.kind = "var" -> 2 [] e.kind = "rest" -> 3 [] OTHER -> 0

Longer(p, q) == 1 .. (IF Len(p) < Len(q) THEN Len(q) ELSE Len(p))
Disjoint(p, q) ==
    \E k \in Longer(p, q) :
       \/ At(p, k).kind = "end" \/ At(q, k).kind = "end"
       \/ At(p, k).kind = "lit" /\ At(q, k).kind = "lit" /\ At(p, k) # At(q, k)
MoreSpecific(p, q) ==
    /\ \A k \in Longer(p, q) : Width(At(p, k)) <= Width(At(q, k))
    /\ \E k \in Longer(p, q) : Width(At(p, k)) < Width(At(q, k))
Conflicts(p, q) == ~Disjoint(p, q) /\ ~MoreSpecific(p, q) /\ ~MoreSpecific(q, p)

Wildcards(path) == {k \in DOMAIN path : path[k].kind \in {"var", "rest"}}
Malformed(path) ==
    \/ \E k \in DOMAIN path : path[k].kind = "bad"
    \/ \E k \in Wildcards(path) : path[k].tail # ""
    \/ \E k, h \in Wildcards(path) : k # h /\ path[k].text = path[h].text
    \/ \E k \in DOMAIN path : path[k].kind = "rest" /\ k # Len(path)
=============================================================================
