----------------------------- MODULE MCPathVars -----------------------------
\* Instances of PathVars for TLC.
EXTENDS PathVars

L(t) == [field |-> <<>>, pat |-> <<t>>]
Op(http, pat, verb) ==
    [http |-> http, tmpl |-> <<L("v1"), [field |-> <<"name">>, pat |-> pat]>>,
     verb |-> verb, serverStream |-> FALSE]
Streaming(op) == [op EXCEPT !.serverStream = TRUE]

Agent == <<"agents", "*">>
Slo   == <<"agents", "*", "slos", "*">>
Files == <<"agents", "*", "files">>
Deep  == <<"agents", "*", "slos", "*", "runs", "*">>

Get      == Op("GET", Agent, "")
Peek     == Op("GET", Agent, "peek")
Run      == Op("POST", Agent, "run")
Watch    == Streaming(Op("POST", Agent, "watch"))
GetSlo   == Op("GET", Slo, "")
Record   == Op("GET", Slo, "record")
Follow   == Streaming(Op("POST", Slo, "follow"))
GetFiles == Op("GET", Files, "")
Pack     == Op("POST", Files, "pack")
GetDeep  == Op("GET", Deep, "")
Tail_    == Streaming(Op("POST", Deep, "tail"))
SloFiles == Op("GET", Slo \o <<"files">>, "")

Service  == <<Get, Peek, Run, Watch, GetSlo, Record, Follow, GetFiles, GetDeep, Tail_, SloFiles>>
TwoOps   == <<Get, Peek, GetSlo, Record>>
RestVerb == <<Run, Pack>>

\* An ordinary ID; IDs with a slash, with the separator of Slo, with signs that
\* every client or all but TypeScript's escape, with the prefix of the pattern;
\* IDs that end in verbs, behind a colon that only Go leaves; the empty one and
\* the dot segments; one that begins with the separator of Slo.
Odd == {<<"x", "/", "y">>, <<"x", "/", "slos", "/", "y", "/", "slos", "/", "z">>, <<"%", "!">>,
        <<"agents", "/", "x">>, <<"x", "/", "files">>}
Ordinary_ == {<<"x">>} \cup Odd
Verbish == {<<"x", ":", "peek">>, <<"x", ":", "run">>, <<":", "record">>}
Dots == {<<>>, <<".">>, <<"..">>, <<"/", "slos", "/", "x">>}

AllIds == Ordinary_ \cup Verbish \cup Dots
VerbIds == {<<"x">>} \cup Verbish

\* No name at all, one with the prefix behind something else, one without it.
StrayNames == {<<>>, <<":", "/", "agents", "/", "y">>, <<"!", "/", "y">>}

\* The service is one of those that the theorems of PathVarsProofs are about.
ASSUME ServiceQualifies ==
    Operations = Service => RoutedHome /\ RoutesDiffer /\ VerbsBehindWildcards /\ NoVerbAfterRest
=============================================================================
