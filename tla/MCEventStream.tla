--------------------------- MODULE MCEventStream ---------------------------
\* Instances of EventStream for TLC.
EXTENDS EventStream

\* Messages in one line of data and in two, one that does not parse, one with
\* U+2028 in it, and trailers.
Line(w)    == [flags |-> "0", lines |-> <<<<"{", w, "}">>>>]
Lines(w)   == [flags |-> "0", lines |-> <<<<"{", w>>, <<"}">>>>]
Spaced(w)  == [flags |-> "0", lines |-> <<<<"{", w, "ls", "}">>>>]
Trailer(c) == [flags |-> "2", lines |-> <<<<"{", c, "}">>>>]

Endings == {<<>>, <<Trailer("none")>>, <<Trailer("aborted")>>, <<Trailer("unlisted")>>, <<Trailer("bad")>>}
Bodies  == {<<>>, <<Line("a")>>, <<Line("a"), Line("a")>>, <<Line("a"), Lines("b")>>, <<Lines("a"), Line("bad")>>,
            <<Line("a"), Line("b"), Line("bad")>>}
SomeStreams == {b \o e : b \in Bodies, e \in Endings}
SpacedStreams == {<<Spaced("a")>> \o e : e \in Endings}

BothClients == {"ts", "py"}
PythonClient == {"py"}
BothLineEnds == {<<"nl">>, <<"cr", "nl">>}
OneLineEnd == {<<"nl">>}
============================================================================
