------------------------ MODULE MCLoopbackTransport ------------------------
\* Instances of LoopbackTransport for TLC.
EXTENDS LoopbackTransport

\* 0 is what cmp.Or turns into 200; 404 stands for any status a handler
\* chooses; 500 collides with the synthesized one.
MCStatuses == {0, 404, 500}
=============================================================================
