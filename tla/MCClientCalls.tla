---------------------------- MODULE MCClientCalls ----------------------------
\* Instances of ClientCalls for TLC.
EXTENDS ClientCalls

MCKeys == {"Accept", "Content-Type", "X-Tenant"}

\* Two unary clients that disagree on every static header, and the second has
\* neither body, procedure nor host; one client of each other kind with every
\* static header.
C(name, k, statics, body, procedure, host) ==
    [name |-> name, kind |-> k, statics |-> statics, body |-> body,
     procedure |-> procedure, host |-> host]

MCClients ==
    {C("create", "unary", {"X-Tenant"}, TRUE, "/Create", "api"),
     C("get", "unary", {"X-Tenant", "Accept", "Content-Type"}, FALSE, "", ""),
     C("watch", "stream", {"X-Tenant"}, TRUE, "/Watch", "api"),
     C("pyList", "py", {"X-Tenant", "Accept"}, FALSE, "/List", "api"),
     C("pyCreate", "py", {"Accept"}, TRUE, "/Create", "api"),
     C("tsList", "ts", {"X-Tenant", "Accept"}, FALSE, "/List", "api"),
     C("tsCreate", "ts", {"Content-Type"}, TRUE, "/Create", "api")}
=============================================================================
