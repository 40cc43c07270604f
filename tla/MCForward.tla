------------------------------ MODULE MCForward ------------------------------
\* Instances of Forward for TLC.
EXTENDS Forward

Op(client, http, bodyField, pathFields, kind) ==
    [client |-> client, http |-> http, body |-> bodyField, path |-> pathFields, kind |-> kind]

\* Requests of the repository's RPCs: get, delete and update name a resource,
\* list filters and pages.
Named   == "name" :> "string" @@ "note" :> "string"
Delete  == "name" :> "string" @@ "force" :> "bool"
List    == "filter" :> "string" @@ "size" :> "int" @@ "force" :> "bool"
Ratio   == "name" :> "string" @@ "ratio" :> "float"
Tagged  == "name" :> "string" @@ "tags" :> "repeated"
Staged  == "name" :> "string" @@ "state" :> "enum"

\* What every caller may call.
Shapes(client) ==
    {Op(client, "GET", "", {}, List), Op(client, "GET", "", {"name"}, Named),
     Op(client, "DELETE", "", {"name"}, Delete),
     Op(client, "POST", "*", {}, Named), Op(client, "PATCH", "*", {"name"}, Named)}

\* A POST without a body and numbers that are no integers are not for Python,
\* nor the former for TypeScript; enums and repeated fields in a query are for
\* no generated client.  See the README.
AllCallers ==
    UNION {Shapes(client) : client \in {"go", "py", "ts", "http"}}
    \cup {Op(client, "POST", "", {"name"}, Named) : client \in {"go", "http"}}
    \cup {Op(client, "GET", "", {"name"}, Ratio) : client \in {"go", "ts"}}
    \cup {Op("http", "GET", "", {"name"}, kind) : kind \in {Tagged, Staged}}
EnumCallers == {Op(client, "GET", "", {"name"}, Staged) : client \in {"go", "ts"}}

SomeCodes == {"not_found", "aborted", "canceled", "unlisted"}
=============================================================================
