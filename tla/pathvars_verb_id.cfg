SPECIFICATION Spec
CONSTANTS
    Operations <- TwoOps
    Clients = {"go", "py", "ts"}
    Ids <- VerbIds
    Strays = {}
INVARIANT AnyIdRoundTrips
