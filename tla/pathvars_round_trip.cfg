SPECIFICATION Spec
CONSTANTS
    Operations <- Service
    Clients = {"go", "py", "ts"}
    Ids <- AllIds
    Strays <- StrayNames
INVARIANTS
    TypeOK
    RoundTripExact
    ClientsAgree
    VerbsAreNotDropped
