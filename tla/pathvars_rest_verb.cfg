SPECIFICATION Spec
CONSTANTS
    Operations <- RestVerb
    Clients = {"go", "py", "ts"}
    Ids <- Ordinary_
    Strays = {}
INVARIANT ClientsAgree
