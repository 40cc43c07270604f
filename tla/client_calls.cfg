SPECIFICATION Spec
CONSTANTS
    Clients <- MCClients
    Keys <- MCKeys
    BodyUnits = 2
    MaxCalls = 2
    MaxTries = 2
    InterceptorKeys = {"X-Tenant"}
INVARIANTS
    TypeOK
    CallerHeadersWin
    RequestRemembersClients
    AttemptsSendTheirOwn
CHECK_DEADLOCK FALSE
