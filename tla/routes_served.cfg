SPECIFICATION Spec
CONSTANTS
    Methods <- AllPool
    MaxMethods = 3
INVARIANTS
    TypeOK
    RegistrationSucceeds
    ReferencesResolve
    OperationsRegistered
    RequestsReachTheirMethod
