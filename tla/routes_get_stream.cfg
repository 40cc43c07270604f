SPECIFICATION Spec
CONSTANTS
    Methods <- GetStreamPool
    MaxMethods = 2
INVARIANT ReferencesResolve
