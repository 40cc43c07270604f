SPECIFICATION FairSpec
CONSTANTS
    Statuses <- MCStatuses
    MaxUnits = 3
    MaxChunk = 2
    SynthLen = 2
INVARIANTS
    TypeOK
    EofImpliesBodyClosed
    NoSilentTruncation
    StatusSettled
    CancelledCallIsOver
    BodyOpenWhileServing
PROPERTIES
    ImplementsContract
    RoundTripReturns
    GoroutineEnds
    CallerReachesEnd
