SPECIFICATION Spec
CONSTANTS
    Clients <- BothClients
    Streams <- SomeStreams
    LineEnds <- BothLineEnds
INVARIANTS
    TypeOK
    YieldedInOrder
    WholeStream
    ArrivedIsDelivered
