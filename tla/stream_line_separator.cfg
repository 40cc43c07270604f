SPECIFICATION Spec
CONSTANTS
    Clients <- PythonClient
    Streams <- SpacedStreams
    LineEnds <- OneLineEnd
INVARIANT WholeStream
