CONSTANTS
    Limit = 2
    DrainChunk = 2
    PipeChunk = 2
    MaxBytes = 8
    Streams <- MCStreams
SPECIFICATION ReaderSpec
INVARIANTS
    FittingLinesIntact
    PieceOnlyAfterOverflow
    MemoryBounded
PROPERTIES
    StreamEnds
