CONSTANTS
    Byte = {a, b}
    Capacity = 2
    MaxWritten = 5
    WriteAfterEnd = FALSE
    Chunks <- AllChunks
    Sizes <- AllSizes
SPECIFICATION Spec
INVARIANT Fifo
PROPERTY ImplementsReliableStream
