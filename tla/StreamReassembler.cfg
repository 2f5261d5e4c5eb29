CONSTANTS
    W = 4
    Byte = {a, b}
    Capacity = 3
    MaxWritten = 5
    EarlyEof = FALSE
    Chunks <- OneByte
    Sizes <- OneOrAll
SPECIFICATION FairSpec
INVARIANTS
    Faithful
    WithinCapacity
    Eager
    EndsComplete
PROPERTIES
    ImplementsReliableStream
    Completes
