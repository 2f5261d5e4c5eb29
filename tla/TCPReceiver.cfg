CONSTANTS
    W = 8
    Byte = {"a", "b", "c"}
    Capacity = 3
    Chunks <- Three
    Sizes <- One
    MaxWritten = 18
    EarlyFin = FALSE
    ISN = 6
SPECIFICATION Spec
INVARIANT AckExact
PROPERTIES EdgeNeverRetreats ImplementsReassembler
