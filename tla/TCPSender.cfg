CONSTANTS
    W = 16
    U16 = 8
    MAX_PAYLOAD_SIZE = 2
    RT_TIMEOUT = 1
    Byte = {"a", "b", "c"}
    Capacity = 3
    Chunks <- Texts
    MaxWritten = 4
    Windows = {0, 1, 4}
    MaxRetx = 2
    ISN = 14
SPECIFICATION FairSpec
INVARIANTS SentGenuine Tiling TimerMatches Backoff FlowControl
PROPERTY Drains
