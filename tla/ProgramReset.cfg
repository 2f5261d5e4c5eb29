CONSTANTS
    W = 16
    U16 = 8
    MAX_PAYLOAD_SIZE = 2
    RT_TIMEOUT = 1
    MAX_RETX_ATTEMPTS = 1
    LINGER_FACTOR = 1
    PipeSize = 1
    BufferSize = 1
    RecvCapacity = 3
    SendCapacity = 1
    Text <- OneByte
    PeerText <- TwoBytes
    Unclean = FALSE
SPECIFICATION Spec
INVARIANT PartialWriteHandled
CHECK_DEADLOCK FALSE
