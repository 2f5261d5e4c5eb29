CONSTANTS
    W = 16
    U16 = 8
    MAX_PAYLOAD_SIZE = 1
    RT_TIMEOUT = 1
    MAX_RETX_ATTEMPTS = 1
    LINGER_FACTOR = 2
    Byte = {"a", "b", "c"}
    RecvCapacity = 2
    SendCapacity = 2
    Texts <- BothWrite
    MaxWritten = 1
    MaxInFlight = 2
    MaxFaults = 0
    Reorders = FALSE
    Timely = FALSE
    Patient = FALSE
    Aborters = {"server"}
SPECIFICATION FairSpec
INVARIANT CleanFinish
PROPERTIES InactiveForGood ResetReachesPeer
\* two connections that have finished or given up stop, and so does the peer of a destroyed one
CHECK_DEADLOCK FALSE
