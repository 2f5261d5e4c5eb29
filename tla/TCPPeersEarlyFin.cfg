CONSTANTS
    W = 16
    U16 = 8
    MAX_PAYLOAD_SIZE = 1
    RT_TIMEOUT = 1
    MAX_RETX_ATTEMPTS = 2
    LINGER_FACTOR = 4
    Byte = {"a", "b", "c"}
    RecvCapacity = 2
    SendCapacity = 2
    Texts <- ClientWrites
    MaxWritten = 2
    MaxInFlight = 2
    MaxFaults = 0
    Reorders = TRUE
    Timely = TRUE
    Patient = FALSE
    Aborters = {}
SPECIFICATION Spec
INVARIANT EofMeansAll
