CONSTANTS
    W = 6
    Server <- server
    Clients <- clients
    MACs <- macs
    Segments <- segments
    Flips = {1, 128}
    Samples <- samples
SPECIFICATION WireSpec
INVARIANTS
    Closest
    Genuine
    Delivers
    HeaderVerdict
    OnePeer
\* both counters stop at the end of the 64-bit range
CHECK_DEADLOCK FALSE
