CONSTANTS
    IP <- Addresses
    MAC <- Addresses
    ETHERNET_BROADCAST = broadcast
    DEFAULT_ARP_TTL = 3
    DEFAULT_ARP_TIMEOUT = 2
    AddressBits = 4
    NoAddress = NoAddress
    Plan <- SmallPlan
    Internet <- SmallInternet
    DefaultRoute = TRUE
    Flows <- BothSend
    TTLs = {3}
    MaxSent = 2
    MaxLost = 1
    MaxQueue = 0
SPECIFICATION FairSpec
INVARIANTS
    RightHost
PROPERTIES
    NoneCirculates
    Arrives
CHECK_DEADLOCK FALSE
