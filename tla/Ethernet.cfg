CONSTANTS
    router = router
    dm42 = dm42
    dm43 = dm43
    m1 = m1
    m2 = m2
    m3 = m3
    m4 = m4
    IP = {router, dm42, dm43}
    MAC = {m1, m2, m3, m4}
    ETHERNET_BROADCAST = broadcast
    DEFAULT_ARP_TTL = 3
    DEFAULT_ARP_TIMEOUT = 2
    Flows <- TwoFlows
    FirstMAC <- Macs
    Clocks = {dm42, dm43}
    Ticks = {1}
    MaxAsked <- Asks
    MaxQueue = 1
    Restarting = {dm43}
    Spare <- SpareMac
SPECIFICATION FairSpec
INVARIANTS
    Coherent
    InOrder
    RequestsSpaced
    StaleBounded
PROPERTY Released
CHECK_DEADLOCK FALSE
