SPECIFICATION FairSpec
CONSTANTS
    Finders = {f1}
    Workers = {w1, w2}
    Main = main
    IPs = {ip1}
    NotAnIP = notAnIp
    NoThread = noThread
    MaxPeers = 2
    FdLimit = 2
INVARIANTS
    TypeOK
    IteratorHoldsMutex
    ScanMissesNoNew
    ClaimSticks
    MonitorCount
PROPERTIES
    ListGrowsOnly
    InterruptExits
    NewPeerTried
