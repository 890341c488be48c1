SPECIFICATION FairSpec
CONSTANTS
    Finders = {f1}
    Workers = {w1}
    Main = main
    IPs = {ip1, ip2}
    NotAnIP = notAnIp
    NoThread = noThread
    MaxPeers = 2
    FdLimit = 2
PROPERTY SearchFinds
