SPECIFICATION Spec
CONSTANTS
    Schemes = {"udp"}
    PollFreq = 2
    Forces = {FALSE}
    Ids = {id1, id2}
    Junk = junk
    Peers = {p1, p2}
    ErrorSizes <- Sizes
    MaxRequests = 3
    MaxLoss = 0
    MaxDup = 0
    MaxErrors = 0
CHECK_DEADLOCK FALSE
INVARIANT NoCrash
