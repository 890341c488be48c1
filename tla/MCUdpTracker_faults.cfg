SPECIFICATION FairSpec
CONSTANTS
    Schemes = {"udp", "http", "other"}
    PollFreq = 2
    Forces = {FALSE, TRUE}
    Ids = {id1, id2}
    Junk = junk
    Peers = {p1, p2}
    ErrorSizes <- Sizes
    MaxRequests = 3
    MaxLoss = 1
    MaxDup = 1
    MaxErrors = 1
CHECK_DEADLOCK FALSE
INVARIANTS
    TypeOK
    BlockedOnlyByLoss
    InStep
    AnnouncesIssuedId
    FoundListed
PROPERTIES
    StopEnds
    ForcedStopEnds
