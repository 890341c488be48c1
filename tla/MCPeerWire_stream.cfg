SPECIFICATION FairSpec
CONSTANTS
    Messages <- All
    HandshakeLen = 3
    CheckedLen = 2
    Garbage = {0, 5}
    Huge = 100000
    MaxSent = 2
    MaxFaults = 1
CHECK_DEADLOCK FALSE
INVARIANTS
    InSync
    FramesWhole
    FlagsFollowSender
PROPERTY AllRead
