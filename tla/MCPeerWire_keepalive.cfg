SPECIFICATION Spec
CONSTANTS
    Messages <- Few
    HandshakeLen = 3
    CheckedLen = 2
    Garbage = {0, 5}
    Huge = 100000
    MaxSent = 2
    MaxFaults = 0
CHECK_DEADLOCK FALSE
INVARIANT KeepaliveRead
