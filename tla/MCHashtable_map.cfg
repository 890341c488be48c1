SPECIFICATION Spec
CONSTANTS
    Keys = {"k1", "k2", "k3", "k4"}
    Vals = {v1, v2}
    NoVal = noVal
    Hash <- Hashes
    InitCap = 2
    MaxCap = 8
    MaxDrift = 1
INVARIANTS
    WellPlaced
    IterComplete
PROPERTY IsDictionary
