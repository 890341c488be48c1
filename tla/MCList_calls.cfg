SPECIFICATION Spec
CONSTANTS
    Threads = {t1, t2}
    Vals = {a, b}
    a = a
    b = b
    NoThread = noThread
    NoVal = noVal
    Truncating = {t1, t2}
    Starts <- Lists
    MaxAdded = 2
    MaxNodes = 6
SYMMETRY Symmetry
CHECK_DEADLOCK FALSE
INVARIANTS
    TypeOK
    Linked
    CrashNeedsTruncate
PROPERTIES
    GetsElement
    IsSequence
