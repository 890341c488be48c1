SPECIFICATION Spec
CONSTANTS
    NPeers = 2
    Writers = {w1, w2}
    Bitfields <- MCBitfields
    ByteBits = 2
    MaxMessages = 3
SYMMETRY Symmetry
INVARIANTS
    TypeOK
    UnsafeOnlyWhenReplaced
    NoPhantomPieces
    CountsStored
CHECK_DEADLOCK FALSE
