SPECIFICATION BencodeSpec
CONSTANTS
    Chars <- MCChars
    Texts <- MCTexts
    Beyond = {"e", ":", "0", "nul"}
    IntMax = 31
CHECK_DEADLOCK FALSE
INVARIANTS
    FollowsGrammar
    SpansTile
    WidthBounds
    ReadsBack
PROPERTY ParseEnds
