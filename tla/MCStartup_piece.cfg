SPECIFICATION Spec
CONSTANTS
    Docs <- MCDocs
    Options <- MCOptions
    Urls <- MCUrls
    None = none
    Unset = unset
    u1 = u1
    u2 = u2
    u3 = u3
    name = name
CHECK_DEADLOCK FALSE
INVARIANT PieceLengthKnown
