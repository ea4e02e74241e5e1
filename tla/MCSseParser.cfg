SPECIFICATION Spec
CONSTANTS
    d = d
    x = x
    colon = colon
    space = space
    cr = cr
    lf = lf
    Characters <- MCCharacters
    data_field <- MCDataField
    Pieces <- MCPieces
    MaxPieces = 5
INVARIANTS
    EventsMatch
CHECK_DEADLOCK FALSE
