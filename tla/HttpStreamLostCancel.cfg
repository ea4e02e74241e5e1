SPECIFICATION Spec
CONSTANTS
    c1 = c1
    Callers = {c1}
    Loops = {1}
    MaxOpens = 1
    Exceptions = {}
PROPERTIES
    DisconnectFollows
CHECK_DEADLOCK FALSE
