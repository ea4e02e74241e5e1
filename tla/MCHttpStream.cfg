SPECIFICATION ServiceSpec
CONSTANTS
    c1 = c1
    c2 = c2
    Callers = {c1, c2}
    Loops = {1, 2}
    MaxOpens = 3
    OpensOnService = 2
    MaxShutdowns = 1
    ThreadCounts = {0}
    Exceptions = {"std", "other"}
INVARIANTS
    TypeOK
    OneLoop
    SessionsInOrder
    EndedWhenReported
    ConnectedHasSession
    QuietWhenStopped
PROPERTIES
    EndsOwnGeneration
    CancelSparesNext
    OneCallbackAfterClose
    DisconnectFollowsLate
    OpenServedLate
CHECK_DEADLOCK FALSE

