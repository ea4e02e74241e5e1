SPECIFICATION HttpSpec
CONSTANTS
    s1 = s1
    s2 = s2
    Requests = {1, 2}
    Calls = {3, 4, 5}
    TlsCalls = {3}
    Stoppers = {s1, s2}
    TlsRequests = {1}
    Programs = {{1, 2, s1}, {1, s1, s2}, {3, 4, 5}}
    Slots = 2
    CallbackCounts = {0, 1}
INVARIANTS
    OneOwner
    AbandonedSilent
    ContextExclusive
PROPERTIES
    RequestsReported
    NeverHeldUp
    SyncAnswered
CHECK_DEADLOCK FALSE
