SPECIFICATION HttpSpec
CONSTANTS
    s1 = s1
    s2 = s2
    Requests = {1, 2}
    Calls = {}
    TlsCalls = {}
    Stoppers = {s1}
    TlsRequests = {}
    Programs = {{1, 2, s1}}
    Slots = 0
    CallbackCounts = {0, 1}
PROPERTY LateRequestsReported
CHECK_DEADLOCK FALSE
