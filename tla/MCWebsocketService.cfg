SPECIFICATION Spec
CONSTANTS
    u1 = u1
    u2 = u2
    t1 = t1
    t2 = t2
    Users = {u1, u2}
    Threads = {t1, t2}
    NoThread = NoThread
    MaxCalls = 4
INVARIANTS
    TypeOK
    ExclusiveOwner
    ThreadHeld
    ShutdownDone
PROPERTIES
    NoRevival
    ShutdownReturns
    RequestedStopEnds
    BusyPollTakesEffect
CHECK_DEADLOCK FALSE
