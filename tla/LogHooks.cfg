SPECIFICATION Spec
CONSTANTS
    Threads = {t1, t2, t3}
    Levels = {1, 2}
    null = null
INVARIANTS
    PairObserved
CHECK_DEADLOCK FALSE
