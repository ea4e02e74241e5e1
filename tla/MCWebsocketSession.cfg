SPECIFICATION Spec
CONSTANT MaxSessions = 2
INVARIANTS
    TypeOK
    BufferExclusive
    CallbackOrder
    NewestOnly
PROPERTIES
    ClosedStaysClosed
    CloseEnds
    EndReportedIfKept
    HandoffHappens
CHECK_DEADLOCK FALSE
