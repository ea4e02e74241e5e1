SPECIFICATION Spec
CONSTANTS
    s = s
    p1 = p1
    p2 = p2
    Senders = {s, p1, p2}
    Service = s
    MaxRecords = 3
INVARIANTS
    TypeOK
    OneChain
    WrittenInOrder
    NoStrandedRecord
PROPERTIES
    EveryRecordWritten
    ImplementsSendQueue
CHECK_DEADLOCK FALSE
