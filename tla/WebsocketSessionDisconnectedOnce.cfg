SPECIFICATION Spec
CONSTANT MaxSessions = 2
INVARIANT DisconnectedOnce
CHECK_DEADLOCK FALSE
