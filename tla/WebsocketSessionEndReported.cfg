SPECIFICATION Spec
CONSTANT MaxSessions = 2
PROPERTY EndReported
CHECK_DEADLOCK FALSE
