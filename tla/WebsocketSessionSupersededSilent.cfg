SPECIFICATION Spec
CONSTANT MaxSessions = 2
PROPERTY SupersededSilent
CHECK_DEADLOCK FALSE
