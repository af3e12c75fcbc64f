SPECIFICATION Spec
CONSTANTS
    Severities <- MCSeverities
    MaxOwn = 3
    MaxExtra = 1
    Commands <- OnlyServer
INVARIANT
    PostureShown
CHECK_DEADLOCK FALSE
