SPECIFICATION Spec
INVARIANTS DeletedIsGone
CONSTANTS
    Source <- MCSource
    EventType <- MCEventType
    Priority <- MCPriority
    Conf <- SimpleConf
    Pid = {1, 2, 3}
    MaxPending = 1
CHECK_DEADLOCK FALSE
