SPECIFICATION FairSpec
PROPERTY StopEnds
INVARIANTS ProcessesMatch GetsThere StaysDown KeepsContract 
CONSTANTS
    Source <- MCSource
    EventType <- MCEventType
    Priority <- MCPriority
    Conf <- AllConf
    Pid = {1, 2, 3}
    MaxPending = 1
CHECK_DEADLOCK FALSE
