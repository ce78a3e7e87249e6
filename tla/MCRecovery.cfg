CONSTANTS
    LoadScenes <- MCLoadScenes
    Scenes <- MCScenes
    Unit = {"a", "b"}
    Order <- MCOrder
    Stage <- MCStage
    Mode = {"Replace"}
    IgnoreOnIsolate = {}
    JobTimeoutSec = {"b"}
    JobTimeoutAction = {"b"}
    MaxCalls = 2
    MaxRequests = 2
    MaxFaults = 1
    Source = {1, 2}
    EventType <- MCEventType
    Priority <- MCPriority
    SocketConf <- MCSocketConf
    SocketPid = {1, 2}
SPECIFICATION MCSpec
INVARIANTS
    LoadSound
    NoFdLeak
    InputsKept
    JobsRecovered
    SocketSound
PROPERTY
    GoesOn
CHECK_DEADLOCK FALSE
