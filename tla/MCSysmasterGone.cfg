CONSTANTS
    Sysmasters = {"s1", "s2", "s3", "s4"}
    Orphans = {"o1"}
    TimeCnt = 2
    MaxFaults = 3
    MaxBacklog = 2
SPECIFICATION InitSpec
PROPERTY RestartedWhenItExits
CHECK_DEADLOCK FALSE
