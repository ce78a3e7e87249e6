CONSTANTS
    Sysmasters = {"s1", "s2", "s3", "s4"}
    Orphans = {"o1"}
    TimeCnt = 2
    MaxFaults = 3
    MaxBacklog = 2
    unit_file <- MCUnitFile
    Targets = {"T", "S"}
    preset_file <- MCPreset
    MaxSaves = 2
    MaxBoots = 3
    Configs <- MCConfigs
    Worlds <- MCWorlds
    MaxStarts = 2
    Pids = {1, 2, 3}
    ExecScenes <- MCExecScenes
    LoopScenes <- MCSameLoopScenes
    MaxFds = 3
    MaxPending = 2
    EmergencyConfs <- MCEmergencyConfs
    Processes = {"p1", "p2"}
    MaxStartups = 1
    MaxFailures = 1
    ChildPids = {"c1", "c2", "c3"}
    MaxSleeps = 2
SPECIFICATION MCSpec
INVARIANT AllAreWaiting
CHECK_DEADLOCK FALSE
