SPECIFICATION SceneSpec
INVARIANT NoPanic
INVARIANT WakesUp
INVARIANT ConflictsExclude
PROPERTY StartFailureFalls
PROPERTY BindsToFollowsStop
PROPERTY OnFailureServed
PROPERTY RestartStarts
PROPERTY Drains
CONSTANTS
    a = a
    b = b
    c = c
    d = d
    e = e
    f = f
    g = g
    h = h
    x = x
    y = y
    z = z
    Scenes <- AllScenes
    Unit = {a, b, c, d, e, f, g, h, x, y, z}
    Deps <- AllDeps
    Order <- AllOrder
    Stage <- NoStage
    Mode = {"Replace"}
    IgnoreOnIsolate = {}
    LoadState <- AllLoaded
    Perpetual = {}
    OnFailureJobMode <- AllReplace
    OnSuccessJobMode <- AllReplace
    Request = {"Start", "Stop"}
    UnitState = {"InActive", "Activating", "Active", "DeActivating", "Failed", "Reloading"}
    Ordering <- OneOrder
    MaxRequest = 2
