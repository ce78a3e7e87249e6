SPECIFICATION SceneSpec
INVARIANT RestIsEmpty
CONSTANTS
    a = a
    b = b
    c = c
    d = d
    e = e
    f = f
    g = g
    h = h
    x = x
    y = y
    z = z
    Scenes <- OneScene
    Unit = {a, b}
    Deps <- RequiresDeps
    Order <- RequiresOrder
    Stage <- NoStage
    Mode = {"Replace"}
    IgnoreOnIsolate = {}
    LoadState <- AllLoaded
    Perpetual = {}
    OnFailureJobMode <- AllReplace
    OnSuccessJobMode <- AllReplace
    Request = {"Start", "Stop"}
    UnitState = {"InActive", "Activating", "Active", "DeActivating", "Failed"}
    Ordering <- OneOrder
    MaxRequest = 2
