SPECIFICATION SceneSpec
CONSTANTS
    a = a
    b = b
    c = c
    Scenes <- AllScenes
    Unit = {a, b, c}
    Order <- MCOrder
    Rank <- MCRank
    MaxRank = 1
    Stage <- MCStage
    Mode = {"Fail", "Replace", "ReplaceIrreversible", "IgnoreDependencies"}
    IgnoreOnIsolate = {}
INVARIANTS NoPanic NoForgottenJob NoWaitCycle
PROPERTY StopsAreKept
