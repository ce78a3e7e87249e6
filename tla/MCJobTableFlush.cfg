SPECIFICATION SceneSpec
CONSTANTS
    a = a
    b = b
    c = c
    Scenes <- FlushScene
    Unit = {a, b, c}
    Order <- MCOrder
    Rank <- MCRank
    MaxRank = 1
    Stage <- MCStage
    Mode = {"Replace", "Flush"}
    IgnoreOnIsolate = {}
INVARIANT NoPanic
