----------------------------- MODULE MCJobTable -----------------------------
(***************************************************************************)
(* Small job tables.  A scene is what may be committed: one behaviour      *)
(* plays one scene, and the units that are not in it have no jobs.         *)
(***************************************************************************)
EXTENDS JobOrder

CONSTANTS a, b, c, Scenes

VARIABLE scene

Scene(stages, modes) == [stages |-> stages, modes |-> modes]

MCOrder == {<<a, b>>}
MCRank == [u \in Unit |-> IF u = b THEN 1 ELSE 0]

\* Two units, a Before b, up to one job for each.
Pair == {[u \in Unit |-> IF u = a THEN k ELSE IF u = b THEN l ELSE {}] :
            k, l \in {{}, {"Start"}, {"Stop"}, {"Restart"}, {"Verify"}}}

\* One unit, up to two kinds at a time.
Alone == {[u \in Unit |-> IF u = c THEN {k, l} ELSE {}] : k, l \in BasicKind}

MCStage == Pair \cup Alone

AllScenes ==
    {Scene(Pair, {"Replace"}),
     Scene(Alone, {"Fail", "Replace", "ReplaceIrreversible", "IgnoreDependencies"})}
FlushScene == {Scene(Pair, {"Replace", "Flush"})}

SceneNext ==
    /\ \/ \E stage \in scene.stages, mode \in scene.modes : CommitStage(stage, mode)
       \/ Rest
    /\ UNCHANGED scene

SceneInit == Init /\ scene \in Scenes

SceneSpec == SceneInit /\ [][SceneNext]_<<jobs, scene>>
=============================================================================
