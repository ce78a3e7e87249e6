---------------------------- MODULE MCJobManager ----------------------------
(***************************************************************************)
(* Small unit files for the job manager.  A scene is a group of units that *)
(* no dependency links to the others, with the requests made of it, and    *)
(* whether they cease after MaxRequest of them: one behaviour plays one    *)
(* scene, and the other units are left alone.                              *)
(***************************************************************************)
EXTENDS JobManager

CONSTANTS a, b, c, d, e, f, g, h, x, y, z, Scenes, MaxRequest

VARIABLES scene, requests

Scene(units, asked, kinds) == [units |-> units, asked |-> asked, kinds |-> kinds, ceases |-> FALSE]
Ceasing(units, kinds) == [Scene(units, units, kinds) EXCEPT !.ceases = TRUE]

\* b needs a; c and d exclude each other; f follows e; g's failure starts h;
\* z needs y, which needs x.
AllDeps ==
    {<<b, "Requires", a>>, <<b, "After", a>>, <<c, "Conflicts", d>>,
     <<f, "BindsTo", e>>, <<f, "After", e>>, <<g, "OnFailure", h>>,
     <<y, "Requires", x>>, <<y, "After", x>>, <<z, "Requires", y>>, <<z, "After", x>>}
AllOrder == {<<a, b>>, <<e, f>>, <<x, y>>, <<x, z>>}
AllScenes ==
    {Scene({a, b}, {a, b}, {"Start", "Stop"}), Scene({c, d}, {c, d}, {"Start", "Stop"}),
     Scene({e, f}, {e, f}, {"Start"}), Scene({g, h}, {g, h}, {"Start"}),
     Scene({x, y, z}, {z}, {"Start"}),
     Ceasing({a, b}, {"Start", "Reload"}), Ceasing({a, b}, {"Restart", "Reload"})}

RequiresDeps == {<<b, "Requires", a>>, <<b, "After", a>>}
RequiresOrder == {<<a, b>>}
OneScene == {Scene(Unit, Unit, Request)}

AllLoaded == [u \in Unit |-> "Loaded"]
AllReplace == [u \in Unit |-> "Replace"]

\* Stages come from job_trans_expand here, not from a constant.
NoStage == {}

OneOrder == {FoldSet(LAMBDA u, s : Append(s, u), <<>>, Unit)}

\* A unit that is not asked to reload does not reload.
SceneNext ==
    /\ \/ /\ \E u \in scene.asked, kind \in scene.kinds : Exec(u, kind)
          /\ scene.ceases => requests < MaxRequest
          /\ requests' = IF scene.ceases THEN requests + 1 ELSE 0
       \/ /\ (\E u \in scene.units : TryFinish(u)) \/ Step
          /\ UNCHANGED requests
    /\ "Reload" \in scene.kinds \/ \A u \in scene.units : state'[u] # "Reloading"
    /\ UNCHANGED scene

\* A unit does not stay on its way for ever: its timeouts see to that.
UnitsSettle == \A u \in Unit : []<>(state[u] \in {"InActive", "Active", "Failed"})

SceneInit == MInit /\ scene \in Scenes /\ requests = 0

SceneSpec ==
    /\ SceneInit
    /\ [][SceneNext]_<<vars, scene, requests>>
    /\ LoopGoesOn /\ EventIsDispatched /\ UnitsSettle

\* Every start and reload comes to its end: when no more are requested, the
\* table is empty again and again, whatever the units do and in whatever order
\* they report it (manager.rs run, do_try_finish; table.rs process_relation).
Drains ==
    [](scene.kinds = {"Start", "Reload"} => <>(\A u \in scene.units : is_empty(jobs[u])))
=============================================================================
