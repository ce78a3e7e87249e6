---------------------------- MODULE UnitRelation ----------------------------
(***************************************************************************)
(* The relations a unit file may declare between two units, their inverses *)
(* and the atoms the job engine asks for (core/lib/unit/deps.rs,           *)
(* core/bin/unit/base).                                                    *)
(***************************************************************************)
\* unit_relation_to_inverse, one pair per relation and inverse.
InversePairs ==
    {<<"Requires", "RequiresBy">>, <<"Requisite", "RequisiteOf">>,
     <<"Wants", "WantsBy">>, <<"BindsTo", "BoundBy">>,
     <<"PartOf", "ConsistsOf">>, <<"UpHolds", "UpHeldBy">>,
     <<"Conflicts", "ConflictedBy">>, <<"Before", "After">>,
     <<"OnSuccess", "OnSuccessOf">>, <<"OnFailure", "OnFailureOf">>,
     <<"Triggers", "TriggeredBy">>,
     <<"PropagatesReloadTo", "ReloadPropagatedFrom">>,
     <<"PropagatesStopTo", "StopPropagatedFrom">>,
     <<"JoinsNameSpaceOf", "JoinsNameSpaceOf">>,
     <<"References", "ReferencedBy">>, <<"InSlice", "SliceOf">>}

UnitRelations == UNION {{p[1], p[2]} : p \in InversePairs}

unit_relation_to_inverse(r) ==
    CHOOSE i \in UnitRelations : <<r, i>> \in InversePairs \/ <<i, r>> \in InversePairs

\* The atoms the job engine and the load queue use.
unit_relation_from_unique_atom(atom) ==
    CASE atom = "PullInStart" -> {"Requires", "BindsTo"}
      [] atom = "PullInStartIgnored" -> {"Wants", "UpHolds"}
      [] atom = "PullInVerify" -> {"Requisite"}
      [] atom = "PullInStop" -> {"Conflicts"}
      [] atom = "PullInStopIgnored" -> {"ConflictedBy"}
      [] atom = "RetroActiveStartReplace" -> {"Requires", "BindsTo", "UpHolds"}
      [] atom = "RetroActiveStartFail" -> {"Wants"}
      [] atom = "RetroActiveStopOnStart" -> {"Conflicts", "ConflictedBy"}
      [] atom = "RetroActiveStopOnStop" -> {"BoundBy", "PropagatesStopTo"}
      [] atom = "PropagateStartFailure" -> {"RequiresBy", "RequisiteOf", "BoundBy"}
      [] atom = "PropagateStopFailure" -> {"ConflictedBy"}
      [] atom = "PropagateStop" -> {"RequiresBy", "RequisiteOf", "BoundBy", "ConsistsOf",
                                    "PropagatesStopTo"}
      [] atom = "PropagateRestart" -> {"RequiresBy", "RequisiteOf", "BoundBy", "ConsistsOf"}
      [] atom = "TriggeredBy" -> {"TriggeredBy"}
      [] atom = "AddDefaultTargetDependencyQueue" -> {"Requires", "Requisite", "Wants", "BindsTo",
                                                      "PartOf", "UpHolds"}
      [] atom = "DefaultTargetDependencies" -> {"RequiresBy", "RequisiteOf", "WantsBy",
                                                "BoundBy", "UpHeldBy"}
      [] OTHER -> {atom}   \* Before, After, OnSuccess, OnFailure, PropagatesReloadTo
=============================================================================
