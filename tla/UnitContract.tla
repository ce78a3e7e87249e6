---------------------------- MODULE UnitContract ----------------------------
(***************************************************************************)
(* What the job manager may expect of a unit (Unit::start, stop, reload of *)
(* core/bin/unit/entry/uentry.rs and the unit types below them): what an   *)
(* operation answers, and the state changes the unit reports, in order,    *)
(* with the flags of UnitNotifyFlags.  The job manager is checked against  *)
(* every unit that keeps to it; the service is checked to keep to it.      *)
(***************************************************************************)
EXTENDS JobEntry

Note(ns, flags) == [ns |-> ns, flags |-> flags]

Answer(ret, notes) == [ret |-> ret, notes |-> notes]

\* enter_dead of a service that is going to be restarted reports twice.
restart_notes(ns) == <<Note(ns, {"will_auto_restart"}), Note("Activating", {})>>

start_notes ==
    {<<Note(ns, {})>> : ns \in {"Activating", "Active", "DeActivating", "Failed", "InActive"}}
        \cup {restart_notes("Failed")}

unit_start(st) ==
    CASE is_active_or_reloading(st) -> {Answer("EAlready", <<>>)}
      [] st \in {"Maintenance", "DeActivating"} -> {Answer("EAgain", <<>>)}
      [] OTHER -> {Answer("Ok", n) : n \in start_notes
                                         \cup (IF st = "Activating" THEN {<<>>} ELSE {})}
                    \cup {Answer("EFailed", <<>>), Answer("EFailed", <<Note("Failed", {})>>)}

\* A unit that is starting may be told to stop and ask to be stopped again.
unit_stop(st, force) ==
    CASE st \in {"InActive", "Failed"} /\ ~force -> {Answer("EAlready", <<>>)}
      [] st = "DeActivating" -> {Answer("Ok", <<>>)}
                                  \cup {Answer("Ok", <<Note(ns, {})>>) : ns \in {"DeActivating", "InActive", "Failed"}}
      [] OTHER -> {Answer("Ok", <<Note(ns, {})>>) : ns \in {"DeActivating", "InActive", "Failed"}}
                    \cup (IF st = "Activating"
                          THEN {Answer("EAgain", <<Note(ns, {})>>) : ns \in {"DeActivating", "InActive", "Failed"}}
                          ELSE {})

\* A reload that is not supported is reported as a change to the same state.
unit_reload(st) ==
    CASE st = "Reloading" -> {Answer("EAgain", <<>>), Answer("EBadR", <<>>)}
      [] st = "Active" -> {Answer("Ok", <<Note(ns, {})>>) : ns \in {"Reloading", "Active", "DeActivating"}}
                            \cup {Answer("Ok", <<Note("Active", {"reload_failure"})>>),
                                  Answer("EFailed", <<>>), Answer("EBadR", <<>>)}
      [] OTHER -> {Answer("ENoExec", <<>>), Answer("EBadR", <<>>)}

unit_verify(st) ==
    {Answer(CASE is_active_or_reloading(st) -> "EAlready"
              [] st = "Activating" -> "EAgain"
              [] OTHER -> "EBadR", <<>>)}

job_trigger_unit(job, st) ==
    CASE job.rkind = "Start" -> unit_start(st)
      [] job.rkind = "Stop" -> unit_stop(st, "force" \in job.attr)
      [] job.rkind = "Reload" -> unit_reload(st)
      [] job.rkind = "Verify" -> unit_verify(st)
      [] OTHER -> {Answer("EAlready", <<>>)}

\* What a unit reports by itself, from its processes, timers and mounts.
unit_changes(st) ==
    LET restarts == {restart_notes("InActive"), restart_notes("Failed")}
        to(S) == {<<Note(ns, {})>> : ns \in S}
    IN  CASE st = "InActive" -> to({"Active", "InActive", "Failed"}) \cup restarts
          [] st = "Failed" -> to({"Active", "Failed"}) \cup restarts
          [] st = "Activating" ->
                to({"Activating", "Active", "DeActivating", "InActive", "Failed"}) \cup restarts
          [] st = "Active" -> to({"Active", "DeActivating", "InActive", "Failed"}) \cup restarts
          [] st = "Reloading" ->
                to({"Active", "DeActivating", "InActive", "Failed"}) \cup restarts
                    \cup {<<Note("Active", {"reload_failure"})>>}
          [] OTHER -> to({"DeActivating", "InActive", "Failed"}) \cup restarts
=============================================================================
