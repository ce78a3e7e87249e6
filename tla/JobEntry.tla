------------------------------ MODULE JobEntry ------------------------------
(***************************************************************************)
(* One job of the job engine (core/bin/job/entry.rs, rentry.rs): the kinds *)
(* a request may have, the run-kind that a composite job currently         *)
(* executes, how a unit's state change decides the job that is running on  *)
(* it, and how two jobs of ordered units compare.                          *)
(*                                                                         *)
(* A job identifier only serves as a table key in the code; here a job is  *)
(* its kind, its run-kind and the set of attributes that are true.         *)
(***************************************************************************)
EXTENDS Integers

BasicKind == {"Start", "Stop", "Reload", "Restart", "Verify", "Nop"}
CompoundKind == {"TryReload", "TryRestart", "ReloadOrStart"}

\* struct JobAttr: four booleans that are only ever or-ed together.
JobAttr == {"ignore_order", "irreversible", "force", "no_relevancy"}

JobMode == {"Fail", "Replace", "ReplaceIrreversible", "Isolate", "Flush",
            "IgnoreDependencies", "IgnoreRequirements", "Trigger"}

JobResult == {"Done", "Cancelled", "TimeOut", "Failed", "Dependency", "Skipped",
              "Invalid", "Assert", "UnSupported", "Collected", "Once", "Merged"}

UnitActiveState == {"Active", "Reloading", "InActive", "Failed", "Activating",
                    "DeActivating", "Maintenance"}

is_active_or_reloading(st) == st \in {"Active", "Reloading"}

\* What a unit operation returns: Ok, or one of the errors the engine maps.
\* EFailed stands for EFailed, EInval, EBusy, ENoent and ECanceled.
UnitActionResult == {"Ok", "EAgain", "EAlready", "EComm", "EBadR", "ENoExec",
                     "EProto", "EOpNotSupp", "ENolink", "EStale", "EFailed", "EOther"}

job_rkind_new(kind) == IF kind = "Restart" THEN "Stop" ELSE kind

job_rkind_map(kind, last_rkind) ==
    IF kind = "Restart" /\ last_rkind \in {"Stop", "Start"} THEN "Start" ELSE kind

\* Job::new followed by init_attr(mode).
job_new(kind, attr) == [kind |-> kind, rkind |-> job_rkind_new(kind), attr |-> attr]

init_attr(kind, mode) ==
    (IF mode = "IgnoreDependencies" \/ kind = "Nop" THEN {"ignore_order"} ELSE {})
        \cup (IF mode = "ReplaceIrreversible" THEN {"irreversible"} ELSE {})

JobType == [kind : BasicKind, rkind : BasicKind, attr : SUBSET JobAttr]

NoJob == [kind |-> "none", rkind |-> "none", attr |-> {}]

\* Job::finish: only a successful end may move a composite job to its next
\* run-kind, and then the job stays on the unit.
finish_is_retry(job, result) ==
    result = "Done" /\ job_rkind_map(job.kind, job.rkind) # job.rkind

update_runkind(job) == [job EXCEPT !.rkind = job_rkind_map(job.kind, job.rkind)]

\* A compound kind is resolved against the unit's state when it is requested.
job_merge_unit(kind, st) ==
    CASE kind = "TryReload" -> IF is_active_or_reloading(st) THEN "Reload" ELSE "Nop"
      [] kind = "TryRestart" -> IF is_active_or_reloading(st) THEN "Restart" ELSE "Nop"
      [] kind = "ReloadOrStart" -> IF is_active_or_reloading(st) THEN "Reload" ELSE "Start"
      [] OTHER -> kind

(***************************************************************************)
(* job_process_unit: what the new state of the unit says about the job     *)
(* running on it.  "none" is the code's None: the job goes on.             *)
(***************************************************************************)
job_process_unit_start(ns) ==
    CASE ns = "Active" -> [result |-> "Done", generated |-> TRUE]
      [] ns = "Activating" -> [result |-> "none", generated |-> TRUE]
      [] ns = "InActive" -> [result |-> "Done", generated |-> FALSE]
      [] ns = "Failed" -> [result |-> "Failed", generated |-> FALSE]
      [] OTHER -> [result |-> "none", generated |-> FALSE]

job_process_unit_stop(ns) ==
    CASE ns \in {"InActive", "Failed"} -> [result |-> "Done", generated |-> TRUE]
      [] ns = "DeActivating" -> [result |-> "none", generated |-> TRUE]
      [] OTHER -> [result |-> "Failed", generated |-> FALSE]

job_process_unit_reload(ns, reload_failure) ==
    CASE ns = "Active" -> [result |-> IF reload_failure THEN "Failed" ELSE "Done",
                           generated |-> TRUE]
      [] ns = "Reloading" -> [result |-> "none", generated |-> TRUE]
      [] ns = "InActive" -> [result |-> "Done", generated |-> FALSE]
      [] ns = "Failed" -> [result |-> "Failed", generated |-> FALSE]
      [] OTHER -> [result |-> "none", generated |-> FALSE]

\* The run-kinds job_process_unit has no answer for: it reaches unreachable!().
is_process_unreachable(rkind) == rkind \notin {"Start", "Stop", "Reload"}

job_process_unit(rkind, ns, reload_failure) ==
    CASE rkind = "Start" -> job_process_unit_start(ns)
      [] rkind = "Stop" -> job_process_unit_stop(ns)
      [] rkind = "Reload" -> job_process_unit_reload(ns, reload_failure)
      [] OTHER -> [result |-> "none", generated |-> FALSE]

\* "none": the job stays triggered; "again": it is triggered again later.
job_trigger_err_to_result(ret) ==
    CASE ret = "Ok" -> "none"
      [] ret = "EAgain" -> "again"
      [] ret \in {"EAlready", "EComm"} -> "Done"
      [] ret = "EBadR" -> "Skipped"
      [] ret = "ENoExec" -> "Invalid"
      [] ret = "EProto" -> "Assert"
      [] ret = "EOpNotSupp" -> "UnSupported"
      [] ret = "ENolink" -> "Dependency"
      [] ret = "EStale" -> "Once"
      [] ret \in {"EFailed", "EInval", "EBusy", "ENoent", "ECanceled"} -> "Failed"
      [] OTHER -> "Skipped"

(***************************************************************************)
(* Order between jobs of two units related by After or Before.  A positive *)
(* result makes job a wait for job b.                                      *)
(***************************************************************************)
job_order_compare_swapped(rk_a, rk_b, atom) ==
    CASE rk_a = "Nop" \/ rk_b = "Nop" -> 0
      [] atom = "After" -> IF rk_a = "Stop" THEN -1 ELSE 1
      [] OTHER -> IF rk_a = "Stop" THEN 1 ELSE -1

job_order_compare(rk_a, rk_b, atom) ==
    CASE rk_a = "Nop" \/ rk_b = "Nop" -> 0
      [] atom = "After" -> IF rk_a = "Stop" THEN -1 ELSE 1
      [] OTHER -> IF rk_b = "Stop" THEN 1 ELSE -1

is_order_with(a, b, atom) ==
    IF "ignore_order" \in a.attr \cup b.attr
    THEN 0
    ELSE job_order_compare(a.rkind, b.rkind, atom)
=============================================================================
