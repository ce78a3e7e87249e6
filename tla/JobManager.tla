----------------------------- MODULE JobManager -----------------------------
(***************************************************************************)
(* The job manager (core/bin/job/manager.rs): requests become transactions *)
(* on the table, a Defer event runs what is ready, and the state changes   *)
(* the units report end the jobs that run on them.                         *)
(*                                                                         *)
(*   state      the active state of every unit                             *)
(*   event      the Defer event of the manager is armed (OneShot)          *)
(*   up_ready   the table's record that something was ready                *)
(*   pc         "run" inside dispatch's loop, "idle" in the event loop     *)
(*                                                                         *)
(* The process has one thread: while pc is "run" no request and no event   *)
(* of a unit is handled.  The event has the lowest priority, so any number *)
(* of other events may be handled before it.  stage, running and text live *)
(* within one step and are not variables.                                  *)
(***************************************************************************)
EXTENDS JobTransaction, UnitContract

CONSTANTS Request,    \* the kinds the control commands ask for
          UnitState,  \* the active states units go through
          Ordering    \* orders the dependency table may list units in

ASSUME ManagerAssumption ==
    /\ Request \subseteq BasicKind \cup CompoundKind
    /\ UnitState \subseteq UnitActiveState /\ "InActive" \in UnitState
    /\ Ordering \subseteq {s \in [1 .. Cardinality(Unit) -> Unit] : IsInjective(s)}

VARIABLES state, event, up_ready, pc

vars == <<jobs, state, event, up_ready, pc>>

-----------------------------------------------------------------------------
(* Requests *)

job_trans_check_input(kind, mode) ==
    (mode = "Isolate" => kind = "Start") /\ (mode = "Trigger" => kind = "Stop")

build_stage(u, kind, mode, env) ==
    job_trans_affect(job_trans_expand(NewStage, u, kind, mode, env), u, mode, env)

is_stage_ok(t, s, mode) == s.err = "Ok" /\ job_trans_verify(t, s.kinds, mode)

is_exec_ok(t, u, kind, mode, env) ==
    job_trans_check_input(kind, mode) /\ is_stage_ok(t, build_stage(u, kind, mode, env), mode)

commit_stage(t, s, mode, env) ==
    IF is_stage_ok(t, s, mode)
    THEN commit(t, s.kinds, mode, {o \in Unit : is_active_or_reloading(env.st[o])})
    ELSE t

\* exec: nothing happens to the table unless every part succeeds.
exec(t, u, kind, mode, env) ==
    IF job_trans_check_input(kind, mode)
    THEN commit_stage(t, build_stage(u, kind, mode, env), mode, env)
    ELSE t

\* exec_on and do_notify: a target that is refused does not stop the others.
RECURSIVE exec_targets(_, _, _)

exec_targets(t, targets, env) ==
    IF targets = <<>> THEN t
    ELSE exec_targets(exec(t, Head(targets).unit, Head(targets).kind, Head(targets).mode, env),
                      Tail(targets), env)

-----------------------------------------------------------------------------
(* The end of a job *)

simulate_unit_notify(u, result, inside, env) ==
    IF inside /\ result # "Done" /\ OnFailureJobMode[u] = "Fail"
    THEN job_notify_result(u, "OnFailure", "Fail", env)
    ELSE <<>>

fallback_notify(t, u, rkind, env) ==
    LET units == in_order(fallback_units(t, u, rkind) \ {u}, env)
    IN  FlattenSeq([n \in DOMAIN units |->
                       simulate_unit_notify(units[n], "Dependency", TRUE, env)])

do_remove_relation(t, u, job, env) ==
    IF "no_relevancy" \in job.attr
    THEN exec(t, u, "Stop", "Replace", env)
    ELSE exec_targets(job_trans_fallback(t, u, job.rkind, env),
                      fallback_notify(t, u, job.rkind, env), env)

\* do_remove of the triggered job; job is what the caller knows of it.
do_remove(t, u, job, result, inside, env) ==
    CASE finish_is_retry(t[u].trigger, result) \/ result = "Done" ->
            t_finish_trigger(t, u, result)
      [] OTHER ->
            do_remove_relation(exec_targets(t_finish_trigger(t, u, result),
                                            simulate_unit_notify(u, result, inside, env), env),
                               u, job, env)

-----------------------------------------------------------------------------
(* A unit reports the change os -> ns *)

simulate_job_notify_deactivating(u, os, ns, env) ==
    CASE os \in {"InActive", "Failed"} /\ ns \in {"Active", "Activating"} ->
            notify_event_start(u, env)
      [] os \in {"Active", "Activating"} /\ ns = "DeActivating" -> notify_event_stop(u, env)
      [] OTHER -> <<>>

simulate_job_notify(u, os, ns, env) ==
    CASE os \in {"InActive", "Failed"} /\ ns \in {"Active", "Activating"} ->
            notify_event_start(u, env)
      [] os \in {"Active", "Activating"} /\ ns \in {"InActive", "DeActivating"} ->
            notify_event_stop(u, env)
      [] OTHER -> <<>>

unit_start_on_active(u, os, note, env) ==
    IF os = "Active" /\ note.ns = "Failed"
    THEN job_notify_result(u, "OnFailure", OnFailureJobMode[u], env) ELSE <<>>

\* A unit is not failed and inactive at once: one of the two at most applies.
unit_start_on(u, os, note, env) ==
    CASE "will_auto_restart" \in note.flags -> <<>>
      [] "will_auto_restart" \notin note.flags /\ note.ns # os /\ note.ns = "Failed" ->
            job_notify_result(u, "OnFailure", OnFailureJobMode[u], env)
      [] "will_auto_restart" \notin note.flags /\ note.ns = "InActive"
         /\ os \notin {"Failed", "InActive", "Maintenance"} ->
            job_notify_result(u, "OnSuccess", OnSuccessJobMode[u], env)
      [] OTHER -> <<>>

\* What the change means to the job that runs on u, if one does.
process_said(t, u, note) ==
    job_process_unit(t[u].trigger.rkind, note.ns, "reload_failure" \in note.flags)

process_trigger_noresume(t, u, note, env) ==
    IF ~is_trigger_some(t[u]) \/ t[u].pause \/ process_said(t, u, note).result = "none" THEN t
    ELSE do_remove(t, u, t[u].trigger, process_said(t, u, note).result, FALSE, env)

process_trigger(t, u, note, env) ==
    CASE ~is_trigger_some(t[u]) -> t
      [] is_trigger_some(t[u]) /\ t[u].pause -> resume_units(t, {u})
      [] OTHER ->
            IF is_process_unreachable(t[u].trigger.rkind) THEN [t EXCEPT ![u] = check(@, FALSE)]
            ELSE IF process_said(t, u, note).result = "none" THEN t
            ELSE do_remove(t, u, t[u].trigger, process_said(t, u, note).result, FALSE, env)

\* The change is explained by the job that runs on u.
is_generated(t, u, note) ==
    is_trigger_some(t[u]) /\ (t[u].pause \/ process_said(t, u, note).generated)

\* The trigger-notify that ends it calls UnitX.trigger, which has no body.
do_try_finish(t, u, os, note, env) ==
    exec_targets(process_trigger(t, u, note, env),
                 (IF is_generated(t, u, note) THEN <<>>
                  ELSE simulate_job_notify(u, os, note.ns, env))
                 \o unit_start_on(u, os, note, env), env)

-----------------------------------------------------------------------------
\* Only the states of interest.
in_bounds(notes) == \A i \in DOMAIN notes : notes[i].ns \in UnitState

-----------------------------------------------------------------------------
(* Steps.  m is the part of the state the manager owns. *)

t_ready(t) == \E u \in Unit : t[u].up_ready

manager == [jobs |-> jobs, event |-> event, up_ready |-> up_ready]

try_enable(m) ==
    [m EXCEPT !.event = @ \/ (t_ready(m.jobs) /\ ~m.up_ready), !.up_ready = t_ready(m.jobs)]

becomes(m) == jobs' = m.jobs /\ event' = m.event /\ up_ready' = m.up_ready

MInit ==
    /\ Init
    /\ state = [u \in Unit |-> "InActive"]
    /\ event = FALSE /\ up_ready = FALSE /\ pc = "idle"

\* start_unit, stop_unit, reload and restart_unit of the unit manager; a
\* request that fails changes nothing.
Exec(u, kind) ==
    /\ ~is_panic(jobs) /\ pc = "idle"
    /\ \E ord \in Ordering :
          LET env == [st |-> state, ord |-> ord]
          IN  /\ is_exec_ok(jobs, u, kind, "Replace", env)
              /\ becomes(try_enable([manager EXCEPT !.jobs = exec(@, u, kind, "Replace", env)]))
    /\ UNCHANGED <<state, pc>>

\* JobManager.try_finish outside of a running job, for each of the reports.
RECURSIVE try_finish(_, _, _, _, _)

try_finish(m, u, os, notes, ord) ==
    IF notes = <<>> THEN m
    ELSE LET env == [st |-> [state EXCEPT ![u] = Head(notes).ns], ord |-> ord]
         IN  try_finish(try_enable([m EXCEPT !.jobs = do_try_finish(@, u, os, Head(notes), env)]),
                        u, Head(notes).ns, Tail(notes), ord)

TryFinish(u) ==
    /\ ~is_panic(jobs) /\ pc = "idle"
    /\ \E ord \in Ordering, notes \in unit_changes(state[u]) :
          /\ in_bounds(notes)
          /\ state' = [state EXCEPT ![u] = Last(notes).ns]
          /\ becomes(try_finish(manager, u, state[u], notes, ord))
    /\ UNCHANGED pc

\* The event is turned off before it is dispatched.
Dispatch ==
    /\ ~is_panic(jobs) /\ pc = "idle" /\ event
    /\ event' = FALSE /\ pc' = "run"
    /\ UNCHANGED <<jobs, state, up_ready>>

\* The change that was reported first while the job ran is handled after it.
run_finish(t, u, answer, env) ==
    IF answer.notes = <<>> THEN t
    ELSE do_try_finish(t, u, state[u], Head(answer.notes), env)

run_remove_unchecked(t, u, job, result, env) ==
    IF result \in {"none", "again"} THEN t ELSE do_remove(t, u, job, result, TRUE, env)

run_remove(t, u, job, result, env) ==
    IF result \in {"none", "again"} \/ ~is_trigger_some(t[u]) THEN t
    ELSE do_remove(t, u, job, result, TRUE, env)

\* One round of run on the popped unit u.
run_round(t, u, answer, env) ==
    LET result == job_trigger_err_to_result(answer.ret)
    IN  run_remove(run_finish(try_trigger_entry(t, u, result = "again"), u, answer, env),
                   u, get_next_trigger(t[u]), result, env)

\* try_finish of that first change arms the event when another unit is ready.
run_enable(u, answer) ==
    IF answer.notes = <<>> THEN manager
    ELSE try_enable([manager EXCEPT !.jobs[u].up_ready = FALSE])

RunTrigger ==
    /\ ~is_panic(jobs) /\ pc = "run"
    /\ \E u \in Unit, ord \in Ordering :
          /\ jobs[u].up_ready /\ is_uv_runnable(jobs, u)
          /\ \E answer \in job_trigger_unit(get_next_trigger(jobs[u]), state[u]) :
                LET ns  == IF answer.notes = <<>> THEN state[u] ELSE Last(answer.notes).ns
                    env == [st |-> [state EXCEPT ![u] = ns], ord |-> ord]
                IN  /\ in_bounds(answer.notes)
                    /\ state' = env.st
                    /\ becomes([run_enable(u, answer) EXCEPT
                                  !.jobs = run_round(jobs, u, answer, env)])
    /\ UNCHANGED pc

RunPause ==
    /\ ~is_panic(jobs) /\ pc = "run"
    /\ \E u \in Unit :
          /\ jobs[u].up_ready /\ ~is_uv_runnable(jobs, u)
          /\ jobs' = try_trigger_entry(jobs, u, FALSE)
    /\ UNCHANGED <<state, event, up_ready, pc>>

RunEnd ==
    /\ ~is_panic(jobs) /\ pc = "run" /\ ~t_ready(jobs)
    /\ pc' = "idle" /\ up_ready' = FALSE
    /\ UNCHANGED <<jobs, state, event>>

Step == Dispatch \/ RunTrigger \/ RunPause \/ RunEnd

MNext ==
    \/ \E u \in Unit, kind \in Request : Exec(u, kind)
    \/ \E u \in Unit : TryFinish(u)
    \/ Step

MSpec == MInit /\ [][MNext]_vars

\* Weak fairness of the loop of a dispatch and of Dispatch, with their ENABLED
\* spelled out: a step of the loop is possible exactly while pc is "run".
LoopGoesOn == []<>(pc = "idle") \/ []<><<pc = "run">>_vars
EventIsDispatched == []<>(pc = "run" \/ ~event)

-----------------------------------------------------------------------------
(* Properties *)

\* The Defer event is armed whenever something is ready outside a dispatch:
\* no job is left behind because the edge that up_ready detects was missed
\* (try_enable, and update_up_ready at the end of dispatch).
ReadyIsArmed == pc = "idle" /\ t_ready(jobs) => event

\* A paused unit has something that will resume it: its own next report,
\* while it has a job to run again, or the end of a job of a neighbour
\* (junit.rs pause, table.rs process_relation, manager.rs do_try_finish).
HasWaker ==
    \A u \in Unit : jobs[u].pause =>
        \/ is_trigger_some(jobs[u]) /\ jobs[u].retrigger
        \/ \E o \in neighbours(u) : ~is_empty(jobs[o])

\* No job waits for nothing: what is ready is armed, what is paused has a waker.
WakesUp == ReadyIsArmed /\ HasWaker

\* No unit is on its way and no event is armed.
UnitsAtRest ==
    pc = "idle" /\ ~event /\ \A u \in Unit : state[u] \in {"InActive", "Active", "Failed"}

\* When every unit has arrived and the manager has nothing to do, no job is
\* left: no two units are paused for each other's jobs (is_uv_runnable,
\* process_relation).
RestIsEmpty == UnitsAtRest => \A u \in Unit : is_empty(jobs[u])

\* A Start that ends because its unit failed takes along every Start and
\* Verify that depends on it, directly or not, suspended or triggered
\* (do_remove_relation, trans_fallback).
StartFailureFalls ==
    [][\A u \in Unit :
         /\ jobs[u].trigger.rkind = "Start" /\ ~jobs[u].interrupt /\ ~is_trigger_some(jobs'[u])
         /\ state[u] # "Failed" /\ state'[u] = "Failed"
         => \A o \in fallback_units(jobs, u, "Start") : ~is_fallback(jobs', o)]_vars

\* A Restart whose Stop has succeeded goes on to its Start, unless it was
\* interrupted or left the unit with an error (Job::finish, job_rkind_map).
RestartStarts ==
    [][\A u \in Unit :
         /\ jobs[u].trigger.kind = "Restart" /\ jobs[u].trigger.rkind = "Stop"
         /\ ~jobs[u].pause /\ pc = "idle"
         /\ state[u] # state'[u] /\ state'[u] \in {"InActive", "Failed"}
         => jobs'[u].trigger.kind = "Restart" /\ jobs'[u].trigger.rkind = "Start"]_vars

\* Once nothing moves, of two units that conflict at most one is active,
\* however they came up: by requests or by themselves (expand_start,
\* notify_event_start).
ConflictsExclude ==
    UnitsAtRest => \A u \in Unit : state[u] = "Active" =>
        \A o \in gets(u, "Conflicts") : state[o] # "Active"

\* u leaves Active for one of the states ns by itself, and o, bound to u, does
\* not get a Stop.
is_left_bound(u, o, ns) ==
    /\ o \in gets(u, "BoundBy") /\ state[o] = "Active"
    /\ pc = "idle" /\ state[u] = "Active" /\ state'[u] \in ns
    /\ "Stop" \notin jobs'[o].suspends \cup {jobs'[o].trigger.rkind}

\* A unit bound to one that goes down without failing gets a Stop
\* (simulate_job_notify, notify_event_stop).
BindsToFollowsStop ==
    [][\A u \in Unit, o \in Unit : ~is_left_bound(u, o, {"InActive", "DeActivating"})]_vars

\* A unit that fails has the units it names in OnFailure started
\* (unit_start_on, exec_on).
OnFailureServed ==
    [][\A u \in Unit, h \in Unit :
         h \in gets(u, "OnFailure") /\ state[u] # "Failed" /\ state'[u] = "Failed"
         => "Start" \in jobs'[h].suspends]_vars
=============================================================================
