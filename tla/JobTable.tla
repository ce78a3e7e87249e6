------------------------------ MODULE JobTable ------------------------------
(***************************************************************************)
(* The job table (core/bin/job/table.rs): the jobs of every unit, the      *)
(* queue of units that are ready to run, and the order between units.      *)
(*                                                                         *)
(* jobs[u] is the JobUnit of unit u; a unit without an entry in t_data has *)
(* the value uv_new.  The ready queue (t_ready and its copy readys) is the *)
(* set of units whose up_ready flag is set: the code changes the flag and  *)
(* the queue together, and pops them by unit name, which the model leaves  *)
(* open.  Between two calls of the table every entry is synchronised, so   *)
(* the flag sync is not a variable.                                        *)
(*                                                                         *)
(* This module is the table under any client: it may be called with any    *)
(* conflict-free stage, and the units may answer in any way.               *)
(***************************************************************************)
EXTENDS JobUnit

CONSTANTS Unit,       \* the units
          Order,      \* <<a, b>>: a is Before b, and b is After a
          Stage,      \* the stages a transaction may build: unit -> kinds
          Mode,       \* the job modes in use
          IgnoreOnIsolate  \* units whose IgnoreOnIsolate is set

ASSUME UnitAssumption ==
    /\ Order \subseteq Unit \X Unit
    /\ Stage \subseteq [Unit -> SUBSET BasicKind]
    /\ Mode \subseteq JobMode
    /\ IgnoreOnIsolate \subseteq Unit

VARIABLE jobs

AfterOf(u) == {o \in Unit : <<o, u>> \in Order}     \* dep_gets_atom(u, After)
BeforeOf(u) == {o \in Unit : <<u, o>> \in Order}    \* dep_gets_atom(u, Before)
neighbours(u) == AfterOf(u) \cup BeforeOf(u)

-----------------------------------------------------------------------------
(* Entries *)

ready_sync(uv) == [uv EXCEPT !.up_ready = uv.ready]

clear_dirty(uv) == [uv EXCEPT !.dirty = FALSE]

try_gc_empty_unit(uv) ==
    IF is_empty(uv)
    THEN check(uv_new, ~uv.panic /\ ~uv.ready /\ ~uv.up_ready)
    ELSE uv

reshuffle_entry(uv, active) ==
    IF uv.dirty THEN clear_dirty(ready_sync(reshuffle(uv, active))) ELSE uv

finish_entry(uv, result) ==
    clear_dirty(ready_sync(finish_trigger(check(uv, ~uv.dirty), result)))

resume_entry_unsynced(uv) ==
    IF uv.pause THEN clear_dirty(resume(check(uv, ~uv.dirty))) ELSE check(uv, ~uv.dirty)

resume_entry(uv) ==
    IF uv.pause
    THEN clear_dirty(ready_sync(resume(check(uv, ~uv.dirty))))
    ELSE check(uv, ~uv.dirty)

\* Start and Verify are the only kinds the engine removes (trans_fallback).
remove_entry(uv) ==
    reshuffle_entry(remove_suspend(remove_suspend(check(uv, ~uv.dirty), "Start"), "Verify"),
                    FALSE)

-----------------------------------------------------------------------------
(* The table as a value t: unit -> uv *)

resume_units(t, units) ==
    [o \in Unit |-> IF o \in units THEN resume_entry(t[o]) ELSE t[o]]

process_relation_after(t, u) == resume_units(t, AfterOf(u))

\* Wake the units ordered with u; the units triggered by u are external.
process_relation(t, u) == resume_units(t, neighbours(u))

is_uv_runnable(t, u) ==
    /\ \A o \in AfterOf(u) : is_next_trigger_order_with(t[u], t[o], "After")
    /\ \A o \in BeforeOf(u) : is_next_trigger_order_with(t[u], t[o], "Before")

order_assert(t, u) == t[u].ready /\ \A o \in neighbours(u) : t[o].order

\* try_trigger of a popped unit; again is the unit's answer EAgain.
try_trigger_entry(t, u, again) ==
    LET uv == check([t[u] EXCEPT !.up_ready = FALSE], ~t[u].dirty /\ order_assert(t, u))
        new == IF is_uv_runnable(t, u) THEN do_trigger(uv, again) ELSE pause(uv)
    IN  [t EXCEPT ![u] = clear_dirty(check(new, ~new.ready /\ ~is_empty(new)))]

t_finish_trigger(t, u, result) ==
    process_relation([t EXCEPT ![u] = try_gc_empty_unit(finish_entry(@, result))], u)

t_remove_suspends(t, u) ==
    LET t1 == IF is_empty(t[u]) THEN t
              ELSE [t EXCEPT ![u] = try_gc_empty_unit(remove_entry(@))]
    IN  IF t[u].suspends \cap {"Start", "Verify"} # {} THEN process_relation(t1, u) ELSE t1

stage_attr(mode) == [k \in BasicKind |-> init_attr(k, mode)]

trans_verify_is_conflict(stage) == \E u \in Unit : kinds_conflict(stage[u])

is_table_conflict_with(t, stage) ==
    \E u \in Unit : /\ ~is_empty(t[u]) /\ stage[u] # {}
                    /\ is_suspends_conflict_with(t[u], stage[u])

is_table_replace_with(t, stage) ==
    \A u \in Unit : is_suspends_replace_with(t[u], stage[u])

trans_verify_is_destructive(t, stage, mode) ==
    /\ is_table_conflict_with(t, stage)
    /\ mode = "Fail" \/ ~is_table_replace_with(t, stage)

\* job_trans_verify: the two reasons for Err(Conflict).
job_trans_verify(t, stage, mode) ==
    ~trans_verify_is_conflict(stage) /\ ~trans_verify_is_destructive(t, stage, mode)

is_isolated(t, u, stage, mode) ==
    /\ mode \in {"Isolate", "Flush"} /\ u \notin IgnoreOnIsolate
    /\ stage[u] = {} /\ ~is_empty(t[u])

isolate_suspends(t, stage, mode) ==
    [u \in Unit |-> IF is_isolated(t, u, stage, mode) THEN flush_suspends(t[u]) ELSE t[u]]

t_merge_suspends(t, stage, mode) ==
    [u \in Unit |-> IF stage[u] = {} THEN t[u]
                    ELSE merge_suspends(t[u], stage[u], stage_attr(mode))]

t_reshuffle(t, active) ==
    [u \in Unit |-> try_gc_empty_unit(reshuffle_entry(t[u], u \in active))]

\* Units that lose a job to isolation or to a conflicting stage.
flushed_units(t, stage, mode) ==
    {u \in Unit : /\ t[u].suspends # {}
                  /\ \/ is_isolated(t, u, stage, mode)
                     \/ stage[u] # {} /\ is_suspends_conflict_with(t[u], stage[u])}

commit(t, stage, mode, active) ==
    LET merged == t_merge_suspends(isolate_suspends(t, stage, mode), stage, mode)
    IN  resume_units(t_reshuffle(merged, active),
                     UNION {neighbours(u) : u \in flushed_units(t, stage, mode)})

-----------------------------------------------------------------------------
(* The table under any client *)

\* sysmaster stops at the first assertion that fails.
is_panic(t) == \E u \in Unit : t[u].panic

Init == jobs = [u \in Unit |-> uv_new]

\* The units whose state matters to the commit (jobs_ms_start_or_reload).
asks_state(t, stage) ==
    {u \in Unit : {"Start", "Reload"} \subseteq t[u].suspends \cup stage[u]}

\* active: the units that are active or reloading.
CommitStage(stage, mode) ==
    /\ ~is_panic(jobs)
    /\ job_trans_verify(jobs, stage, mode)
    /\ \E active \in SUBSET asks_state(jobs, stage) :
          jobs' = commit(jobs, stage, mode, active)

Commit == \E stage \in Stage, mode \in Mode : CommitStage(stage, mode)

TryTrigger ==
    /\ ~is_panic(jobs)
    /\ \E u \in Unit, again \in BOOLEAN :
          /\ jobs[u].up_ready
          /\ jobs' = try_trigger_entry(jobs, u, again)

FinishTrigger ==
    /\ ~is_panic(jobs)
    /\ \E u \in Unit, result \in {"Done", "Failed"} :
          /\ is_trigger_some(jobs[u])
          /\ jobs' = t_finish_trigger(jobs, u, result)

RemoveSuspends ==
    /\ ~is_panic(jobs)
    /\ \E u \in Unit : jobs' = t_remove_suspends(jobs, u)

\* The manager resumes a unit that reports a change while its job is paused.
ResumeUnit ==
    /\ ~is_panic(jobs)
    /\ \E u \in Unit :
          /\ is_trigger_some(jobs[u]) /\ jobs[u].pause
          /\ jobs' = resume_units(jobs, {u})

\* Units are removed between two runs of the manager, when run has emptied the copy readys:
\* the unit is then in t_ready at most, which remove_unit takes it out of.
RemoveUnit ==
    /\ ~is_panic(jobs)
    /\ \E u \in Unit : jobs' = [jobs EXCEPT ![u] = uv_new]

Rest == TryTrigger \/ FinishTrigger \/ RemoveSuspends \/ ResumeUnit \/ RemoveUnit

Next == Commit \/ Rest

Spec == Init /\ [][Next]_jobs

-----------------------------------------------------------------------------
(* Properties *)

\* Every entry is a well-formed JobUnitData (junit.rs:185).
TypeOK == jobs \in [Unit -> UvType]

\* Between two calls of the table the queue, the flags and the ready queue of
\* every unit agree with its jobs (junit.rs reshuffle, update_ready): the
\* inductive invariant behind the other properties.
TableInv == \A u \in Unit : UvOK(jobs[u])

\* No call of the table, in any order, reaches an assert!() that fails
\* (junit.rs, table.rs): a failed assertion ends sysmaster.
NoPanic == ~is_panic(jobs)

\* An entry that could run is in the ready queue, and nothing else is: a
\* suspended Start, Stop, Reload, Restart or Verify of a unit that is neither
\* paused nor busy is never forgotten (ready_sync, junit.rs update_ready).
NoForgottenJob ==
    \A u \in Unit :
        /\ jobs[u].up_ready = calc_ready(jobs[u])
        /\ (~jobs[u].pause /\ ~is_trigger_some(jobs[u])) =>
              (jobs[u].up_ready <=> jobs[u].suspends \ {"Nop"} # {} \/ jobs[u].sq # <<>>)

\* A triggered job is replaced while it runs only by a Stop or a Restart
\* (jobs_merge_trigger_prepare), whatever is committed in the meantime.
OnlyStopInterrupts ==
    [][\A u \in Unit :
         /\ is_trigger_some(jobs[u]) /\ is_trigger_some(jobs'[u])
         /\ jobs'[u].trigger.kind # jobs[u].trigger.kind
         => jobs'[u].trigger.kind \in {"Stop", "Restart"}]_jobs

\* A suspended Stop that must not be replaced (ReplaceIrreversible) leaves the
\* queue only by being triggered, or with its unit: no later request that
\* conflicts with it removes it (is_suspends_replace_with).
IrreversibleStopKept ==
    [][\A u \in Unit :
         "Stop" \in jobs[u].suspends /\ "irreversible" \in jobs[u].sattr["Stop"]
         => \/ "Stop" \in jobs'[u].suspends
            \/ jobs'[u].trigger.kind = "Stop"
            \/ jobs'[u] = uv_new]_jobs

\* What stops a unit is neither lost nor imitated: only a stop takes the place
\* of a running job, and one that may not be replaced is kept (junit.rs).
StopsAreKept == OnlyStopInterrupts /\ IrreversibleStopKept

\* The next job of u, whether or not u is paused, waits for a job of o.
is_blocked_by(u, o) ==
    LET uv == [jobs[u] EXCEPT !.pause = FALSE]
    IN  /\ calc_ready(uv)
        /\ \/ o \in AfterOf(u) /\ ~is_next_trigger_order_with(uv, jobs[o], "After")
           \/ o \in BeforeOf(u) /\ ~is_next_trigger_order_with(uv, jobs[o], "Before")
=============================================================================
