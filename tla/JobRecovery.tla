---------------------------- MODULE JobRecovery ----------------------------
(***************************************************************************)
(* The jobs across a crash (core/bin/job/rentry.rs, stat.rs, and the parts *)
(* of entry.rs, table.rs and manager.rs that call them): every call of the *)
(* table also writes the records of its jobs and counts them; a new        *)
(* process reads the records, compensates what was in work, and runs the   *)
(* triggered jobs again.  The record rc holds                              *)
(*                                                                         *)
(*   cache, saved   the records in memory and on disk: per unit the        *)
(*             triggered job and the attributes of the suspended ones      *)
(*   frame, last    the last words: the event in work and its unit         *)
(*   armed, up      the Defer event is enabled; up_ready of the table      *)
(*   num, owed      the jobs counted by kind, and deleted but not counted  *)
(*   timers    the jobs whose timer runs: <<unit, "trig" or kind>>         *)
(*   phase     "run", or the step of recover: "last", "others"             *)
(*   others, cur, ran   the units to trigger again, the one at hand, and   *)
(*             whether anything of it was triggered                        *)
(*   work      one round of run() is under way                             *)
(*   fired     the units whose JobTimeoutAction was taken                  *)
(*                                                                         *)
(* The history is saved at the end of every event and of every round.      *)
(***************************************************************************)
EXTENDS JobTable, FiniteSetsExt, TLC

CONSTANTS JobTimeoutSec,     \* units whose jobs have a time-out
          JobTimeoutAction,  \* units whose time-out has an action
          MaxCalls,          \* calls of the table in one event
          MaxFaults,         \* crashes and reloads
          MaxRequests        \* transactions

VARIABLE rc

-----------------------------------------------------------------------------
(* Records (rentry.rs) *)

NoTrig == [kind |-> "none", attr |-> {}]

NoRecord == [trig |-> NoTrig, susp |-> [k \in {} |-> {}]]

trigger_insert(r, kind, attr) == [r EXCEPT !.trig = [kind |-> kind, attr |-> attr]]

trigger_remove(r) == [r EXCEPT !.trig = NoTrig]

suspends_insert(r, attrs) == [r EXCEPT !.susp = attrs @@ @]

suspends_remove(r, kinds) == [r EXCEPT !.susp = [k \in DOMAIN @ \ kinds |-> @[k]]]

trigger_keys(c) == {u \in Unit : c[u].trig # NoTrig}

\* merge_suspends: what is flushed ends, what is there has its attributes
\* updated, what is new waits.
re_merge_suspends(r, uv, kinds, attr) ==
    LET kept == IF is_suspends_conflict_with(uv, kinds) THEN {} ELSE uv.suspends
    IN  suspends_insert(suspends_remove(r, uv.suspends \ kept),
                        [k \in kinds |-> attr[k] \cup (IF k \in kept THEN uv.sattr[k] ELSE {})])

\* The kinds a reshuffle of the entry merges into another one.
merged_kinds(uv, active) ==
    IF uv.order THEN {} ELSE uv.suspends \cap jobs_merge_suspend(uv.suspends, active)

re_commit(c, t, stage, mode, active) ==
    LET t1 == t_merge_suspends(isolate_suspends(t, stage, mode), stage, mode)
        re(u) == CASE is_isolated(t, u, stage, mode) -> suspends_remove(c[u], t[u].suspends)
                   [] stage[u] # {} -> re_merge_suspends(c[u], t[u], stage[u], stage_attr(mode))
                   [] OTHER -> c[u]
    IN  [u \in Unit |-> suspends_remove(re(u), merged_kinds(t1[u], u \in active))]

\* A mistake: the attributes of the interrupted job are merged after the record is written.
re_run_early(r, uv) ==
    IF is_ready_suspend(uv)
    THEN trigger_insert(suspends_remove(r, {Head(uv.sq)}), Head(uv.sq), uv.sattr[Head(uv.sq)])
    ELSE r

\* Job::run of the next trigger: a waiting job moves to the trigger's record, the
\* one it interrupts has ended; a job that runs again is recorded already.
re_run(r, uv) ==
    LET k   == Head(uv.sq)
        old == IF uv.interrupt /\ uv.trigger.kind = k THEN uv.trigger.attr ELSE {}
    IN  IF is_ready_suspend(uv)
        THEN trigger_insert(suspends_remove(r, {k}), k, uv.sattr[k] \cup old)
        ELSE r

re_finish(r, uv, result) == IF finish_is_retry(uv.trigger, result) THEN r ELSE trigger_remove(r)

-----------------------------------------------------------------------------
(* Statistics (stat.rs): the jobs by kind *)

NoNum == [k \in BasicKind |-> 0]

count(kinds_of) == [k \in BasicKind |-> Cardinality({u \in Unit : k \in kinds_of[u]})]

plus(m, n) == [k \in BasicKind |-> m[k] + n[k]]

\* JobKindNum::update: add first, then subtract; an overflow fails an assertion.
update_changes(x, adds, dels) ==
    [x EXCEPT !.num = [k \in BasicKind |-> @[k] + adds[k] - dels[k]],
              !.panic = @ \/ \E k \in BasicKind : x.num[k] + adds[k] < dels[k]]

one(kind) == [k \in BasicKind |-> IF k = kind THEN 1 ELSE 0]

commit_adds(t, stage) ==
    count([u \in Unit |-> stage[u] \ (IF is_suspends_conflict_with(t[u], stage[u])
                                      THEN {} ELSE t[u].suspends)])

\* What is isolated or flushed, and what the reshuffle merges.
commit_dels(t, stage, mode, active) ==
    LET t1 == t_merge_suspends(isolate_suspends(t, stage, mode), stage, mode)
    IN  plus(count([u \in Unit |-> IF u \in flushed_units(t, stage, mode)
                                   THEN t[u].suspends ELSE {}]),
             count([u \in Unit |-> merged_kinds(t1[u], u \in active)]))

-----------------------------------------------------------------------------
(* The manager's wake-up, and job timers *)

calc_jobs_ready(t) == \E u \in Unit : t[u].up_ready

try_enable(x, t) ==
    [x EXCEPT !.armed = @ \/ (calc_jobs_ready(t) /\ ~x.up), !.up = calc_jobs_ready(t)]

\* The timer of a job that has left the table finds no job any more, and without an
\* action it only logs.
with_job(timers, t) ==
    {p \in timers : /\ p[1] \in JobTimeoutAction
                    /\ IF p[2] = "trig" THEN is_trigger_some(t[p[1]])
                       ELSE p[2] \in t[p[1]].suspends}

\* Job::run adds the timer of a job that has a time-out.
run_timer(timers, u, uv) ==
    LET own == {<<u, "trig">>} \cup (IF is_ready_suspend(uv) THEN {<<u, Head(uv.sq)>>} ELSE {})
        was == IF is_ready_suspend(uv) THEN <<u, Head(uv.sq)>> ELSE <<u, "trig">>
    IN  (timers \ own)
            \cup (IF u \in JobTimeoutSec \/ was \in timers THEN {<<u, "trig">>} ELSE {})

\* coldplug_trigger, coldplug_suspend: the timer of every job is enabled.
coldplug(t) ==
    with_job(JobTimeoutAction \X (BasicKind \cup {"trig"}), t)

-----------------------------------------------------------------------------
(* A new process *)

job_merge_trigger_iskeep(kind) == kind \in {"Stop", "Verify", "Nop"}

job_merge_trigger_map(kind) == IF job_merge_trigger_iskeep(kind) THEN kind ELSE "Restart"

\* What was interrupted is restarted, unless it was a job that does not start anything.
rentry_trigger_merge(r, force) ==
    LET forced == IF force THEN {"force"} ELSE {}
        old == IF r.trig # NoTrig THEN r.trig
               ELSE [kind |-> "Restart",
                     attr |-> {"ignore_order", "irreversible", "no_relevancy"} \cup forced]
    IN  trigger_insert(r, job_merge_trigger_map(old.kind),
            {"ignore_order", "irreversible"} \cup forced \cup old.attr
                \cup (IF job_merge_trigger_iskeep(old.kind) THEN {} ELSE {"no_relevancy"}))

\* db_compensate: every triggered job, then the unit the last process worked on.
db_compensate(c, last) ==
    [u \in Unit |->
        LET r == IF c[u].trig = NoTrig THEN c[u] ELSE rentry_trigger_merge(c[u], FALSE)
        IN  IF u = last THEN rentry_trigger_merge(r, TRUE) ELSE r]

rentry_map(r) ==
    LET uv == IF r.trig = NoTrig THEN uv_new
              ELSE insert_trigger(uv_new, job_new(r.trig.kind, r.trig.attr))
    IN  FoldSet(LAMBDA k, v : insert_suspend(v, k, r.susp[k]), uv, DOMAIN r.susp)

db_map(c) == t_reshuffle([u \in Unit |-> rentry_map(c[u])], {})

db_map_num(c) ==
    plus(count([u \in Unit |-> {c[u].trig.kind}]), count([u \in Unit |-> DOMAIN c[u].susp]))

NewProcess(c) ==
    [cache |-> c, saved |-> c, frame |-> "", last |-> "", armed |-> FALSE, up |-> FALSE,
     num |-> db_map_num(c), owed |-> NoNum, timers |-> {}, phase |-> "run", others |-> {},
     cur |-> "", ran |-> FALSE, work |-> FALSE, fired |-> {}, calls |-> 0,
     faults |-> MaxFaults, requests |-> MaxRequests, panic |-> FALSE]

\* The unit recover works on first: events without a unit leave none.
last_unit(x) == IF x.frame \in {"JobManager", "SigChld"} THEN x.last ELSE ""

recover(x, c) ==
    [NewProcess(db_compensate(c, last_unit(x))) EXCEPT
        !.frame = x.frame, !.last = x.last, !.phase = "last", !.cur = last_unit(x),
        !.faults = x.faults - 1, !.requests = x.requests]

-----------------------------------------------------------------------------
(* Steps *)

\* sysmaster goes on: no assertion has failed, and no time-out has ended it.
goes_on == ~rc.panic /\ ~is_panic(jobs) /\ rc.fired = {}

\* The end of an event or of a round: what was deleted is counted, the history saved.
settled == rc.owed = NoNum

\* A step of the table within an event: c and t are the records and the table after it.
Call(x, c, t) ==
    /\ jobs' = t
    /\ rc' = [x EXCEPT !.cache = c, !.timers = with_job(x.timers, t)]

in_work ==
    /\ goes_on /\ rc.calls < MaxCalls
    /\ rc.work \/ (rc.phase = "run" /\ rc.frame = "SigChld")

\* The unit that runs its job, or whose process has exited: the one that may report.
reporter == IF rc.phase = "run" THEN rc.last ELSE rc.cur

called == [rc EXCEPT !.calls = @ + 1]

exec(x, stage, mode) ==
    /\ job_trans_verify(jobs, stage, mode)
    /\ \E active \in SUBSET asks_state(jobs, stage) :
          Call(update_changes(x, commit_adds(jobs, stage), commit_dels(jobs, stage, mode, active)),
               re_commit(rc.cache, jobs, stage, mode, active),
               commit(jobs, stage, mode, active))

\* A request from outside.
Request ==
    /\ goes_on /\ rc.phase = "run" /\ rc.frame = "" /\ rc.requests > 0
    /\ \E stage \in Stage, mode \in Mode :
          exec([rc EXCEPT !.frame = "Cmd", !.requests = @ - 1], stage, mode)

\* An exec that a failed or finished job leads to.
Nested ==
    /\ in_work /\ rc.requests > 0
    /\ \E stage \in Stage, mode \in Mode : exec([called EXCEPT !.requests = @ - 1], stage, mode)

\* An exit of a process of u: the event in which u may report.
Sigchld ==
    /\ goes_on /\ rc.phase = "run" /\ rc.frame = ""
    /\ \E u \in Unit : rc' = [rc EXCEPT !.frame = "SigChld", !.last = u]
    /\ UNCHANGED jobs

\* do_remove_one: counted only after the units that hear of it have been served.
Finish ==
    /\ in_work
    /\ \E u \in {reporter}, result \in {"Done", "Failed"} :
          /\ is_trigger_some(jobs[u]) /\ ~jobs[u].pause
          /\ Call([called EXCEPT !.owed = IF finish_is_retry(jobs[u].trigger, result) THEN @
                                          ELSE plus(@, one(jobs[u].trigger.kind))],
                  [rc.cache EXCEPT ![u] = re_finish(@, jobs[u], result)],
                  t_finish_trigger(jobs, u, result))

Fallback ==
    /\ in_work
    /\ \E u \in Unit :
          /\ jobs[u].suspends \cap {"Start", "Verify"} # {}
          /\ Call([called EXCEPT !.owed = [k \in BasicKind |->
                      IF k \in jobs[u].suspends \cap {"Start", "Verify"} THEN @[k] + 1 ELSE @[k]]],
                  [rc.cache EXCEPT ![u] = suspends_remove(@, {"Start", "Verify"})],
                  t_remove_suspends(jobs, u))

Resume ==
    /\ in_work
    /\ is_trigger_some(jobs[reporter]) /\ jobs[reporter].pause
    /\ Call(called, rc.cache, resume_units(jobs, {reporter}))

Count ==
    /\ goes_on /\ ~settled
    /\ rc' = [update_changes(rc, NoNum, rc.owed) EXCEPT !.owed = NoNum]
    /\ UNCHANGED jobs

EndEvent ==
    /\ goes_on /\ settled /\ rc.phase = "run" /\ rc.frame \in {"Cmd", "SigChld"}
    /\ rc' = [try_enable(rc, jobs) EXCEPT !.frame = "", !.last = "", !.calls = 0,
                                          !.saved = rc.cache]
    /\ UNCHANGED jobs

Dispatch ==
    /\ goes_on /\ rc.phase = "run" /\ rc.frame = "" /\ rc.armed
    /\ rc' = [rc EXCEPT !.frame = "JobManager", !.armed = FALSE]
    /\ UNCHANGED jobs

\* One round of run: pop a unit and run its job, or pause it, which changes no record.
trigger(u) ==
    \E again \in BOOLEAN :
        LET runs == is_uv_runnable(jobs, u)
            dels == IF runs /\ is_ready_suspend(jobs[u]) THEN one(jobs[u].trigger.kind) ELSE NoNum
            x == [rc EXCEPT !.work = runs, !.ran = rc.phase # "run",
                            !.last = IF runs /\ rc.phase = "run" THEN u ELSE @,
                            !.timers = IF runs THEN run_timer(@, u, jobs[u]) ELSE @]
        IN  /\ ~runs => ~again
            /\ Call(update_changes(x, NoNum, dels),
                    [rc.cache EXCEPT ![u] = IF runs THEN re_run(@, jobs[u]) ELSE @],
                    try_trigger_entry(jobs, u, again))

RunTrigger ==
    /\ goes_on /\ rc.phase = "run" /\ rc.frame = "JobManager" /\ ~rc.work
    /\ \E u \in Unit : jobs[u].up_ready /\ trigger(u)

\* clear_last_unit; the last words are not changed while recover runs.
EndRound ==
    /\ goes_on /\ settled /\ rc.work
    /\ rc' = [rc EXCEPT !.work = FALSE, !.saved = rc.cache, !.calls = 0,
                        !.last = IF rc.phase = "run" THEN "" ELSE @]
    /\ UNCHANGED jobs

EndDispatch ==
    /\ goes_on /\ rc.phase = "run" /\ rc.frame = "JobManager" /\ ~rc.work
    /\ ~calc_jobs_ready(jobs)
    /\ rc' = [rc EXCEPT !.frame = "", !.up = FALSE, !.saved = rc.cache]
    /\ UNCHANGED jobs

\* do_dispatch of a job's timer, instert_job_result, unit_emergency_action.
TimeOut ==
    /\ goes_on /\ rc.phase = "run" /\ rc.frame = ""
    /\ \E p \in rc.timers : rc' = [rc EXCEPT !.timers = @ \ {p},
                                             !.fired = @ \cup {p[1]}]
    /\ UNCHANGED jobs

-----------------------------------------------------------------------------
(* Crash and recovery *)

\* sysmaster dies, at any moment; a new process finds what was saved.
Crash ==
    /\ goes_on /\ rc.faults > 0
    /\ rc' = recover(rc, rc.saved)
    /\ jobs' = db_map(rc'.cache)

\* daemon-reload: the same, in a process that keeps its events.
Reload ==
    /\ goes_on /\ rc.faults > 0 /\ rc.phase = "run" /\ rc.frame = ""
    /\ rc' = [recover(rc, rc.saved) EXCEPT !.armed = rc.armed]
    /\ jobs' = db_map(rc'.cache)

\* trigger_unit: run for one unit.
RecoverTrigger ==
    /\ goes_on /\ rc.phase # "run" /\ ~rc.work /\ rc.cur # "" /\ jobs[rc.cur].up_ready
    /\ trigger(rc.cur)

\* "something must be triggered"
RecoverNext ==
    /\ goes_on /\ rc.phase # "run" /\ ~rc.work /\ rc.cur # "" /\ ~jobs[rc.cur].up_ready
    /\ rc' = [try_enable(rc, jobs) EXCEPT !.panic = ~rc.ran, !.cur = "", !.ran = FALSE]
    /\ UNCHANGED jobs

RecoverLast ==
    /\ goes_on /\ rc.phase = "last" /\ rc.cur = ""
    /\ rc' = [rc EXCEPT !.phase = "others", !.others = trigger_keys(rc.cache) \ {rc.last}]
    /\ UNCHANGED jobs

RecoverOther ==
    /\ goes_on /\ rc.phase = "others" /\ rc.cur = ""
    /\ \E u \in rc.others : rc' = [rc EXCEPT !.cur = u, !.others = @ \ {u}]
    /\ UNCHANGED jobs

\* The end of recover, and entry_coldplug.
RecoverEnd ==
    /\ goes_on /\ rc.phase = "others" /\ rc.cur = "" /\ rc.others = {}
    /\ rc' = [rc EXCEPT !.phase = "run", !.frame = "", !.last = "", !.saved = rc.cache,
                        !.timers = coldplug(jobs)]
    /\ UNCHANGED jobs

RecoveryInit == Init /\ rc = NewProcess([u \in Unit |-> NoRecord])

RecoveryNext ==
    \/ Request \/ Nested \/ Sigchld \/ Finish \/ Fallback \/ Resume \/ Count \/ EndEvent
    \/ Dispatch \/ RunTrigger \/ EndRound \/ EndDispatch \/ TimeOut
    \/ Crash \/ Reload \/ RecoverTrigger \/ RecoverNext \/ RecoverLast \/ RecoverOther \/ RecoverEnd

RecoverySpec == RecoveryInit /\ [][RecoveryNext]_<<jobs, rc>>

-----------------------------------------------------------------------------
(* Properties *)

\* After every call of the table the records say what the table holds: a crash at
\* the next moment loses nothing but what is not saved (entry.rs wait, run, finish,
\* merge_attr write them one by one).
JobsRecorded ==
    rc.panic \/ rc.cache = [u \in Unit |->
        [trig |-> IF is_trigger_some(jobs[u])
                  THEN [kind |-> jobs[u].trigger.kind, attr |-> jobs[u].trigger.attr] ELSE NoTrig,
         susp |-> [k \in jobs[u].suspends |-> jobs[u].sattr[k]]]]

\* A table that is read back is as well formed as one that was built by requests, no
\* assertion of db_map, trigger_unit or stat.rs fails, however often sysmaster dies,
\* and also while it recovers.
RecoveredIsSound == ~rc.panic /\ TableInv

\* The statistics are the jobs of the table: a job that is deleted while another
\* transaction runs is counted once, and a recovered one too (stat.rs).
CountsMatch ==
    rc.panic \/ rc.num =
        plus(rc.owed, plus(count([u \in Unit |-> {jobs[u].trigger.kind}]),
                           count([u \in Unit |-> jobs[u].suspends])))

\* A job that could run is run: the Defer event is enabled whenever sysmaster waits
\* for events and a unit is ready, also after a crash.
RecoveredIsArmed == rc.phase = "run" /\ rc.frame = "" /\ calc_jobs_ready(jobs) => rc.armed
=============================================================================
