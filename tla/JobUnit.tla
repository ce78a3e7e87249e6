------------------------------- MODULE JobUnit -------------------------------
(***************************************************************************)
(* The jobs of one unit (core/bin/job/junit.rs): at most one triggered job *)
(* and the suspended jobs waiting behind it, at most one of each kind.     *)
(* Every operator takes and returns the whole JobUnitData value uv.        *)
(*                                                                         *)
(*   suspends, sattr   the suspended kinds and their attributes            *)
(*   trigger           the job that runs on the unit, or NoJob             *)
(*   sq, order         the run queue, valid while order is TRUE            *)
(*   interrupt         the head of sq may replace the triggered job        *)
(*   retrigger         the triggered job has to be run (again)             *)
(*   pause             the unit waits: for a neighbour, or for its unit    *)
(*   ready, up_ready   uv can be popped; uv is in the table's ready queue  *)
(*   dirty             uv changed since the table last looked at it        *)
(*   panic             an assert!() of the code has failed (sticky)        *)
(***************************************************************************)
EXTENDS JobEntry, Sequences

UvType ==
    [suspends : SUBSET BasicKind, sattr : [BasicKind -> SUBSET JobAttr],
     trigger : JobType \cup {NoJob}, order : BOOLEAN, sq : Seq(BasicKind),
     interrupt : BOOLEAN, retrigger : BOOLEAN, dirty : BOOLEAN, pause : BOOLEAN,
     ready : BOOLEAN, up_ready : BOOLEAN, panic : BOOLEAN]

NoAttr == [k \in BasicKind |-> {}]

\* JobUnitData::new; also what a missing entry of the table looks like.
uv_new ==
    [suspends |-> {}, sattr |-> NoAttr, trigger |-> NoJob, order |-> TRUE,
     sq |-> <<>>, interrupt |-> FALSE, retrigger |-> FALSE, dirty |-> FALSE,
     pause |-> FALSE, ready |-> FALSE, up_ready |-> FALSE, panic |-> FALSE]

is_empty(uv) == uv.trigger = NoJob /\ uv.suspends = {}

\* The suspended job of kind k: it has not run yet, so its run-kind is fresh.
get_suspend(uv, k) == job_new(k, uv.sattr[k])

get_jobs(uv) ==
    {get_suspend(uv, k) : k \in uv.suspends}
        \cup (IF uv.trigger = NoJob THEN {} ELSE {uv.trigger})

check(uv, cond) == [uv EXCEPT !.panic = @ \/ ~cond]

-----------------------------------------------------------------------------
(* Readiness *)

is_trigger_some(uv) == uv.trigger # NoJob

\* Some(true): the head of sq is next.
is_ready_suspend(uv) ==
    ~uv.pause /\ uv.order /\ uv.sq # <<>> /\ (is_trigger_some(uv) => uv.interrupt)

\* Some(false): the triggered job is next.
is_ready_retrigger(uv) ==
    /\ ~uv.pause /\ uv.order /\ is_trigger_some(uv) /\ uv.retrigger
    /\ ~(uv.sq # <<>> /\ uv.interrupt)

calc_ready(uv) == is_ready_suspend(uv) \/ is_ready_retrigger(uv)

\* "there is no interrupter" and "there is nothing to interrupt".
calc_ready_assert(uv) ==
    (~uv.pause /\ uv.order /\ uv.interrupt) => (is_trigger_some(uv) <=> uv.sq # <<>>)

update_ready(uv) ==
    [check(uv, calc_ready_assert(uv)) EXCEPT !.ready = calc_ready(uv)]

get_next_trigger(uv) ==
    IF is_ready_suspend(uv) THEN get_suspend(uv, Head(uv.sq)) ELSE uv.trigger

-----------------------------------------------------------------------------
(* Conflicts between suspended jobs: Stop tolerates nothing but Nop *)

kinds_conflict(kinds) == "Stop" \in kinds /\ kinds \ {"Stop", "Nop"} # {}

is_suspends_conflict(uv) == kinds_conflict(uv.suspends)

is_suspends_conflict_with(uv, kinds) == kinds_conflict(uv.suspends \cup kinds)

is_suspends_irreversible(uv) == \E k \in uv.suspends : "irreversible" \in uv.sattr[k]

is_suspends_replace_with_onearm(uv, kinds) ==
    \/ ~is_suspends_irreversible(uv)
    \/ ~(uv.suspends \ {"Stop", "Nop"} # {} /\ "Stop" \in kinds)

\* Of the two match arms, each names one side holding the Stop.
is_suspends_replace_with(uv, kinds) ==
    \/ ~is_suspends_irreversible(uv)
    \/ /\ ~(uv.suspends \ {"Stop", "Nop"} # {} /\ "Stop" \in kinds)
       /\ ~("Stop" \in uv.suspends /\ kinds \ {"Stop", "Nop"} # {})

-----------------------------------------------------------------------------
(* Changing the suspended jobs *)

insert_suspend(uv, k, attr) ==
    update_ready([check(uv, k \notin uv.suspends) EXCEPT
                    !.suspends = @ \cup {k}, !.sattr[k] = attr,
                    !.order = FALSE, !.dirty = TRUE])

remove_suspend(uv, k) ==
    update_ready([uv EXCEPT !.suspends = @ \ {k}, !.sattr[k] = {},
                            !.order = FALSE, !.dirty = TRUE])

flush_suspends(uv) ==
    update_ready([uv EXCEPT !.suspends = {}, !.sattr = NoAttr,
                            !.order = FALSE, !.dirty = TRUE])

\* Union of two suspend sets: a kind that is already there only gets attributes.
union_suspends(uv, kinds, attr) ==
    IF kinds \subseteq uv.suspends
    THEN [uv EXCEPT !.sattr = [k \in BasicKind |->
                                 IF k \in kinds THEN @[k] \cup attr[k] ELSE @[k]]]
    ELSE update_ready([uv EXCEPT
            !.suspends = @ \cup kinds,
            !.sattr = [k \in BasicKind |->
                         IF k \in kinds THEN @[k] \cup attr[k] ELSE @[k]],
            !.order = FALSE, !.dirty = TRUE])

merge_suspends(uv, kinds, attr) ==
    union_suspends(IF is_suspends_conflict_with(uv, kinds) THEN flush_suspends(uv) ELSE uv,
                   kinds, attr)

\* Kinds another suspended job absorbs; active is the state of the unit.
jobs_merge_suspend(kinds, active) ==
    IF "Stop" \in kinds THEN {}
    ELSE IF "Restart" \in kinds THEN {"Start", "Reload"}
    ELSE IF {"Start", "Reload"} \subseteq kinds THEN {IF active THEN "Start" ELSE "Reload"}
    ELSE {}

sq_order_pushback(kinds, k) == IF k \in kinds THEN <<k>> ELSE <<>>

\* order: [stop] | [(restart|start|reload)->verify->nop]
sq_mutops(kinds) ==
    sq_order_pushback(kinds, "Restart") \o sq_order_pushback(kinds, "Start")
        \o sq_order_pushback(kinds, "Reload")

sq_order(kinds) ==
    IF "Stop" \in kinds
    THEN <<"Stop">>
    ELSE sq_mutops(kinds)
            \o sq_order_pushback(kinds, "Verify") \o sq_order_pushback(kinds, "Nop")

\* "The merge mechanism is not working properly."
sq_order_assert(kinds) == "Stop" \in kinds \/ Len(sq_mutops(kinds)) <= 1

jobs_merge_trigger_prepare(uv) ==
    IF is_trigger_some(uv) /\ uv.sq # <<>>
    THEN [uv EXCEPT !.interrupt = Head(uv.sq) \in {"Stop", "Restart"}]
    ELSE uv

\* The suspends part of reshuffle: merge, then order.
order_suspends(uv, active) ==
    LET kept == uv.suspends \ jobs_merge_suspend(uv.suspends, active)
    IN  [check(uv, sq_order_assert(kept)) EXCEPT
                   !.suspends = kept,
                   !.sattr = [k \in BasicKind |-> IF k \in kept THEN @[k] ELSE {}],
                   !.sq = sq_order(kept), !.order = TRUE]

reshuffle(uv, active) ==
    LET uv1 == check(uv, ~is_suspends_conflict(uv))
        uv2 == IF uv1.order THEN uv1 ELSE order_suspends(uv1, active)
    IN  update_ready(jobs_merge_trigger_prepare(uv2))

-----------------------------------------------------------------------------
(* Pausing *)

pause(uv) == update_ready([check(uv, uv.order) EXCEPT !.dirty = TRUE, !.pause = TRUE])

resume(uv) == update_ready([check(uv, uv.order) EXCEPT !.dirty = TRUE, !.pause = FALSE])

-----------------------------------------------------------------------------
(* The triggered job *)

retrigger_trigger(uv) ==
    update_ready([check(uv, is_trigger_some(uv) /\ uv.order) EXCEPT
                    !.retrigger = TRUE, !.dirty = TRUE])

insert_trigger(uv, job) ==
    retrigger_trigger([check(uv, is_empty(uv) /\ uv.order) EXCEPT !.trigger = job])

finish_trigger_keepinterrupt(uv, result) ==
    LET uv1 == check(uv, is_trigger_some(uv) /\ uv.order)
    IN  IF finish_is_retry(uv.trigger, result)
        THEN retrigger_trigger([uv1 EXCEPT !.trigger = update_runkind(@)])
        ELSE update_ready([uv1 EXCEPT !.trigger = NoJob, !.retrigger = FALSE,
                                      !.dirty = TRUE])

finish_trigger_once(uv, result) ==
    update_ready([check(uv, is_trigger_some(uv) /\ uv.order) EXCEPT
                    !.trigger = NoJob, !.interrupt = FALSE,
                    !.retrigger = FALSE, !.dirty = TRUE])

\* finish: a composite job that has a next run-kind is run again, any other
\* one leaves the unit.  The flag pause is not touched.
finish_trigger(uv, result) ==
    LET uv1 == check(uv, is_trigger_some(uv) /\ uv.order)
    IN  IF finish_is_retry(uv.trigger, result)
        THEN retrigger_trigger([uv1 EXCEPT !.trigger = update_runkind(@)])
        ELSE update_ready([uv1 EXCEPT !.trigger = NoJob, !.interrupt = FALSE,
                                      !.retrigger = FALSE, !.dirty = TRUE])

do_next_trigger_retrigger(uv) ==
    update_ready([check(uv, is_trigger_some(uv) /\ uv.retrigger /\ uv.order /\ ~uv.interrupt)
                    EXCEPT !.retrigger = FALSE, !.dirty = TRUE])

\* The head of sq becomes the triggered job.  An interrupted job ends as
\* Merged, and leaves its attributes to a successor of its own kind.
do_next_trigger_suspend(uv) ==
    LET k   == Head(uv.sq)
        old == IF uv.interrupt /\ uv.trigger.kind = k THEN uv.trigger.attr ELSE {}
    IN  update_ready([check(uv, uv.sq # <<>> /\ uv.order) EXCEPT
            !.trigger = job_new(k, uv.sattr[k] \cup old),
            !.suspends = @ \ {k}, !.sattr[k] = {}, !.sq = Tail(@),
            !.interrupt = FALSE,
            !.retrigger = IF uv.interrupt THEN FALSE ELSE @,
            !.dirty = TRUE])

do_next_trigger(uv) ==
    IF is_ready_suspend(uv) THEN do_next_trigger_suspend(uv)
                            ELSE do_next_trigger_retrigger(check(uv, calc_ready(uv)))

\* again: the unit asked for the job to be run later (EAgain).
do_trigger(uv, again) ==
    LET uv1 == do_next_trigger(uv)
    IN  IF again THEN retrigger_trigger(pause(uv1)) ELSE uv1

-----------------------------------------------------------------------------
(* Order towards a neighbouring unit *)

is_next_trigger_order_with(uv, other, atom) ==
    LET job == get_next_trigger(uv)
    IN  \/ "ignore_order" \in job.attr
        \/ job.kind = "Nop"
        \/ \A o \in get_jobs(other) : is_order_with(job, o, atom) <= 0

-----------------------------------------------------------------------------
(* What holds of a unit's jobs between two calls of the table *)

\* The run queue lists the suspended jobs in their order; only a Nop may be
\* missing from it, once the Stop it was suspended with has been triggered.
QueueOK(uv) ==
    /\ uv.order /\ ~kinds_conflict(uv.suspends)
    /\ \A k, l \in uv.suspends \cap {"Start", "Restart", "Reload"} : k = l
    /\ \/ uv.sq = sq_order(uv.suspends)
       \/ uv.sq = <<>> /\ uv.suspends = {"Nop"}

\* The flags that only make sense for a running job are set only for one.
TriggerOK(uv) ==
    /\ uv.retrigger => is_trigger_some(uv)
    /\ uv.interrupt <=> /\ is_trigger_some(uv) /\ uv.sq # <<>>
                        /\ Head(uv.sq) \in {"Stop", "Restart"}

ReadyOK(uv) == ~uv.dirty /\ uv.ready = calc_ready(uv) /\ uv.up_ready = uv.ready

UvOK(uv) == uv \in UvType /\ ~uv.panic /\ QueueOK(uv) /\ TriggerOK(uv) /\ ReadyOK(uv)
=============================================================================
