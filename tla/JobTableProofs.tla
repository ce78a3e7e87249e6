--------------------------- MODULE JobTableProofs ---------------------------
(***************************************************************************)
(* The job table keeps its entries consistent, whatever its client does:   *)
(* TypeOK and TableInv together are inductive, and NoPanic and             *)
(* NoForgottenJob follow from them, for any units, order and stages.  So   *)
(* does StopsAreKept, by following a Stop through each operation.          *)
(*                                                                         *)
(* The modes Flush and Isolate are excluded: they break NoPanic.           *)
(***************************************************************************)
EXTENDS JobTable, JobUnitProofs

-----------------------------------------------------------------------------
(* Entries *)

\* A new entry is consistent.
LEMMA NewOK == UvOK(uv_new)
<1>1. uv_new \in UvType
  BY DEF uv_new, UvType, NoAttr
<1>2. Mergeable({}) /\ sq_order({}) = <<>>
  <2>1. Mergeable({})
    BY DEF Mergeable, kinds_conflict
  <2>2. QED
    BY <2>1, SqOrderHead
<1>3. QueueOK(uv_new)
  BY <1>2 DEF QueueOK, uv_new, Mergeable
<1>4. QED
  BY <1>1, <1>3 DEF UvOK, TriggerOK, ReadyOK, uv_new, is_trigger_some, calc_ready,
                    is_ready_suspend, is_ready_retrigger

\* The last two steps of every operation of the table on an entry.
LEMMA SyncOK ==
    ASSUME NEW uv, Settled(uv)
    PROVE  UvOK(clear_dirty(ready_sync(uv)))
<1> DEFINE w == clear_dirty(ready_sync(uv))
<1>1. w = [uv EXCEPT !.up_ready = uv.ready, !.dirty = FALSE]
  BY DEF clear_dirty, ready_sync
<1>2. uv \in UvType
  BY DEF Settled
<1>3. w \in UvType
  BY <1>1, <1>2 DEF UvType
<1>4. /\ w.panic = uv.panic /\ w.order = uv.order /\ w.suspends = uv.suspends
      /\ w.sq = uv.sq /\ w.trigger = uv.trigger /\ w.interrupt = uv.interrupt
      /\ w.retrigger = uv.retrigger /\ w.pause = uv.pause /\ w.dirty = FALSE
      /\ w.ready = uv.ready /\ w.up_ready = uv.ready
  BY <1>1, <1>2 DEF UvType
<1> HIDE DEF w
<1>5. calc_ready(w) = calc_ready(uv)
  BY <1>4 DEF calc_ready, is_ready_suspend, is_ready_retrigger, is_trigger_some
<1>6. UvOK(w)
  BY <1>3, <1>4, <1>5 DEF Settled, UvOK, QueueOK, TriggerOK, ReadyOK, is_trigger_some
<1>7. QED
  BY <1>6 DEF w

\* A consistent entry is settled and not dirty.
LEMMA OKSettled ==
    ASSUME NEW uv, UvOK(uv)
    PROVE  Settled(uv) /\ uv \in UvType /\ ~uv.panic /\ uv.dirty = FALSE
                       /\ check(uv, ~uv.dirty) = uv
  BY CheckTrue DEF UvOK, Settled, ReadyOK, UvType

\* reshuffle_entry orders what is pending and leaves the rest alone.
LEMMA ReshuffleEntryOK ==
    ASSUME NEW uv, Pending(uv) \/ UvOK(uv), NEW active \in BOOLEAN
    PROVE  UvOK(reshuffle_entry(uv, active))
<1>1. CASE Pending(uv)
  <2>1. reshuffle_entry(uv, active) = clear_dirty(ready_sync(reshuffle(uv, active)))
    BY <1>1 DEF reshuffle_entry, Pending
  <2>2. QED
    BY <1>1, <2>1, ReshuffleSettled, SyncOK
<1>2. CASE UvOK(uv)
  BY <1>2, OKSettled DEF reshuffle_entry
<1>3. QED
  BY <1>1, <1>2

\* An entry is dropped only when it is in no queue.
LEMMA GcOK ==
    ASSUME NEW uv, UvOK(uv)
    PROVE  /\ UvOK(try_gc_empty_unit(uv))
           /\ try_gc_empty_unit(uv) = IF is_empty(uv) THEN uv_new ELSE uv
<1>1. CASE is_empty(uv)
  <2>1. uv.sq = <<>> /\ uv.trigger = NoJob
    <3>1. Mergeable(uv.suspends) /\ uv.suspends = {}
      BY <1>1 DEF UvOK, QueueOK, Mergeable, UvType, is_empty
    <3>2. QED
      BY <1>1, <3>1, SqOrderHead DEF UvOK, QueueOK, is_empty
  <2>2. ~uv.panic /\ ~uv.ready /\ ~uv.up_ready
    BY <2>1 DEF UvOK, ReadyOK, calc_ready, is_ready_suspend, is_ready_retrigger,
                is_trigger_some
  <2>3. uv_new \in UvType
    BY NewOK DEF UvOK
  <2>4. try_gc_empty_unit(uv) = uv_new
    BY <1>1, <2>2, <2>3, CheckTrue DEF try_gc_empty_unit
  <2>5. QED
    BY <1>1, <2>4, NewOK
<1>2. CASE ~is_empty(uv)
  BY <1>2 DEF try_gc_empty_unit
<1>3. QED
  BY <1>1, <1>2

\* The end of a triggered job, seen by the table.
LEMMA FinishEntryOK ==
    ASSUME NEW uv, UvOK(uv), is_trigger_some(uv), NEW result
    PROVE  UvOK(finish_entry(uv, result))
<1>1. finish_entry(uv, result) = clear_dirty(ready_sync(finish_trigger(uv, result)))
  BY OKSettled DEF finish_entry
<1>2. Settled(finish_trigger(uv, result))
  BY OKSettled, FinishSettled
<1>3. QED
  BY <1>1, <1>2, SyncOK

\* Waking a unit, paused or not.
LEMMA ResumeEntryOK ==
    ASSUME NEW uv, UvOK(uv)
    PROVE  UvOK(resume_entry(uv)) /\ resume_entry(uv).trigger = uv.trigger
<1>1. Settled(uv) /\ check(uv, ~uv.dirty) = uv
  BY OKSettled
<1>2. CASE uv.pause
  <2> DEFINE w == resume(uv)
  <2>1. Settled(w) /\ w.trigger = uv.trigger
    BY <1>1, ResumeSettled
  <2>2. resume_entry(uv) = clear_dirty(ready_sync(w))
    BY <1>1, <1>2 DEF resume_entry
  <2> HIDE DEF w
  <2>3. clear_dirty(ready_sync(w)).trigger = w.trigger
    BY <2>1 DEF clear_dirty, ready_sync, Settled, UvType
  <2>4. QED
    BY <2>1, <2>2, <2>3, SyncOK
<1>3. CASE ~uv.pause
  BY <1>1, <1>3 DEF resume_entry
<1>4. QED
  BY <1>2, <1>3

\* Cancelling the Start and Verify of a unit.
LEMMA RemoveEntryOK ==
    ASSUME NEW uv, UvOK(uv)
    PROVE  UvOK(remove_entry(uv))
<1>1. /\ Settled(uv)
      /\ remove_entry(uv)
           = reshuffle_entry(remove_suspend(remove_suspend(uv, "Start"), "Verify"), FALSE)
  BY OKSettled DEF remove_entry
<1>2. QED
  BY <1>1, RemovePending, ReshuffleEntryOK

-----------------------------------------------------------------------------
(* The table *)

TableOK(t) == t \in [Unit -> UvType] /\ \A u \in Unit : UvOK(t[u])

\* Waking any units.
LEMMA ResumeUnitsOK ==
    ASSUME NEW t, TableOK(t), NEW units
    PROVE  TableOK(resume_units(t, units))
<1>1. \A o \in Unit : UvOK(IF o \in units THEN resume_entry(t[o]) ELSE t[o])
  BY ResumeEntryOK DEF TableOK
<1>2. QED
  BY <1>1 DEF resume_units, TableOK, UvOK

\* A stage without conflicts is merged and put in order, in a mode that does not
\* flush.
LEMMA MergedOK ==
    ASSUME NEW t, TableOK(t), NEW stage \in [Unit -> SUBSET BasicKind], NEW mode, NEW active,
           mode \notin {"Isolate", "Flush"}, ~trans_verify_is_conflict(stage),
           NEW m, m = t_merge_suspends(isolate_suspends(t, stage, mode), stage, mode)
    PROVE  /\ \A u \in Unit : Pending(m[u]) \/ UvOK(m[u])
           /\ TableOK(t_reshuffle(m, active))
<1> DEFINE r == t_reshuffle(m, active)
<1>1. \A u \in Unit : isolate_suspends(t, stage, mode)[u] = t[u]
  BY DEF isolate_suspends, is_isolated
<1>2. ASSUME NEW u \in Unit
      PROVE  Pending(m[u]) \/ UvOK(m[u])
  <2>1. CASE stage[u] = {}
    BY <1>1, <2>1 DEF t_merge_suspends, TableOK
  <2>2. CASE stage[u] # {}
    <3>1. m[u] = merge_suspends(t[u], stage[u], stage_attr(mode))
      BY <1>1, <2>2 DEF t_merge_suspends
    <3>2. stage_attr(mode) \in [BasicKind -> SUBSET JobAttr]
      BY DEF stage_attr, init_attr, JobAttr
    <3>3. stage[u] \in SUBSET BasicKind /\ ~kinds_conflict(stage[u]) /\ UvOK(t[u])
      BY DEF trans_verify_is_conflict, TableOK
    <3>4. QED
      BY <2>2, <3>1, <3>2, <3>3, MergePending
  <2>3. QED
    BY <2>1, <2>2
<1>3. ASSUME NEW u \in Unit
      PROVE  UvOK(r[u])
  <2> DEFINE b == u \in active
  <2>1. b \in BOOLEAN /\ r[u] = try_gc_empty_unit(reshuffle_entry(m[u], b))
    BY DEF t_reshuffle
  <2> HIDE DEF b
  <2>2. UvOK(reshuffle_entry(m[u], b))
    BY <1>2, <2>1, ReshuffleEntryOK
  <2>3. QED
    BY <2>1, <2>2, GcOK
<1>4. TableOK(r)
  BY <1>3 DEF TableOK, t_reshuffle, UvOK
<1>5. QED
  BY <1>2, <1>4

\* A transaction that passed verification.
LEMMA CommitOK ==
    ASSUME NEW t, TableOK(t), NEW stage \in [Unit -> SUBSET BasicKind], NEW mode, NEW active,
           mode \notin {"Isolate", "Flush"}, ~trans_verify_is_conflict(stage)
    PROVE  TableOK(commit(t, stage, mode, active))
  BY MergedOK, ResumeUnitsOK DEF commit

\* A popped unit is triggered or paused, and leaves the ready queue.
LEMMA TryTriggerOK ==
    ASSUME NEW t, TableOK(t), NEW u \in Unit, NEW again \in BOOLEAN, t[u].up_ready
    PROVE  /\ TableOK(try_trigger_entry(t, u, again))
           /\ \E new \in UvType :
                 /\ TriggerKept(t[u], new)
                 /\ try_trigger_entry(t, u, again)[u].trigger = new.trigger
                 /\ try_trigger_entry(t, u, again)[u].suspends = new.suspends
<1> DEFINE v == [t[u] EXCEPT !.up_ready = FALSE]
           new == IF is_uv_runnable(t, u) THEN do_trigger(v, again) ELSE pause(v)
<1>1. UvOK(t[u]) /\ t[u] \in UvType /\ t[u].dirty = FALSE /\ t[u].ready /\ order_assert(t, u)
  BY OKSettled DEF TableOK, UvOK, ReadyOK, QueueOK, order_assert, neighbours, AfterOf, BeforeOf
<1>2. v \in UvType
  BY <1>1 DEF UvType
<1>3. /\ v.panic = t[u].panic /\ v.order = t[u].order /\ v.suspends = t[u].suspends
      /\ v.sq = t[u].sq /\ v.trigger = t[u].trigger /\ v.interrupt = t[u].interrupt
      /\ v.retrigger = t[u].retrigger /\ v.pause = t[u].pause /\ v.ready = t[u].ready
      /\ v.up_ready = FALSE
  BY <1>1 DEF UvType
<1>4. check(v, ~t[u].dirty /\ order_assert(t, u)) = v
  BY <1>1, <1>2, CheckTrue
<1> HIDE DEF v
<1>5. calc_ready(v) = calc_ready(t[u])
  BY <1>3 DEF calc_ready, is_ready_suspend, is_ready_retrigger, is_trigger_some
<1>6. Settled(v) /\ v.ready
  BY <1>1, <1>2, <1>3, <1>5 DEF Settled, UvOK, QueueOK, TriggerOK, ReadyOK, is_trigger_some
<1>7. /\ Settled(new) /\ ~new.ready /\ ~is_empty(new) /\ new.up_ready = FALSE
      /\ TriggerKept(v, new)
  <2>1. CASE is_uv_runnable(t, u)
    BY <1>3, <1>6, <2>1, TriggerSettled DEF is_trigger_some, is_empty
  <2>2. CASE ~is_uv_runnable(t, u)
    <3>1. ~is_empty(v)
      <4>1. v.sq = <<>> \/ (Mergeable(v.suspends) /\ v.sq = sq_order(v.suspends))
        BY <1>6 DEF Settled, QueueOK, Mergeable, UvType
      <4>2. v.suspends = {} => v.sq = <<>>
        BY <4>1, SqOrderHead
      <4>3. QED
        BY <1>6, <4>2 DEF Settled, calc_ready, is_ready_suspend, is_ready_retrigger,
                          is_trigger_some, is_empty
    <3>2. /\ Settled(pause(v)) /\ ~pause(v).ready /\ pause(v).up_ready = FALSE
          /\ pause(v).trigger = v.trigger /\ pause(v).suspends = v.suspends
      BY <1>3, <1>6, PauseSettled
    <3>3. QED
      BY <2>2, <3>1, <3>2 DEF is_empty, TriggerKept
  <2>3. QED
    BY <2>1, <2>2
<1>8. try_trigger_entry(t, u, again)
        = [t EXCEPT ![u] = clear_dirty(check(new, ~new.ready /\ ~is_empty(new)))]
  BY <1>4 DEF try_trigger_entry, v
<1> HIDE DEF new
<1>9. check(new, ~new.ready /\ ~is_empty(new)) = new
  BY <1>7, CheckTrue DEF Settled
<1>10. clear_dirty(new) = clear_dirty(ready_sync(new))
  BY <1>7 DEF clear_dirty, ready_sync, Settled, UvType
<1>11. UvOK(clear_dirty(new))
  BY <1>7, <1>10, SyncOK
<1>12. TableOK(try_trigger_entry(t, u, again))
  BY <1>8, <1>9, <1>11 DEF TableOK, UvOK
<1>13. /\ try_trigger_entry(t, u, again)[u] = clear_dirty(new)
       /\ clear_dirty(new).trigger = new.trigger /\ clear_dirty(new).suspends = new.suspends
  BY <1>7, <1>8, <1>9, ZenonT(60) DEF TableOK, clear_dirty, Settled, UvType
<1>14. TriggerKept(t[u], new) /\ new \in UvType
  BY <1>3, <1>7 DEF TriggerKept, Settled, is_trigger_some
<1>15. QED
  BY <1>12, <1>13, <1>14

-----------------------------------------------------------------------------
(* The theorems *)

\* The job modes that leave the units outside the stage alone.
NoFlushMode == Mode \cap {"Isolate", "Flush"} = {}

IInv == TypeOK /\ TableInv

LEMMA IInvTable == IInv <=> TableOK(jobs)
  BY DEF IInv, TypeOK, TableInv, TableOK

\* An empty table is consistent.
LEMMA InitOK == Init => IInv
<1>1. ASSUME Init PROVE TableOK(jobs)
  BY <1>1, NewOK DEF Init, TableOK, UvOK
<1>2. QED
  BY <1>1, IInvTable

\* Every call of the table leaves it consistent.
LEMMA NextOK ==
    ASSUME NoFlushMode, IInv, [Next]_jobs
    PROVE  IInv'
<1>0. TableOK(jobs)
  BY IInvTable
<1>1. ASSUME Commit PROVE TableOK(jobs')
  <2>1. PICK stage \in Stage, mode \in Mode, active \in SUBSET Unit :
          job_trans_verify(jobs, stage, mode) /\ jobs' = commit(jobs, stage, mode, active)
    BY <1>1 DEF Commit, CommitStage, asks_state
  <2>2. /\ stage \in [Unit -> SUBSET BasicKind] /\ mode \notin {"Isolate", "Flush"}
        /\ ~trans_verify_is_conflict(stage)
    BY <2>1, UnitAssumption DEF NoFlushMode, job_trans_verify
  <2>3. TableOK(commit(jobs, stage, mode, active))
    BY <1>0, <2>2, CommitOK
  <2>4. QED
    BY <2>1, <2>3
<1>2. ASSUME TryTrigger PROVE TableOK(jobs')
  BY <1>0, <1>2, TryTriggerOK DEF TryTrigger
<1>3. ASSUME FinishTrigger PROVE TableOK(jobs')
  <2>1. PICK u \in Unit, result \in {"Done", "Failed"} :
          is_trigger_some(jobs[u]) /\ jobs' = t_finish_trigger(jobs, u, result)
    BY <1>3 DEF FinishTrigger
  <2> DEFINE e == try_gc_empty_unit(finish_entry(jobs[u], result))
             t == [jobs EXCEPT ![u] = e]
  <2>2. UvOK(e)
    BY <1>0, <2>1, FinishEntryOK, GcOK DEF TableOK
  <2> HIDE DEF e
  <2>3. TableOK(t)
    BY <1>0, <2>2 DEF TableOK, UvOK
  <2> HIDE DEF t
  <2>4. jobs' = resume_units(t, neighbours(u))
    BY <2>1 DEF t_finish_trigger, process_relation, t, e
  <2>5. QED
    BY <2>3, <2>4, ResumeUnitsOK
<1>4. ASSUME RemoveSuspends PROVE TableOK(jobs')
  <2>1. PICK u \in Unit : jobs' = t_remove_suspends(jobs, u)
    BY <1>4 DEF RemoveSuspends
  <2> DEFINE e == try_gc_empty_unit(remove_entry(jobs[u]))
             t == IF is_empty(jobs[u]) THEN jobs ELSE [jobs EXCEPT ![u] = e]
  <2>2. UvOK(e)
    BY <1>0, RemoveEntryOK, GcOK DEF TableOK
  <2> HIDE DEF e
  <2>3. TableOK(t)
    BY <1>0, <2>2 DEF TableOK, UvOK
  <2> HIDE DEF t
  <2>4. jobs' \in {t, resume_units(t, neighbours(u))}
    BY <2>1 DEF t_remove_suspends, process_relation, t, e
  <2>5. QED
    BY <2>3, <2>4, ResumeUnitsOK
<1>5. ASSUME ResumeUnit PROVE TableOK(jobs')
  BY <1>0, <1>5, ResumeUnitsOK DEF ResumeUnit
<1>6. ASSUME RemoveUnit PROVE TableOK(jobs')
  BY <1>0, <1>6, NewOK DEF RemoveUnit, TableOK, UvOK
<1>7. CASE UNCHANGED jobs
  BY <1>7 DEF IInv, TypeOK, TableInv
<1>8. QED
  BY <1>1, <1>2, <1>3, <1>4, <1>5, <1>6, <1>7, IInvTable
     DEF Next, Rest, IInv, TypeOK, TableInv, TableOK

\* Whatever its client does, in a mode that does not flush the table, the
\* entries are well formed, their queue and flags agree with their jobs, no
\* assertion of the code fails, and no job that could run is forgotten.
THEOREM TableSafe ==
    ASSUME NoFlushMode
    PROVE  Spec => [](TypeOK /\ TableInv /\ NoPanic /\ NoForgottenJob)
<1>1. IInv => NoPanic
  BY DEF IInv, TableInv, UvOK, NoPanic, is_panic
<1>2. IInv => NoForgottenJob
  <2> SUFFICES ASSUME IInv, NEW u \in Unit
               PROVE  /\ jobs[u].up_ready = calc_ready(jobs[u])
                      /\ (~jobs[u].pause /\ ~is_trigger_some(jobs[u])) =>
                            (jobs[u].up_ready <=>
                               jobs[u].suspends \ {"Nop"} # {} \/ jobs[u].sq # <<>>)
    BY DEF NoForgottenJob
  <2>1. UvOK(jobs[u])
    BY DEF IInv, TableInv
  <2>2. jobs[u].suspends \ {"Nop"} # {} => jobs[u].sq # <<>>
    <3>1. Mergeable(jobs[u].suspends)
      BY <2>1 DEF UvOK, QueueOK, Mergeable, UvType
    <3>2. QED
      BY <2>1, <3>1, SqOrderHead DEF UvOK, QueueOK
  <2>3. QED
    BY <2>1, <2>2 DEF UvOK, ReadyOK, QueueOK, calc_ready, is_ready_suspend,
                      is_ready_retrigger
<1>3. IInv /\ [Next]_jobs => IInv'
  BY NextOK
<1>4. QED
  BY InitOK, <1>1, <1>2, <1>3, PTL DEF Spec, IInv

\* No assertion of the code fails in a mode that does not flush the table.
THEOREM TableNeverPanics ==
    ASSUME NoFlushMode
    PROVE  Spec => []NoPanic
  BY TableSafe, PTL

-----------------------------------------------------------------------------
(* What stops a unit is neither lost nor imitated: StopsAreKept.  The argument is *)
(* about one entry at a time.  Every operation either leaves the triggered job    *)
(* and the suspended Stop alone, or replaces the one by the other; which of the   *)
(* two is decided by the flags and by the verification of a stage, and TableInv   *)
(* says that they can be trusted.                                                 *)


\* From uv to w the triggered job is kept or ended, and a suspended Stop stays.
Same(uv, w) ==
    /\ w.trigger.kind \in {uv.trigger.kind, "none"}
    /\ "Stop" \in uv.suspends => "Stop" \in w.suspends

\* What StopsAreKept asks of a unit whose entry uv becomes w.
Kept(uv, w) ==
    /\ (/\ is_trigger_some(uv) /\ is_trigger_some(w)
        /\ w.trigger.kind # uv.trigger.kind) => w.trigger.kind \in {"Stop", "Restart"}
    /\ ("Stop" \in uv.suspends /\ "irreversible" \in uv.sattr["Stop"]) =>
          "Stop" \in w.suspends \/ w.trigger.kind = "Stop" \/ w = uv_new

-----------------------------------------------------------------------------
(* Entries *)

\* A job that exists has a kind.
LEMMA TriggerKind ==
    ASSUME NEW uv \in UvType
    PROVE  is_trigger_some(uv) <=> uv.trigger.kind # "none"
  BY DEF UvType, JobType, NoJob, BasicKind, is_trigger_some

LEMMA SameKept ==
    ASSUME NEW uv \in UvType, NEW w \in UvType, Same(uv, w)
    PROVE  Kept(uv, w)
  BY TriggerKind DEF Same, Kept

LEMMA SameTrans ==
    ASSUME NEW uv, NEW v, NEW w, Same(uv, v), Same(v, w)
    PROVE  Same(uv, w)
  BY DEF Same

\* update_ready and check concern flags only.
LEMMA UpdateReadyKeeps ==
    ASSUME NEW uv \in UvType
    PROVE  /\ update_ready(uv) \in UvType
           /\ update_ready(uv).trigger = uv.trigger
           /\ update_ready(uv).suspends = uv.suspends
<1> DEFINE v == check(uv, calc_ready_assert(uv))
<1>1. v \in UvType /\ v.trigger = uv.trigger /\ v.suspends = uv.suspends
  BY DEF check, UvType
<1>2. update_ready(uv) = [v EXCEPT !.ready = calc_ready(uv)]
  BY DEF update_ready
<1>3. calc_ready(uv) \in BOOLEAN
  BY DEF calc_ready, is_ready_suspend, is_ready_retrigger
<1> HIDE DEF v
<1>4. QED
  BY <1>1, <1>2, <1>3, SMTT(30) DEF UvType

\* Ordering the suspended jobs drops none of a Stop (jobs_merge_suspend).
LEMMA ReshuffleSame ==
    ASSUME NEW uv, Pending(uv) \/ UvOK(uv), NEW active \in BOOLEAN
    PROVE  Same(uv, reshuffle_entry(uv, active))
<1> DEFINE kept == uv.suspends \ jobs_merge_suspend(uv.suspends, active)
           ord == [uv EXCEPT !.suspends = kept,
                     !.sattr = [k \in BasicKind |-> IF k \in kept THEN @[k] ELSE {}],
                     !.sq = sq_order(kept), !.order = TRUE]
           pre == jobs_merge_trigger_prepare(ord)
<1>1. CASE UvOK(uv)
  BY <1>1, OKSettled DEF reshuffle_entry, Same
<1>2. CASE Pending(uv)
  <2>1. uv \in UvType /\ uv.suspends \in SUBSET BasicKind /\ ~kinds_conflict(uv.suspends)
    BY <1>2 DEF Pending, UvType
  <2>2. Mergeable(kept) /\ sq_order_assert(kept)
    BY <2>1, MergeSuspend
  <2>3. "Stop" \in uv.suspends => "Stop" \in kept
    BY DEF jobs_merge_suspend
  <2>4. sq_order(kept) \in Seq(BasicKind) /\ kept \in SUBSET BasicKind
    BY <2>1, SqOrderType
  <2> HIDE DEF kept
  <2>5. ord \in UvType /\ ord.trigger = uv.trigger /\ ord.suspends = kept
    BY <2>1, <2>4 DEF UvType
  <2>6. order_suspends(uv, active) = ord
    BY <2>1, <2>2, CheckTrue DEF order_suspends, kept
  <2> HIDE DEF ord
  <2>7. pre \in UvType /\ pre.trigger = ord.trigger /\ pre.suspends = ord.suspends
    <3> DEFINE b == Head(ord.sq) \in {"Stop", "Restart"}
    <3>1. b \in BOOLEAN /\ pre \in {ord, [ord EXCEPT !.interrupt = b]}
      BY DEF jobs_merge_trigger_prepare
    <3> HIDE DEF b, pre
    <3>2. QED
      BY <2>5, <3>1 DEF UvType
  <2>8. reshuffle(uv, active) = update_ready(pre)
    BY <1>2, <2>1, <2>6, CheckTrue DEF reshuffle, is_suspends_conflict, Pending
  <2> HIDE DEF pre
  <2> DEFINE r == update_ready(pre)
  <2>9. r \in UvType /\ r.trigger = pre.trigger /\ r.suspends = pre.suspends
    BY <2>7, UpdateReadyKeeps
  <2> HIDE DEF r
  <2>10. reshuffle_entry(uv, active) = [r EXCEPT !.up_ready = r.ready, !.dirty = FALSE]
    BY <1>2, <2>8 DEF reshuffle_entry, Pending, clear_dirty, ready_sync, r
  <2>11. QED
    BY <2>3, <2>5, <2>7, <2>9, <2>10 DEF Same, UvType
<1>3. QED
  BY <1>1, <1>2

\* A dropped entry had no job.
LEMMA GcSame ==
    ASSUME NEW uv, UvOK(uv)
    PROVE  Same(uv, try_gc_empty_unit(uv))
  BY GcOK DEF Same, is_empty, uv_new

\* Waking a unit changes none of its jobs.
LEMMA ResumeEntrySame ==
    ASSUME NEW uv, UvOK(uv)
    PROVE  Same(uv, resume_entry(uv))
<1>1. Settled(uv) /\ check(uv, ~uv.dirty) = uv
  BY OKSettled
<1>2. CASE uv.pause
  <2> DEFINE w == resume(uv)
  <2>1. Settled(w) /\ w.trigger = uv.trigger /\ w.suspends = uv.suspends
    BY <1>1, ResumeSettled
  <2>2. resume_entry(uv) = clear_dirty(ready_sync(w))
    BY <1>1, <1>2 DEF resume_entry
  <2> HIDE DEF w
  <2>3. QED
    BY <2>1, <2>2 DEF clear_dirty, ready_sync, Settled, UvType, Same
<1>3. CASE ~uv.pause
  BY <1>1, <1>3 DEF resume_entry, Same
<1>4. QED
  BY <1>2, <1>3

\* The end of a job takes nothing from the suspended ones, and a composite job
\* that goes on keeps its kind.
LEMMA FinishEntrySame ==
    ASSUME NEW uv, UvOK(uv), is_trigger_some(uv), NEW result
    PROVE  Same(uv, finish_entry(uv, result))
<1> DEFINE f == finish_trigger(uv, result)
<1>1. Settled(uv) /\ check(uv, ~uv.dirty) = uv
  BY OKSettled
<1>2. /\ Settled(f) /\ f.suspends = uv.suspends
      /\ f.trigger.kind \in {uv.trigger.kind, "none"}
  BY <1>1, FinishSettled
<1>3. finish_entry(uv, result) = clear_dirty(ready_sync(f))
  BY <1>1 DEF finish_entry
<1> HIDE DEF f
<1>4. QED
  BY <1>2, <1>3 DEF clear_dirty, ready_sync, Settled, UvType, Same

\* Cancelling a Start and a Verify leaves a Stop alone.
LEMMA RemoveEntrySame ==
    ASSUME NEW uv, UvOK(uv)
    PROVE  Same(uv, remove_entry(uv))
<1> DEFINE v == remove_suspend(uv, "Start")
           w == remove_suspend(v, "Verify")
<1>1. /\ Settled(uv) /\ uv \in UvType /\ ~uv.panic
      /\ remove_entry(uv) = reshuffle_entry(w, FALSE)
  BY OKSettled DEF remove_entry
<1>2. Pending(w)
  BY <1>1, RemovePending
<1>3. Changed(uv, uv.suspends \ {"Start"}, v)
  BY <1>1, RemoveSuspend DEF BasicKind
<1> HIDE DEF v
<1>4. Changed(v, v.suspends \ {"Verify"}, w)
  BY <1>3, RemoveSuspend DEF BasicKind, Changed
<1> HIDE DEF w
<1>5. Same(uv, w)
  BY <1>3, <1>4 DEF Changed, Same
<1>6. Same(w, reshuffle_entry(w, FALSE))
  BY <1>2, ReshuffleSame
<1>7. QED
  BY <1>1, <1>5, <1>6, SameTrans

\* A verified request flushes no Stop that may not be replaced.
LEMMA MergeSame ==
    ASSUME NEW uv, UvOK(uv), NEW kinds \in SUBSET BasicKind, kinds # {},
           NEW attr \in [BasicKind -> SUBSET JobAttr],
           "Stop" \in uv.suspends => \/ ~is_suspends_conflict_with(uv, kinds)
                                     \/ is_suspends_replace_with(uv, kinds),
           NEW w, w = merge_suspends(uv, kinds, attr)
    PROVE  /\ w.trigger = uv.trigger
           /\ ("Stop" \in uv.suspends /\ "irreversible" \in uv.sattr["Stop"])
                 => "Stop" \in w.suspends
<1> DEFINE f == IF is_suspends_conflict_with(uv, kinds) THEN flush_suspends(uv) ELSE uv
<1>1. uv \in UvType /\ ~uv.panic /\ ~kinds_conflict(uv.suspends)
  BY DEF UvOK, QueueOK
<1>2. w = union_suspends(f, kinds, attr)
  BY DEF merge_suspends
<1>3. NoAttr \in [BasicKind -> SUBSET JobAttr]
  BY DEF NoAttr
<1>4. Changed(uv, {}, flush_suspends(uv))
  BY <1>1, <1>3, ChangeSuspends DEF flush_suspends, with_suspends
<1>5. /\ f \in UvType /\ ~f.panic /\ f.trigger = uv.trigger
      /\ ~is_suspends_conflict_with(uv, kinds) => f.suspends = uv.suspends
  BY <1>1, <1>4 DEF Changed
<1> HIDE DEF f
<1>6. w.trigger = f.trigger /\ w.suspends = f.suspends \cup kinds
  <2>1. CASE kinds \subseteq f.suspends
    BY <1>2, <1>5, <2>1 DEF union_suspends, UvType
  <2>2. CASE ~(kinds \subseteq f.suspends)
    <3>1. Changed(f, f.suspends \cup kinds, union_suspends(f, kinds, attr))
      BY <1>5, <2>2, UnionSuspends
    <3>2. QED
      BY <1>2, <3>1 DEF Changed
  <2>3. QED
    BY <2>1, <2>2
<1>7. ASSUME "Stop" \in uv.suspends, "irreversible" \in uv.sattr["Stop"]
      PROVE  "Stop" \in w.suspends
  <2>1. CASE is_suspends_conflict_with(uv, kinds)
    <3>1. kinds \subseteq {"Stop", "Nop"}
      BY <1>7, <2>1 DEF is_suspends_replace_with, is_suspends_irreversible
    <3>2. uv.suspends \subseteq {"Stop", "Nop"}
      BY <1>1, <1>7 DEF kinds_conflict
    <3>3. QED
      BY <2>1, <3>1, <3>2 DEF is_suspends_conflict_with, kinds_conflict
  <2>2. CASE ~is_suspends_conflict_with(uv, kinds)
    BY <1>5, <1>6, <1>7, <2>2
  <2>3. QED
    BY <2>1, <2>2
<1>8. QED
  BY <1>5, <1>6, <1>7


-----------------------------------------------------------------------------
(* The table *)

\* Waking units changes none of their jobs.
LEMMA ResumeUnitsSame ==
    ASSUME NEW t, TableOK(t), NEW units, NEW u \in Unit
    PROVE  Same(t[u], resume_units(t, units)[u])
<1>1. Same(t[u], resume_entry(t[u])) /\ Same(t[u], t[u])
  BY ResumeEntrySame DEF TableOK, Same
<1>2. QED
  BY <1>1 DEF resume_units

\* A transaction that passed verification.
LEMMA CommitKept ==
    ASSUME NEW t, TableOK(t), NEW stage \in [Unit -> SUBSET BasicKind], NEW mode, NEW active,
           mode \notin {"Isolate", "Flush"}, job_trans_verify(t, stage, mode), NEW u \in Unit
    PROVE  Kept(t[u], commit(t, stage, mode, active)[u])
<1> DEFINE m == t_merge_suspends(isolate_suspends(t, stage, mode), stage, mode)
           r == t_reshuffle(m, active)
           c == commit(t, stage, mode, active)
<1>1. ~trans_verify_is_conflict(stage) /\ TableOK(c) /\ UvOK(t[u])
  BY CommitOK DEF job_trans_verify, TableOK
<1>2. TableOK(r) /\ \A o \in Unit : Pending(m[o]) \/ UvOK(m[o])
  BY <1>1, MergedOK
<1>3. /\ m[u].trigger = t[u].trigger
      /\ ("Stop" \in t[u].suspends /\ "irreversible" \in t[u].sattr["Stop"])
            => "Stop" \in m[u].suspends
  <2>1. isolate_suspends(t, stage, mode)[u] = t[u]
    BY DEF isolate_suspends, is_isolated
  <2>2. CASE stage[u] = {}
    BY <2>1, <2>2 DEF t_merge_suspends
  <2>3. CASE stage[u] # {}
    <3>1. m[u] = merge_suspends(t[u], stage[u], stage_attr(mode))
      BY <2>1, <2>3 DEF t_merge_suspends
    <3>2. stage_attr(mode) \in [BasicKind -> SUBSET JobAttr]
      BY DEF stage_attr, init_attr, JobAttr
    <3>3. "Stop" \in t[u].suspends =>
            \/ ~is_suspends_conflict_with(t[u], stage[u])
            \/ is_suspends_replace_with(t[u], stage[u])
      BY <2>3 DEF job_trans_verify, trans_verify_is_destructive, is_table_conflict_with,
                  is_table_replace_with, is_empty
    <3>4. stage[u] \in SUBSET BasicKind
      OBVIOUS
    <3> DEFINE uv == t[u]
               kinds == stage[u]
               attr == stage_attr(mode)
               w == m[u]
    <3>5. /\ UvOK(uv) /\ kinds \in SUBSET BasicKind /\ kinds # {}
          /\ attr \in [BasicKind -> SUBSET JobAttr] /\ w = merge_suspends(uv, kinds, attr)
          /\ "Stop" \in uv.suspends => \/ ~is_suspends_conflict_with(uv, kinds)
                                       \/ is_suspends_replace_with(uv, kinds)
      BY <1>1, <2>3, <3>1, <3>2, <3>3, <3>4
    <3> HIDE DEF uv, kinds, attr, w
    <3>6. /\ w.trigger = uv.trigger
          /\ ("Stop" \in uv.suspends /\ "irreversible" \in uv.sattr["Stop"])
                => "Stop" \in w.suspends
      BY <3>5, MergeSame
    <3>7. QED
      BY <3>6 DEF w, uv
  <2>4. QED
    BY <2>2, <2>3
<1> HIDE DEF m
<1>4. Same(m[u], r[u])
  <2> DEFINE b == u \in active
             e == reshuffle_entry(m[u], b)
  <2>1. b \in BOOLEAN /\ r[u] = try_gc_empty_unit(e)
    BY DEF t_reshuffle
  <2> HIDE DEF b
  <2>2. Same(m[u], e) /\ UvOK(e)
    BY <1>2, <2>1, ReshuffleSame, ReshuffleEntryOK
  <2> HIDE DEF e
  <2>3. QED
    BY <2>1, <2>2, GcSame, SameTrans
<1> HIDE DEF r
<1>5. Same(r[u], c[u])
  BY <1>2, ResumeUnitsSame DEF commit, m, r
<1> HIDE DEF c
<1>6. Same(m[u], c[u])
  BY <1>4, <1>5, SameTrans
<1>7. t[u] \in UvType /\ c[u] \in UvType
  BY <1>1 DEF TableOK
<1>8. QED
  BY <1>3, <1>6, <1>7, TriggerKind DEF Same, Kept, c

\* A unit that is popped: its next job, or a pause.
LEMMA TryTriggerKept ==
    ASSUME NEW t, TableOK(t), NEW u \in Unit, NEW again \in BOOLEAN, t[u].up_ready,
           NEW o \in Unit
    PROVE  Kept(t[o], try_trigger_entry(t, u, again)[o])
<1>1. CASE o # u
  <2>1. try_trigger_entry(t, u, again)[o] = t[o]
    BY <1>1 DEF try_trigger_entry, TableOK
  <2>2. QED
    BY <2>1 DEF Kept
<1>2. CASE o = u
  <2> DEFINE w == try_trigger_entry(t, u, again)[u]
  <2>1. PICK new \in UvType : /\ TriggerKept(t[u], new)
                              /\ w.trigger = new.trigger /\ w.suspends = new.suspends
    BY TryTriggerOK
  <2> HIDE DEF w
  <2>2. QED
    BY <1>2, <2>1 DEF w, Kept, TriggerKept
<1>3. QED
  BY <1>1, <1>2

\* One step of the table, whatever its client does.
LEMMA StepKept ==
    ASSUME NoFlushMode, IInv, Next, NEW o \in Unit
    PROVE  Kept(jobs[o], jobs'[o])
<1>0. TableOK(jobs) /\ jobs[o] \in UvType /\ jobs'[o] \in UvType
  BY IInvTable, NextOK DEF TableOK, IInv, TypeOK
<1>1. ASSUME Commit PROVE Kept(jobs[o], jobs'[o])
  <2>1. PICK stage \in Stage, mode \in Mode, active \in SUBSET Unit :
          job_trans_verify(jobs, stage, mode) /\ jobs' = commit(jobs, stage, mode, active)
    BY <1>1 DEF Commit, CommitStage, asks_state
  <2>2. stage \in [Unit -> SUBSET BasicKind] /\ mode \notin {"Isolate", "Flush"}
    BY <2>1, UnitAssumption DEF NoFlushMode
  <2>3. Kept(jobs[o], commit(jobs, stage, mode, active)[o])
    BY <1>0, <2>1, <2>2, CommitKept
  <2>4. QED
    BY <2>1, <2>3
<1>2. ASSUME TryTrigger PROVE Kept(jobs[o], jobs'[o])
  <2>1. PICK u \in Unit, again \in BOOLEAN :
          jobs[u].up_ready /\ jobs' = try_trigger_entry(jobs, u, again)
    BY <1>2 DEF TryTrigger
  <2>2. Kept(jobs[o], try_trigger_entry(jobs, u, again)[o])
    BY <1>0, <2>1, TryTriggerKept
  <2>3. QED
    BY <2>1, <2>2
<1>3. ASSUME FinishTrigger PROVE Kept(jobs[o], jobs'[o])
  <2>1. PICK u \in Unit, result \in {"Done", "Failed"} :
          is_trigger_some(jobs[u]) /\ jobs' = t_finish_trigger(jobs, u, result)
    BY <1>3 DEF FinishTrigger
  <2> DEFINE f == finish_entry(jobs[u], result)
             e == try_gc_empty_unit(f)
             t == [jobs EXCEPT ![u] = e]
  <2>2. UvOK(f) /\ Same(jobs[u], f)
    BY <1>0, <2>1, FinishEntryOK, FinishEntrySame DEF TableOK
  <2> HIDE DEF f
  <2>3. UvOK(e) /\ Same(jobs[u], e)
    BY <2>2, GcOK, GcSame, SameTrans
  <2> HIDE DEF e
  <2>4. TableOK(t) /\ Same(jobs[o], t[o])
    BY <1>0, <2>3 DEF TableOK, UvOK, Same
  <2> HIDE DEF t
  <2>5. jobs' = resume_units(t, neighbours(u))
    BY <2>1 DEF t_finish_trigger, process_relation, t, e, f
  <2>6. Same(t[o], jobs'[o])
    BY <2>4, <2>5, ResumeUnitsSame
  <2>7. QED
    BY <1>0, <2>4, <2>6, SameTrans, SameKept
<1>4. ASSUME RemoveSuspends PROVE Kept(jobs[o], jobs'[o])
  <2>1. PICK u \in Unit : jobs' = t_remove_suspends(jobs, u)
    BY <1>4 DEF RemoveSuspends
  <2> DEFINE f == remove_entry(jobs[u])
             e == try_gc_empty_unit(f)
             t == IF is_empty(jobs[u]) THEN jobs ELSE [jobs EXCEPT ![u] = e]
  <2>2. UvOK(f) /\ Same(jobs[u], f)
    BY <1>0, RemoveEntryOK, RemoveEntrySame DEF TableOK
  <2> HIDE DEF f
  <2>3. UvOK(e) /\ Same(jobs[u], e)
    BY <2>2, GcOK, GcSame, SameTrans
  <2> HIDE DEF e
  <2>4. TableOK(t) /\ Same(jobs[o], t[o])
    BY <1>0, <2>3 DEF TableOK, UvOK, Same
  <2> HIDE DEF t
  <2>5. jobs' \in {t, resume_units(t, neighbours(u))}
    BY <2>1 DEF t_remove_suspends, process_relation, t, e, f
  <2>6. Same(t[o], t[o]) /\ Same(t[o], resume_units(t, neighbours(u))[o])
    BY <2>4, ResumeUnitsSame DEF Same
  <2>7. Same(t[o], jobs'[o])
    BY <2>5, <2>6
  <2>8. QED
    BY <1>0, <2>4, <2>7, SameTrans, SameKept
<1>5. ASSUME ResumeUnit PROVE Kept(jobs[o], jobs'[o])
  <2>1. PICK u \in Unit : jobs' = resume_units(jobs, {u})
    BY <1>5 DEF ResumeUnit
  <2>2. QED
    BY <1>0, <2>1, ResumeUnitsSame, SameKept
<1>6. ASSUME RemoveUnit PROVE Kept(jobs[o], jobs'[o])
  <2>1. PICK u \in Unit : jobs' = [jobs EXCEPT ![u] = uv_new]
    BY <1>6 DEF RemoveUnit
  <2>2. jobs'[o] \in {jobs[o], uv_new}
    BY <1>0, <2>1 DEF TableOK
  <2>3. Kept(jobs[o], jobs[o]) /\ Kept(jobs[o], uv_new)
    BY DEF Kept, uv_new, is_trigger_some
  <2>4. QED
    BY <2>2, <2>3
<1>7. QED
  BY <1>1, <1>2, <1>3, <1>4, <1>5, <1>6 DEF Next, Rest

\* In a mode that does not flush the table, a running job gives way only to a
\* Stop or a Restart, and a Stop that may not be replaced is never lost, whatever
\* is requested, finished or cancelled in the meantime (junit.rs).
THEOREM StopsSafe ==
    ASSUME NoFlushMode
    PROVE  Spec => StopsAreKept
<1>1. Spec => []IInv
  BY TableSafe, PTL DEF IInv
<1> DEFINE Only(u) == (/\ is_trigger_some(jobs[u]) /\ is_trigger_some(jobs'[u])
                       /\ jobs'[u].trigger.kind # jobs[u].trigger.kind)
                          => jobs'[u].trigger.kind \in {"Stop", "Restart"}
           Irrev(u) == ("Stop" \in jobs[u].suspends /\ "irreversible" \in jobs[u].sattr["Stop"])
                          => \/ "Stop" \in jobs'[u].suspends
                             \/ jobs'[u].trigger.kind = "Stop"
                             \/ jobs'[u] = uv_new
<1>2. IInv /\ [Next]_jobs => [\A u \in Unit : Only(u)]_jobs
  BY StepKept DEF Kept
<1>3. IInv /\ [Next]_jobs => [\A u \in Unit : Irrev(u)]_jobs
  BY StepKept DEF Kept
<1>4. QED
  BY <1>1, <1>2, <1>3, PTL DEF Spec, StopsAreKept, OnlyStopInterrupts, IrreversibleStopKept
=============================================================================
