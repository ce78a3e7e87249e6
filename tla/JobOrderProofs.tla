--------------------------- MODULE JobOrderProofs ---------------------------
(***************************************************************************)
(* Ordering units never makes them wait for each other (NoWaitCycle).      *)
(*                                                                         *)
(* A start waits for the jobs of the units before it, and any job waits    *)
(* for the stops of the units after it.  So among some units the last one  *)
(* that holds a stop can go on, provided that its stop is its next job;    *)
(* and if none holds a stop, the first unit can.                           *)
(***************************************************************************)
EXTENDS JobOrder, JobTableProofs, WellFoundedInduction

\* A unit that holds a job which is to stop it.
holds_stop(uv) == \E job \in get_jobs(uv) : job.rkind = "Stop"

\* The unit as it is when it is not paused.
unpaused(u) == [jobs[u] EXCEPT !.pause = FALSE]

\* The job that stops a unit is the next one to run on it.
LEMMA StopIsNext ==
    ASSUME NEW uv, UvOK(uv), holds_stop(uv), NEW w, w = [uv EXCEPT !.pause = FALSE],
           calc_ready(w)
    PROVE  get_next_trigger(w).rkind = "Stop"
<1>1. /\ w.sq = uv.sq /\ w.trigger = uv.trigger /\ w.interrupt = uv.interrupt
      /\ w.retrigger = uv.retrigger /\ w.pause = FALSE /\ w.order = TRUE
      /\ w.sattr = uv.sattr
  BY DEF UvOK, QueueOK, UvType
<1>2. CASE \E k \in {"Stop", "Restart"} : k \in uv.suspends
  <2>1. Mergeable(uv.suspends) /\ uv.sq = sq_order(uv.suspends) /\ uv.suspends # {}
    BY <1>2 DEF UvOK, QueueOK, Mergeable, UvType
  <2>2. uv.sq # <<>> /\ Head(uv.sq) \in {"Stop", "Restart"}
    BY <1>2, <2>1, SqOrderHead
  <2>3. is_ready_suspend(w)
    BY <1>1, <2>2 DEF is_ready_suspend, is_trigger_some, UvOK, TriggerOK
  <2>4. get_next_trigger(w) = job_new(Head(uv.sq), uv.sattr[Head(uv.sq)])
    BY <1>1, <2>3 DEF get_next_trigger, get_suspend
  <2>5. QED
    BY <2>2, <2>4 DEF job_new, job_rkind_new
<1>3. CASE ~\E k \in {"Stop", "Restart"} : k \in uv.suspends
  <2>1. uv.trigger # NoJob /\ uv.trigger.rkind = "Stop"
    BY <1>3 DEF holds_stop, get_jobs, get_suspend, job_new, job_rkind_new
  <2>2. ~uv.interrupt
    BY <1>3, InterruptSuspended, OKSettled
  <2>3. ~is_ready_suspend(w)
    BY <1>1, <2>1, <2>2 DEF is_ready_suspend, is_trigger_some
  <2>4. QED
    BY <1>1, <2>1, <2>3 DEF get_next_trigger
<1>4. QED
  BY <1>2, <1>3

\* When the next job of u waits for a job of o.
LEMMA BlockedBy ==
    ASSUME TableOK(jobs), NEW u \in Unit, NEW o \in Unit, is_blocked_by(u, o)
    PROVE  /\ calc_ready(unpaused(u))
           /\ \/ Rank[o] < Rank[u] /\ get_next_trigger(unpaused(u)).rkind # "Stop"
              \/ Rank[u] < Rank[o] /\ holds_stop(jobs[o])
<1> DEFINE n == get_next_trigger(unpaused(u))
<1>1. calc_ready(unpaused(u))
  BY DEF is_blocked_by, unpaused
<1>2. PICK atom \in {"After", "Before"} :
        /\ o \in (IF atom = "After" THEN AfterOf(u) ELSE BeforeOf(u))
        /\ ~is_next_trigger_order_with(unpaused(u), jobs[o], atom)
  BY DEF is_blocked_by, unpaused
<1>3. PICK j \in get_jobs(jobs[o]) : ~(is_order_with(n, j, atom) <= 0)
  BY <1>2 DEF is_next_trigger_order_with
<1>4. is_order_with(n, j, atom) = job_order_compare(n.rkind, j.rkind, atom)
  BY <1>3 DEF is_order_with
<1>5. CASE atom = "After"
  <2>1. n.rkind # "Stop"
    BY <1>3, <1>4, <1>5 DEF job_order_compare
  <2>2. Rank[o] < Rank[u]
    BY <1>2, <1>5, RankAssumption DEF AfterOf
  <2>3. QED
    BY <1>1, <2>1, <2>2
<1>6. CASE atom = "Before"
  <2>1. j.rkind = "Stop"
    BY <1>3, <1>4, <1>6 DEF job_order_compare
  <2>2. Rank[u] < Rank[o]
    BY <1>2, <1>6, RankAssumption DEF BeforeOf
  <2>3. QED
    BY <1>1, <1>3, <2>1, <2>2 DEF holds_stop
<1>7. QED
  BY <1>5, <1>6

\* A set of units has a first and a last one.
LEMMA FirstAndLast ==
    ASSUME NEW units \in SUBSET Unit, units # {}
    PROVE  /\ \E u \in units : \A o \in units : ~(Rank[o] < Rank[u])
           /\ \E u \in units : \A o \in units : ~(Rank[u] < Rank[o])
<1>0. \A u \in units : Rank[u] \in 0 .. MaxRank
  BY RankAssumption
<1> DEFINE T == {Rank[u] : u \in units}
           D == {MaxRank - Rank[u] : u \in units}
<1>1. T \subseteq Nat /\ T # {} /\ D \subseteq Nat /\ D # {}
  BY <1>0, RankAssumption
<1>2. PICK x \in T : \A y \in T : ~(<<y, x>> \in OpToRel(<, Nat))
  <2> HIDE DEF T
  <2>1. QED
    BY <1>1, NatLessThanWellFounded, WFMin
<1>3. PICK z \in D : \A y \in D : ~(<<y, z>> \in OpToRel(<, Nat))
  <2> HIDE DEF D
  <2>1. QED
    BY <1>1, NatLessThanWellFounded, WFMin
<1>4. \A y \in T : ~(y < x)
  BY <1>1, <1>2 DEF OpToRel
<1>5. \A y \in D : ~(y < z)
  BY <1>1, <1>3 DEF OpToRel
<1>6. \E u \in units : \A o \in units : ~(Rank[o] < Rank[u])
  BY <1>4
<1>7. \E u \in units : \A o \in units : ~(Rank[u] < Rank[o])
  <2>1. PICK u \in units : z = MaxRank - Rank[u]
    OBVIOUS
  <2>2. \A o \in units : ~(MaxRank - Rank[o] < MaxRank - Rank[u])
    BY <1>5, <2>1
  <2>3. QED
    BY <1>0, <2>2, RankAssumption
<1>8. QED
  BY <1>6, <1>7

\* In a consistent table no group of units waits for each other.
LEMMA NoWaitCycleOK == TableOK(jobs) => NoWaitCycle
<1> SUFFICES ASSUME TableOK(jobs), NEW units \in SUBSET Unit, units # {}
             PROVE  \E u \in units : \A o \in units : ~is_blocked_by(u, o)
  BY DEF NoWaitCycle
<1> DEFINE stops == {u \in units : holds_stop(jobs[u])}
<1>1. CASE stops # {}
  <2>1. PICK u \in stops : \A o \in stops : ~(Rank[u] < Rank[o])
    BY <1>1, FirstAndLast
  <2>2. ASSUME NEW o \in units, is_blocked_by(u, o) PROVE FALSE
    <3>1. calc_ready(unpaused(u)) => get_next_trigger(unpaused(u)).rkind = "Stop"
      BY StopIsNext DEF unpaused, TableOK
    <3>2. QED
      BY <2>1, <2>2, <3>1, BlockedBy
  <2>3. QED
    BY <2>2
<1>2. CASE stops = {}
  <2>1. PICK u \in units : \A o \in units : ~(Rank[o] < Rank[u])
    BY FirstAndLast
  <2>2. QED
    BY <1>2, <2>1, BlockedBy
<1>3. QED
  BY <1>1, <1>2

\* With an After/Before configuration that has no cycle, units that wait for
\* their neighbours never wait for each other, whatever jobs are committed,
\* finished, cancelled or removed, and in whatever order.
THEOREM OrderSafe ==
    ASSUME NoFlushMode
    PROVE  Spec => []NoWaitCycle
<1>1. TypeOK /\ TableInv => NoWaitCycle
  BY NoWaitCycleOK DEF TypeOK, TableInv, TableOK
<1>2. QED
  BY <1>1, TableSafe, PTL
=============================================================================
