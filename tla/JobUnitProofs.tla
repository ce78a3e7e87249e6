---------------------------- MODULE JobUnitProofs ----------------------------
(***************************************************************************)
(* What the operations on the jobs of one unit preserve (junit.rs): the    *)
(* run queue sq_order builds, and UvOK across every operation the table    *)
(* calls.                                                                  *)
(***************************************************************************)
EXTENDS JobUnit, SequenceTheorems, TLAPS

-----------------------------------------------------------------------------
(* Short sequences *)

\* Concatenations that build a run queue, which never has more than three kinds.
LEMMA ShortConcat ==
    ASSUME NEW x \in BasicKind, NEW y \in BasicKind, NEW z \in BasicKind
    PROVE  /\ <<>> \o <<>> = <<>>
           /\ <<x>> \o <<>> = <<x>> /\ <<>> \o <<x>> = <<x>> /\ <<x, y>> \o <<>> = <<x, y>>
           /\ <<x>> \o <<y>> = <<x, y>> /\ <<x, y>> \o <<z>> = <<x, y, z>>
<1>1. /\ <<x>> \in Seq(BasicKind) /\ <<y>> \in Seq(BasicKind) /\ <<z>> \in Seq(BasicKind)
      /\ <<x, y>> \in Seq(BasicKind) /\ <<x, y, z>> \in Seq(BasicKind) /\ <<>> \in Seq(BasicKind)
  OBVIOUS
<1>2. /\ <<>> \o <<>> = <<>> /\ <<x>> \o <<>> = <<x>>
      /\ <<>> \o <<x>> = <<x>> /\ <<x, y>> \o <<>> = <<x, y>>
  BY <1>1, ConcatEmptySeq
<1>3. <<x>> \o <<y>> = <<x, y>>
  <2> DEFINE s == <<x>> \o <<y>>
  <2>1. s \in Seq(BasicKind) /\ Len(s) = 2 /\ s[1] = x /\ s[2] = y
    BY <1>1, ConcatProperties
  <2>2. \A i \in 1 .. Len(s) : s[i] = <<x, y>>[i]
    BY <2>1
  <2> HIDE DEF s
  <2>3. QED
    BY <1>1, <2>1, <2>2, SeqEqual DEF s
<1>4. <<x, y>> \o <<z>> = <<x, y, z>>
  <2> DEFINE s == <<x, y>> \o <<z>>
  <2>1. s \in Seq(BasicKind) /\ Len(s) = 3 /\ s[1] = x /\ s[2] = y /\ s[3] = z
    BY <1>1, ConcatProperties
  <2>2. \A i \in 1 .. Len(s) : s[i] = <<x, y, z>>[i]
    BY <2>1
  <2> HIDE DEF s
  <2>3. QED
    BY <1>1, <2>1, <2>2, SeqEqual DEF s
<1>5. QED
  BY <1>2, <1>3, <1>4

-----------------------------------------------------------------------------
(* The run queue of a set of kinds *)

\* The kinds that can be suspended together once they are merged.
Mergeable(kinds) ==
    /\ kinds \in SUBSET BasicKind /\ ~kinds_conflict(kinds)
    /\ \A k, l \in kinds \cap {"Start", "Restart", "Reload"} : k = l

\* sq_order builds a sequence of kinds, empty only when nothing is suspended.
LEMMA SqOrderType ==
    ASSUME NEW S \in SUBSET BasicKind
    PROVE  sq_order(S) \in Seq(BasicKind)
<1>1. /\ "Start" \in BasicKind /\ "Restart" \in BasicKind /\ "Reload" \in BasicKind
      /\ "Verify" \in BasicKind /\ "Nop" \in BasicKind /\ "Stop" \in BasicKind
  BY DEF BasicKind
<1>2. \A k \in BasicKind : sq_order_pushback(S, k) \in Seq(BasicKind)
  BY DEF sq_order_pushback
<1>3. sq_mutops(S) \in Seq(BasicKind)
  BY <1>1, <1>2, ConcatProperties DEF sq_mutops
<1>4. QED
  BY <1>1, <1>2, <1>3, ConcatProperties DEF sq_order

\* The run queue of a mergeable set of kinds, written out.
Tail2(S, x, y) ==
    CASE "Verify" \in S /\ "Nop" \in S -> y = <<x, "Verify", "Nop">>
      [] "Verify" \in S /\ "Nop" \notin S -> y = <<x, "Verify">>
      [] "Verify" \notin S /\ "Nop" \in S -> y = <<x, "Nop">>
      [] OTHER -> y = <<x>>

SqForm(S) ==
    \/ "Stop" \in S /\ S \subseteq {"Stop", "Nop"} /\ sq_order(S) = <<"Stop">>
    \/ \E m \in {"Start", "Restart", "Reload"} :
          m \in S /\ S \subseteq {m, "Verify", "Nop"} /\ Tail2(S, m, sq_order(S))
    \/ S = {"Verify", "Nop"} /\ sq_order(S) = <<"Verify", "Nop">>
    \/ S = {"Verify"} /\ sq_order(S) = <<"Verify">>
    \/ S = {"Nop"} /\ sq_order(S) = <<"Nop">>
    \/ S = {} /\ sq_order(S) = <<>>

LEMMA SqOrderForm ==
    ASSUME NEW S, Mergeable(S)
    PROVE  SqForm(S)
<1>0. "Verify" \in BasicKind /\ "Nop" \in BasicKind
  BY DEF BasicKind
<1>1. CASE "Stop" \in S
  BY <1>1 DEF sq_order, kinds_conflict, Mergeable, SqForm, BasicKind
<1>2. ASSUME NEW m \in {"Start", "Restart", "Reload"}, m \in S
      PROVE  SqForm(S)
  <2>0. m \in BasicKind
    BY DEF BasicKind
  <2>1. S \subseteq {m, "Verify", "Nop"}
    BY <1>2 DEF kinds_conflict, Mergeable, BasicKind
  <2>2. sq_mutops(S) = <<m>>
    BY <1>2, <2>0, <2>1, ShortConcat DEF sq_mutops, sq_order_pushback
  <2>3. sq_order(S) = <<m>> \o sq_order_pushback(S, "Verify") \o sq_order_pushback(S, "Nop")
    BY <1>2, <2>1, <2>2 DEF sq_order
  <2>4. Tail2(S, m, sq_order(S))
    <3>1. CASE "Verify" \in S
      <4>1. <<m>> \o sq_order_pushback(S, "Verify") = <<m, "Verify">>
        BY <1>0, <2>0, <3>1, ShortConcat DEF sq_order_pushback
      <4>2. sq_order(S) = <<m, "Verify">> \o sq_order_pushback(S, "Nop")
        BY <2>3, <4>1
      <4>3. QED
        BY <1>0, <2>0, <3>1, <4>2, ShortConcat DEF Tail2, sq_order_pushback
    <3>2. CASE "Verify" \notin S
      <4>1. <<m>> \o sq_order_pushback(S, "Verify") = <<m>>
        BY <1>0, <2>0, <3>2, ShortConcat DEF sq_order_pushback
      <4>2. sq_order(S) = <<m>> \o sq_order_pushback(S, "Nop")
        BY <2>3, <4>1, SMTT(30)
      <4>3. QED
        BY <1>0, <2>0, <3>2, <4>2, ShortConcat DEF Tail2, sq_order_pushback
    <3>3. QED
      BY <3>1, <3>2
  <2>5. QED
    BY <1>2, <2>1, <2>4 DEF SqForm
<1>3. CASE S \subseteq {"Verify", "Nop"}
  <2>1. sq_mutops(S) = <<>>
    BY <1>0, <1>3, ShortConcat DEF sq_mutops, sq_order_pushback
  <2>2. sq_order(S) = <<>> \o sq_order_pushback(S, "Verify") \o sq_order_pushback(S, "Nop")
    BY <1>3, <2>1 DEF sq_order
  <2>3. <<>> \o sq_order_pushback(S, "Verify") = sq_order_pushback(S, "Verify")
    BY <1>0, ShortConcat DEF sq_order_pushback
  <2>4. sq_order(S) = sq_order_pushback(S, "Verify") \o sq_order_pushback(S, "Nop")
    BY <2>2, <2>3
  <2>5. QED
    BY <1>0, <1>3, <2>4, ShortConcat DEF SqForm, sq_order_pushback
<1>4. QED
  BY <1>1, <1>2, <1>3 DEF Mergeable, BasicKind

\* The run queue is empty only when nothing is suspended, its head is a
\* suspended kind, and a suspended Stop or Restart comes first.
LEMMA SqOrderHead ==
    ASSUME NEW S, Mergeable(S)
    PROVE  /\ sq_order(S) = <<>> <=> S = {}
           /\ S # {} => Head(sq_order(S)) \in S
           /\ S # {} => \A k \in {"Stop", "Restart"} : Head(sq_order(S)) = k <=> k \in S
<1>1. SqForm(S)
  BY SqOrderForm
<1>2. QED
  BY <1>1 DEF SqForm, Tail2

\* Without its head the run queue is the run queue of the other suspended
\* kinds, but for a Nop left behind by a Stop, and starts with no Stop or Restart.
LEMMA SqOrderTail ==
    ASSUME NEW S, Mergeable(S), S # {},
           NEW rest, rest = S \ {Head(sq_order(S))},
           NEW tail, tail = Tail(sq_order(S))
    PROVE  /\ Mergeable(rest)
           /\ tail = sq_order(rest) \/ (tail = <<>> /\ rest = {"Nop"})
           /\ tail # <<>> => Head(tail) \notin {"Stop", "Restart"}
<1>1. Mergeable(rest)
  BY DEF Mergeable, kinds_conflict
<1>2. SqForm(S) /\ SqForm(rest)
  BY <1>1, SqOrderForm
<1>3. CASE "Stop" \in S
  <2>1. sq_order(S) = <<"Stop">> /\ rest \subseteq {"Nop"}
    BY <1>2, <1>3 DEF SqForm
  <2>2. QED
    BY <1>1, <1>2, <2>1 DEF SqForm
<1>4. ASSUME NEW m \in {"Start", "Restart", "Reload"}, m \in S
      PROVE  tail = sq_order(rest) /\ (tail # <<>> => Head(tail) \notin {"Stop", "Restart"})
  <2>1. Tail2(S, m, sq_order(S)) /\ S \subseteq {m, "Verify", "Nop"}
    BY <1>2, <1>4 DEF SqForm
  <2>2. rest = S \ {m} /\ rest \subseteq {"Verify", "Nop"}
    BY <2>1 DEF Tail2
  <2>3. CASE "Verify" \in S /\ "Nop" \in S
    <3>1. rest = {"Verify", "Nop"} /\ sq_order(S) = <<m, "Verify", "Nop">>
      BY <2>1, <2>2, <2>3 DEF Tail2
    <3>2. sq_order(rest) = <<"Verify", "Nop">>
      BY <1>2, <3>1 DEF SqForm
    <3>3. QED
      BY <3>1, <3>2
  <2>4. CASE "Verify" \in S /\ "Nop" \notin S
    <3>1. rest = {"Verify"} /\ sq_order(S) = <<m, "Verify">>
      BY <2>1, <2>2, <2>4 DEF Tail2
    <3>2. sq_order(rest) = <<"Verify">>
      BY <1>2, <3>1 DEF SqForm
    <3>3. QED
      BY <3>1, <3>2
  <2>5. CASE "Verify" \notin S /\ "Nop" \in S
    <3>1. rest = {"Nop"} /\ sq_order(S) = <<m, "Nop">>
      BY <2>1, <2>2, <2>5 DEF Tail2
    <3>2. sq_order(rest) = <<"Nop">>
      BY <1>2, <3>1 DEF SqForm
    <3>3. QED
      BY <3>1, <3>2
  <2>6. CASE "Verify" \notin S /\ "Nop" \notin S
    <3>1. rest = {} /\ sq_order(S) = <<m>>
      BY <2>1, <2>2, <2>6 DEF Tail2
    <3>2. sq_order(rest) = <<>>
      BY <1>2, <3>1 DEF SqForm
    <3>3. QED
      BY <3>1, <3>2
  <2>7. QED
    BY <2>3, <2>4, <2>5, <2>6
<1>5. CASE S \subseteq {"Verify", "Nop"}
  <2>1. CASE "Verify" \in S /\ "Nop" \in S
    <3>1. sq_order(S) = <<"Verify", "Nop">>
      BY <1>2, <1>5, <2>1 DEF SqForm
    <3>2. Head(sq_order(S)) = "Verify" /\ tail = <<"Nop">>
      BY <3>1
    <3>3. "Nop" \in rest /\ rest \subseteq {"Nop"}
      BY <1>5, <2>1, <3>2
    <3>4. sq_order(rest) = <<"Nop">>
      BY <1>2, <3>3 DEF SqForm
    <3>5. tail = <<"Nop">> => Head(tail) = "Nop"
      <4>1. Head(<<"Nop">>) = "Nop"
        OBVIOUS
      <4>2. QED
        BY <4>1, Zenon
    <3>6. QED
      BY <1>1, <3>2, <3>4, <3>5
  <2>2. ASSUME NEW k \in {"Verify", "Nop"}, k \in S, S \subseteq {k}
        PROVE  tail = sq_order(rest) /\ tail = <<>>
    <3>1. sq_order(S) = <<k>>
      BY <1>2, <2>2 DEF SqForm
    <3>2. Head(sq_order(S)) = k /\ tail = <<>>
      BY <3>1
    <3>3. rest = {}
      BY <2>2, <3>2
    <3>4. sq_order(rest) = <<>>
      BY <1>2, <3>3 DEF SqForm
    <3>5. QED
      BY <3>2, <3>4
  <2>3. QED
    BY <1>1, <1>5, <2>1, <2>2
<1>6. QED
  BY <1>1, <1>3, <1>4, <1>5 DEF Mergeable, BasicKind

\* Merging leaves one changing kind at most, and loses none for nothing.
LEMMA MergeSuspend ==
    ASSUME NEW S \in SUBSET BasicKind, NEW active \in BOOLEAN, ~kinds_conflict(S)
    PROVE  LET kept == S \ jobs_merge_suspend(S, active)
           IN  /\ Mergeable(kept) /\ sq_order_assert(kept)
               /\ kept = {} <=> S = {}
<1> DEFINE kept == S \ jobs_merge_suspend(S, active)
<1>1. Mergeable(kept) /\ (kept = {} <=> S = {})
  BY DEF jobs_merge_suspend, Mergeable, kinds_conflict, BasicKind
<1>2. "Stop" \in kept \/ Len(sq_mutops(kept)) <= 1
  BY <1>1, ShortConcat DEF sq_mutops, sq_order_pushback, Mergeable
<1>3. QED
  BY <1>1, <1>2 DEF sq_order_assert

-----------------------------------------------------------------------------
(* The operations *)

\* UvOK but for the marks the table clears last.
Settled(uv) ==
    /\ uv \in UvType /\ ~uv.panic /\ QueueOK(uv) /\ TriggerOK(uv)
    /\ uv.ready = calc_ready(uv)

\* A unit whose suspended jobs have changed and still have to be ordered.
Pending(uv) ==
    /\ uv \in UvType /\ ~uv.panic /\ ~uv.order /\ uv.dirty
    /\ ~kinds_conflict(uv.suspends)
    /\ uv.retrigger => is_trigger_some(uv)
    /\ uv.interrupt => is_trigger_some(uv) /\ uv.suspends # {}

\* An assertion that holds leaves the unit as it is.
LEMMA CheckTrue ==
    ASSUME NEW uv \in UvType, NEW cond, cond
    PROVE  check(uv, cond) = uv
  BY DEF check, UvType

\* update_ready fails no assertion on a unit in order.
LEMMA UpdateReadySettled ==
    ASSUME NEW uv \in UvType, ~uv.panic, QueueOK(uv), TriggerOK(uv)
    PROVE  /\ Settled(update_ready(uv))
           /\ update_ready(uv) = [uv EXCEPT !.ready = calc_ready(uv)]
<1>1. calc_ready_assert(uv)
  BY DEF calc_ready_assert, TriggerOK, is_trigger_some
<1>2. update_ready(uv) = [uv EXCEPT !.ready = calc_ready(uv)]
  BY <1>1, CheckTrue DEF update_ready
<1> DEFINE w == [uv EXCEPT !.ready = calc_ready(uv)]
<1>3. w \in UvType
  BY DEF UvType, calc_ready, is_ready_suspend, is_ready_retrigger, is_trigger_some
<1>4. /\ w.panic = uv.panic /\ w.order = uv.order /\ w.suspends = uv.suspends
      /\ w.sq = uv.sq /\ w.trigger = uv.trigger /\ w.interrupt = uv.interrupt
      /\ w.retrigger = uv.retrigger /\ w.pause = uv.pause /\ w.ready = calc_ready(uv)
  BY DEF UvType
<1>5. QueueOK(w) /\ TriggerOK(w) /\ calc_ready(w) = calc_ready(uv)
  BY <1>4 DEF QueueOK, TriggerOK, is_trigger_some, calc_ready, is_ready_suspend,
              is_ready_retrigger
<1>6. QED
  BY <1>2, <1>3, <1>4, <1>5 DEF Settled

\* reshuffle puts the pending changes of a unit in order.
LEMMA ReshuffleSettled ==
    ASSUME NEW uv, Pending(uv), NEW active \in BOOLEAN
    PROVE  Settled(reshuffle(uv, active))
<1> DEFINE kept == uv.suspends \ jobs_merge_suspend(uv.suspends, active)
           ord == [uv EXCEPT !.suspends = kept,
                     !.sattr = [k \in BasicKind |-> IF k \in kept THEN @[k] ELSE {}],
                     !.sq = sq_order(kept), !.order = TRUE]
           pre == jobs_merge_trigger_prepare(ord)
<1>1. uv \in UvType /\ uv.suspends \in SUBSET BasicKind /\ ~kinds_conflict(uv.suspends)
  BY DEF Pending, UvType
<1>2. Mergeable(kept) /\ sq_order_assert(kept) /\ (kept = {} <=> uv.suspends = {})
  BY <1>1, MergeSuspend
<1>3. sq_order(kept) \in Seq(BasicKind) /\ (sq_order(kept) = <<>> <=> kept = {})
  BY <1>2, SqOrderType, SqOrderHead DEF Mergeable
<1> HIDE DEF kept
<1>4. order_suspends(uv, active) = ord
  BY <1>1, <1>2, CheckTrue DEF order_suspends, kept
<1>5. reshuffle(uv, active) = update_ready(pre)
  BY <1>1, <1>4, CheckTrue DEF reshuffle, is_suspends_conflict, Pending
<1>6. ord \in UvType
  BY <1>1, <1>2, <1>3 DEF UvType, Mergeable
<1>7. /\ ord.panic = uv.panic /\ ord.order = TRUE /\ ord.suspends = kept
      /\ ord.sq = sq_order(kept) /\ ord.trigger = uv.trigger
      /\ ord.interrupt = uv.interrupt /\ ord.retrigger = uv.retrigger
  BY <1>1 DEF UvType
<1> HIDE DEF ord, pre
<1>8. /\ pre \in UvType /\ pre.panic = uv.panic /\ pre.order = TRUE /\ pre.suspends = kept
      /\ pre.sq = sq_order(kept) /\ pre.trigger = uv.trigger /\ pre.retrigger = uv.retrigger
  <2>1. CASE is_trigger_some(ord) /\ ord.sq # <<>>
    <3> DEFINE b == Head(ord.sq) \in {"Stop", "Restart"}
    <3>1. b \in BOOLEAN
      OBVIOUS
    <3>2. pre = [ord EXCEPT !.interrupt = b]
      BY <2>1 DEF jobs_merge_trigger_prepare, pre
    <3> HIDE DEF b
    <3>3. pre \in UvType
      BY <1>6, <3>1, <3>2 DEF UvType
    <3>4. QED
      BY <1>6, <1>7, <3>2, <3>3 DEF UvType
  <2>2. CASE ~(is_trigger_some(ord) /\ ord.sq # <<>>)
    <3>1. pre = ord
      BY <2>2 DEF jobs_merge_trigger_prepare, pre
    <3>2. QED
      BY <1>6, <1>7, <3>1
  <2>3. QED
    BY <2>1, <2>2
<1>9. pre.interrupt <=> /\ is_trigger_some(pre) /\ pre.sq # <<>>
                        /\ Head(pre.sq) \in {"Stop", "Restart"}
  <2>1. CASE is_trigger_some(ord) /\ ord.sq # <<>>
    BY <1>6, <1>7, <1>8, <2>1 DEF UvType, jobs_merge_trigger_prepare, is_trigger_some, pre
  <2>2. CASE ~(is_trigger_some(ord) /\ ord.sq # <<>>)
    BY <1>2, <1>3, <1>7, <1>8, <2>2
       DEF jobs_merge_trigger_prepare, is_trigger_some, Pending, pre
  <2>3. QED
    BY <2>1, <2>2
<1>10. QueueOK(pre) /\ TriggerOK(pre) /\ ~pre.panic
  BY <1>2, <1>8, <1>9 DEF QueueOK, TriggerOK, Mergeable, Pending, is_trigger_some
<1>11. QED
  BY <1>5, <1>8, <1>10, UpdateReadySettled

\* Setting or clearing pause changes nothing but the readiness of a unit.
LEMMA SetPause ==
    ASSUME NEW uv, Settled(uv), NEW p \in BOOLEAN,
           NEW w, w = update_ready([uv EXCEPT !.dirty = TRUE, !.pause = p])
    PROVE  /\ Settled(w) /\ w.pause = p /\ (p => ~w.ready)
           /\ w.trigger = uv.trigger /\ w.suspends = uv.suspends
           /\ w.up_ready = uv.up_ready
<1> DEFINE x == [uv EXCEPT !.dirty = TRUE, !.pause = p]
<1>1. uv \in UvType
  BY DEF Settled
<1>2. x \in UvType
  BY <1>1 DEF UvType
<1>3. /\ x.panic = uv.panic /\ x.order = uv.order /\ x.suspends = uv.suspends
      /\ x.sq = uv.sq /\ x.trigger = uv.trigger /\ x.interrupt = uv.interrupt
      /\ x.retrigger = uv.retrigger /\ x.pause = p /\ x.up_ready = uv.up_ready
  BY <1>1 DEF UvType
<1> HIDE DEF x
<1>4. QueueOK(x) /\ TriggerOK(x) /\ ~x.panic
  BY <1>3 DEF Settled, QueueOK, TriggerOK, is_trigger_some
<1>5. Settled(w) /\ w = [x EXCEPT !.ready = calc_ready(x)]
  BY <1>2, <1>4, UpdateReadySettled DEF x
<1>6. p => calc_ready(x) = FALSE
  BY <1>3 DEF calc_ready, is_ready_suspend, is_ready_retrigger
<1>7. QED
  BY <1>2, <1>3, <1>5, <1>6 DEF UvType

\* Pausing a unit makes it wait.
LEMMA PauseSettled ==
    ASSUME NEW uv, Settled(uv), NEW w, w = pause(uv)
    PROVE  /\ Settled(w) /\ w.pause /\ ~w.ready
           /\ w.trigger = uv.trigger /\ w.suspends = uv.suspends
           /\ w.up_ready = uv.up_ready
<1>1. w = update_ready([uv EXCEPT !.dirty = TRUE, !.pause = TRUE])
  BY CheckTrue DEF pause, Settled, QueueOK
<1>2. QED
  BY <1>1, SetPause

\* Resuming it leaves its jobs alone.
LEMMA ResumeSettled ==
    ASSUME NEW uv, Settled(uv), NEW w, w = resume(uv)
    PROVE  /\ Settled(w) /\ ~w.pause
           /\ w.trigger = uv.trigger /\ w.suspends = uv.suspends
<1>1. w = update_ready([uv EXCEPT !.dirty = TRUE, !.pause = FALSE])
  BY CheckTrue DEF resume, Settled, QueueOK
<1>2. QED
  BY <1>1, SetPause

\* A running job may be marked to run again, with the same or a new run-kind.
LEMMA RetriggerSettled ==
    ASSUME NEW uv, Settled(uv), is_trigger_some(uv),
           NEW job \in JobType, job # NoJob,
           NEW w, w = retrigger_trigger([uv EXCEPT !.trigger = job])
    PROVE  /\ Settled(w) /\ w.trigger = job /\ w.suspends = uv.suspends
           /\ w.up_ready = uv.up_ready /\ w.pause = uv.pause
           /\ w.pause => ~w.ready
<1> DEFINE v == [uv EXCEPT !.trigger = job]
           x == [v EXCEPT !.retrigger = TRUE, !.dirty = TRUE]
<1>1. uv \in UvType /\ uv.order
  BY DEF Settled, QueueOK
<1>2. v \in UvType /\ v.order = uv.order /\ v.trigger = job
  BY <1>1 DEF UvType
<1>3. x \in UvType
  BY <1>2 DEF UvType
<1>4. /\ x.panic = uv.panic /\ x.order = uv.order /\ x.suspends = uv.suspends
      /\ x.sq = uv.sq /\ x.trigger = job /\ x.interrupt = uv.interrupt
      /\ x.retrigger = TRUE /\ x.pause = uv.pause /\ x.up_ready = uv.up_ready
  BY <1>1 DEF UvType
<1>5. w = update_ready(x)
  BY <1>1, <1>2, CheckTrue DEF retrigger_trigger, is_trigger_some
<1> HIDE DEF x
<1>6. QueueOK(x) /\ TriggerOK(x) /\ ~x.panic
  BY <1>4 DEF Settled, QueueOK, TriggerOK, is_trigger_some
<1>7. Settled(w) /\ w = [x EXCEPT !.ready = calc_ready(x)]
  BY <1>3, <1>5, <1>6, UpdateReadySettled
<1>8. x.pause => calc_ready(x) = FALSE
  BY DEF calc_ready, is_ready_suspend, is_ready_retrigger
<1>9. QED
  BY <1>3, <1>4, <1>7, <1>8 DEF UvType

\* A job type and the run-kind the code moves it to.
LEMMA UpdateRunkindType ==
    ASSUME NEW job \in JobType
    PROVE  update_runkind(job) \in JobType /\ job # NoJob
  BY DEF JobType, update_runkind, job_rkind_map, BasicKind, NoJob

\* The end of a job clears every flag that was about it; a composite job that
\* goes on keeps its kind.
LEMMA FinishSettled ==
    ASSUME NEW uv, Settled(uv), is_trigger_some(uv), NEW result
    PROVE  /\ Settled(finish_trigger(uv, result))
           /\ finish_trigger(uv, result).suspends = uv.suspends
           /\ finish_trigger(uv, result).trigger.kind \in {uv.trigger.kind, "none"}
<1> DEFINE w == [uv EXCEPT !.trigger = NoJob, !.interrupt = FALSE,
                           !.retrigger = FALSE, !.dirty = TRUE]
<1>1. uv \in UvType /\ uv.order /\ uv.trigger \in JobType
  BY DEF Settled, QueueOK, UvType, is_trigger_some
<1>2. CASE finish_is_retry(uv.trigger, result)
  <2>1. /\ update_runkind(uv.trigger) \in JobType
        /\ update_runkind(uv.trigger) # NoJob
        /\ update_runkind(uv.trigger).kind = uv.trigger.kind
    BY <1>1, UpdateRunkindType DEF update_runkind, JobType, NoJob
  <2>2. finish_trigger(uv, result)
          = retrigger_trigger([uv EXCEPT !.trigger = update_runkind(uv.trigger)])
    BY <1>1, <1>2, CheckTrue DEF finish_trigger
  <2>3. QED
    BY <2>1, <2>2, RetriggerSettled
<1>3. CASE ~finish_is_retry(uv.trigger, result)
  <2>1. finish_trigger(uv, result) = update_ready(w)
    BY <1>1, <1>3, CheckTrue DEF finish_trigger
  <2>2. w \in UvType
    BY <1>1 DEF UvType
  <2>3. /\ w.panic = uv.panic /\ w.order = uv.order /\ w.suspends = uv.suspends
        /\ w.sq = uv.sq /\ w.trigger = NoJob /\ w.interrupt = FALSE
        /\ w.retrigger = FALSE
    BY <1>1 DEF UvType
  <2> HIDE DEF w
  <2>4. QueueOK(w) /\ TriggerOK(w) /\ ~w.panic
    BY <2>3 DEF Settled, QueueOK, TriggerOK, is_trigger_some
  <2>5. Settled(update_ready(w)) /\ update_ready(w) = [w EXCEPT !.ready = calc_ready(w)]
    BY <2>2, <2>4, UpdateReadySettled
  <2>6. QED
    BY <2>1, <2>2, <2>3, <2>5 DEF UvType, NoJob
<1>4. QED
  BY <1>2, <1>3

\* A running job is replaced only by a Stop or a Restart, and a suspended Stop
\* is triggered or stays.
TriggerKept(uv, w) ==
    /\ (is_trigger_some(uv) /\ w.trigger.kind # uv.trigger.kind)
          => w.trigger.kind \in {"Stop", "Restart"}
    /\ "Stop" \in uv.suspends => "Stop" \in w.suspends \/ w.trigger.kind = "Stop"

\* The job that is triggered next is a fresh job or the one that was running,
\* and the unit is not ready until something else happens to it.
LEMMA NextTriggerSettled ==
    ASSUME NEW uv, Settled(uv), uv.ready, NEW w, w = do_next_trigger(uv)
    PROVE  /\ Settled(w) /\ is_trigger_some(w) /\ ~w.ready
           /\ w.up_ready = uv.up_ready /\ TriggerKept(uv, w)
<1>1. uv \in UvType /\ uv.order /\ calc_ready(uv)
  BY DEF Settled, QueueOK
<1>2. CASE is_ready_suspend(uv)
  <2> DEFINE k == Head(uv.sq)
             old == IF uv.interrupt /\ uv.trigger.kind = k THEN uv.trigger.attr ELSE {}
             job == job_new(k, uv.sattr[k] \cup old)
             r == IF uv.interrupt THEN FALSE ELSE uv.retrigger
             x == [uv EXCEPT !.trigger = job, !.suspends = @ \ {k}, !.sattr[k] = {},
                             !.sq = Tail(@), !.interrupt = FALSE, !.retrigger = r,
                             !.dirty = TRUE]
  <2>1. uv.sq # <<>> /\ ~uv.pause /\ (is_trigger_some(uv) => uv.interrupt)
    BY <1>2 DEF is_ready_suspend
  <2>2. /\ Mergeable(uv.suspends) /\ uv.suspends # {} /\ uv.sq = sq_order(uv.suspends)
        /\ k \in uv.suspends
    <3>1. Mergeable(uv.suspends) /\ uv.sq = sq_order(uv.suspends)
      BY <1>1, <2>1 DEF Settled, QueueOK, Mergeable, UvType
    <3>2. QED
      BY <2>1, <3>1, SqOrderHead
  <2>3. k \in BasicKind /\ Tail(uv.sq) \in Seq(BasicKind)
    BY <1>1, <2>1, <2>2 DEF UvType
  <2>4. job \in JobType /\ job # NoJob
    <3>1. uv.sattr[k] \in SUBSET JobAttr
      BY <1>1, <2>3 DEF UvType
    <3>2. old \in SUBSET JobAttr
      BY <1>1 DEF UvType, JobType, NoJob
    <3>3. job_rkind_new(k) \in BasicKind
      BY <2>3 DEF job_rkind_new, BasicKind
    <3>4. QED
      BY <2>3, <3>1, <3>2, <3>3 DEF job_new, JobType, NoJob, BasicKind
  <2>5. r = FALSE
    BY <1>1, <2>1 DEF Settled, TriggerOK, UvType
  <2>6. /\ w = update_ready(x)
        /\ job.kind = k /\ (is_trigger_some(uv) => k \in {"Stop", "Restart"})
    <3>1. w = update_ready(x)
      BY <1>1, <1>2, <2>1, CheckTrue DEF do_next_trigger, do_next_trigger_suspend
    <3>2. job.kind = k
      BY DEF job_new
    <3>3. is_trigger_some(uv) => k \in {"Stop", "Restart"}
      BY <2>1 DEF Settled, TriggerOK
    <3>4. QED
      BY <3>1, <3>2, <3>3
  <2> HIDE DEF job, r
  <2>7. x \in UvType
    BY <1>1, <2>3, <2>4, <2>5 DEF UvType
  <2>8. /\ x.panic = uv.panic /\ x.order = uv.order /\ x.suspends = uv.suspends \ {k}
        /\ x.sq = Tail(uv.sq) /\ x.trigger = job /\ x.interrupt = FALSE
        /\ x.retrigger = FALSE /\ x.up_ready = uv.up_ready
    BY <1>1, <2>5 DEF UvType
  <2> HIDE DEF x
  <2>9. /\ Mergeable(x.suspends)
        /\ x.sq = sq_order(x.suspends) \/ (x.sq = <<>> /\ x.suspends = {"Nop"})
        /\ x.sq # <<>> => Head(x.sq) \notin {"Stop", "Restart"}
    <3>1. /\ x.suspends = uv.suspends \ {Head(sq_order(uv.suspends))}
          /\ x.sq = Tail(sq_order(uv.suspends))
      BY <2>2, <2>8
    <3>2. QED
      BY <2>2, <3>1, SqOrderTail
  <2>10. QueueOK(x) /\ TriggerOK(x) /\ ~x.panic
    BY <1>1, <2>4, <2>8, <2>9 DEF Settled, QueueOK, TriggerOK, is_trigger_some, Mergeable
  <2>11. Settled(w) /\ w = [x EXCEPT !.ready = calc_ready(x)]
    BY <2>6, <2>7, <2>10, UpdateReadySettled
  <2>12. calc_ready(x) = FALSE
    BY <2>4, <2>8 DEF calc_ready, is_ready_suspend, is_ready_retrigger, is_trigger_some
  <2>13. w.trigger = x.trigger /\ w.suspends = x.suspends
    BY <2>7, <2>11 DEF UvType
  <2>14. TriggerKept(uv, w)
    BY <2>6, <2>8, <2>13 DEF TriggerKept
  <2>15. QED
    BY <2>4, <2>7, <2>8, <2>11, <2>12, <2>14 DEF UvType, is_trigger_some
<1>3. CASE ~is_ready_suspend(uv)
  <2> DEFINE x == [uv EXCEPT !.retrigger = FALSE, !.dirty = TRUE]
  <2>1. is_trigger_some(uv) /\ uv.retrigger /\ ~uv.interrupt
    BY <1>1, <1>3 DEF calc_ready, is_ready_retrigger, Settled, TriggerOK
  <2>2. w = update_ready(x)
    BY <1>1, <1>3, <2>1, CheckTrue DEF do_next_trigger, do_next_trigger_retrigger
  <2>3. x \in UvType
    BY <1>1 DEF UvType
  <2>4. /\ x.panic = uv.panic /\ x.order = uv.order /\ x.suspends = uv.suspends
        /\ x.sq = uv.sq /\ x.trigger = uv.trigger /\ x.interrupt = uv.interrupt
        /\ x.retrigger = FALSE /\ x.up_ready = uv.up_ready
    BY <1>1 DEF UvType
  <2> HIDE DEF x
  <2>5. QueueOK(x) /\ TriggerOK(x) /\ ~x.panic
    BY <2>4 DEF Settled, QueueOK, TriggerOK, is_trigger_some
  <2>6. Settled(w) /\ w = [x EXCEPT !.ready = calc_ready(x)]
    BY <2>2, <2>3, <2>5, UpdateReadySettled
  <2>7. calc_ready(x) = FALSE
    BY <2>1, <2>4 DEF calc_ready, is_ready_suspend, is_ready_retrigger, is_trigger_some
  <2>8. w.trigger = x.trigger /\ w.suspends = x.suspends
    BY <2>3, <2>6 DEF UvType
  <2>9. TriggerKept(uv, w)
    BY <2>4, <2>8 DEF TriggerKept
  <2>10. QED
    BY <2>1, <2>3, <2>4, <2>6, <2>7, <2>9 DEF UvType, is_trigger_some
<1>4. QED
  BY <1>2, <1>3

\* The same, whether or not the unit asks for the job to be run later.
LEMMA TriggerSettled ==
    ASSUME NEW uv, Settled(uv), uv.ready, NEW again \in BOOLEAN,
           NEW w, w = do_trigger(uv, again)
    PROVE  /\ Settled(w) /\ is_trigger_some(w) /\ ~w.ready
           /\ w.up_ready = uv.up_ready /\ TriggerKept(uv, w)
<1> DEFINE n == do_next_trigger(uv)
           z == pause(n)
<1>1. /\ Settled(n) /\ is_trigger_some(n) /\ ~n.ready
      /\ n.up_ready = uv.up_ready /\ TriggerKept(uv, n)
  BY NextTriggerSettled
<1>2. CASE ~again
  BY <1>1, <1>2 DEF do_trigger
<1>3. CASE again
  <2> HIDE DEF n
  <2>1. /\ Settled(z) /\ z.pause /\ z.trigger = n.trigger /\ z.up_ready = n.up_ready
        /\ z.suspends = n.suspends
    BY <1>1, PauseSettled
  <2> HIDE DEF z
  <2>2. z \in UvType /\ z.trigger \in JobType /\ z.trigger # NoJob
    BY <1>1, <2>1 DEF Settled, UvType, is_trigger_some
  <2>3. [z EXCEPT !.trigger = z.trigger] = z
    BY <2>2 DEF UvType
  <2>4. w = retrigger_trigger([z EXCEPT !.trigger = z.trigger])
    BY <1>3, <2>3 DEF do_trigger, n, z
  <2>5. /\ Settled(w) /\ w.trigger = z.trigger /\ w.suspends = z.suspends
        /\ ~w.ready /\ w.up_ready = z.up_ready
    BY <1>1, <2>1, <2>2, <2>4, RetriggerSettled DEF is_trigger_some
  <2>6. QED
    BY <1>1, <2>1, <2>5 DEF is_trigger_some, TriggerKept
<1>4. QED
  BY <1>2, <1>3

\* What every change of the suspended jobs, to the kinds S, does to a unit.
Changed(uv, S, w) ==
    /\ w \in UvType /\ ~w.panic /\ w.order = FALSE /\ w.dirty = TRUE /\ w.suspends = S
    /\ w.trigger = uv.trigger /\ w.interrupt = uv.interrupt /\ w.retrigger = uv.retrigger

with_suspends(uv, S, at) ==
    [uv EXCEPT !.suspends = S, !.sattr = at, !.order = FALSE, !.dirty = TRUE]

LEMMA ChangeSuspends ==
    ASSUME NEW uv \in UvType, ~uv.panic, NEW S \in SUBSET BasicKind,
           NEW at \in [BasicKind -> SUBSET JobAttr]
    PROVE  Changed(uv, S, update_ready(with_suspends(uv, S, at)))
<1> DEFINE x == with_suspends(uv, S, at)
           w == update_ready(x)
<1>1. x \in UvType
  BY DEF UvType, with_suspends
<1>2. /\ x.panic = uv.panic /\ x.order = FALSE /\ x.dirty = TRUE /\ x.suspends = S
      /\ x.sattr = at /\ x.trigger = uv.trigger /\ x.interrupt = uv.interrupt
      /\ x.retrigger = uv.retrigger
  BY DEF UvType, with_suspends
<1> HIDE DEF x
<1>3. calc_ready_assert(x) /\ calc_ready(x) = FALSE
  BY <1>2 DEF calc_ready_assert, calc_ready, is_ready_suspend, is_ready_retrigger
<1>4. w = [x EXCEPT !.ready = FALSE]
  BY <1>1, <1>3, CheckTrue DEF update_ready
<1> HIDE DEF w
<1>5. Changed(uv, S, w)
  BY <1>1, <1>2, <1>4 DEF UvType, Changed
<1>6. QED
  BY <1>5 DEF w, x

\* remove_suspend removes one kind.
LEMMA RemoveSuspend ==
    ASSUME NEW uv \in UvType, ~uv.panic, NEW k \in BasicKind
    PROVE  Changed(uv, uv.suspends \ {k}, remove_suspend(uv, k))
<1> DEFINE S == uv.suspends \ {k}
           at == [uv.sattr EXCEPT ![k] = {}]
<1>1. S \in SUBSET BasicKind /\ at \in [BasicKind -> SUBSET JobAttr]
  BY DEF UvType
<1>2. remove_suspend(uv, k) = update_ready(with_suspends(uv, S, at))
  BY DEF remove_suspend, UvType, with_suspends
<1> HIDE DEF S, at
<1>3. Changed(uv, S, remove_suspend(uv, k))
  BY <1>1, <1>2, ChangeSuspends
<1>4. QED
  BY <1>3 DEF S

\* The head of the run queue that is about to interrupt a job is suspended.
LEMMA InterruptSuspended ==
    ASSUME NEW uv, Settled(uv), uv.interrupt
    PROVE  is_trigger_some(uv) /\ \E k \in {"Stop", "Restart"} : k \in uv.suspends
<1>1. /\ is_trigger_some(uv) /\ uv.sq # <<>> /\ Head(uv.sq) \in {"Stop", "Restart"}
      /\ uv.sq = sq_order(uv.suspends) /\ Mergeable(uv.suspends)
  BY DEF Settled, TriggerOK, QueueOK, Mergeable, UvType
<1>2. QED
  BY <1>1, SqOrderHead

\* Cancelling the Start and Verify of a unit leaves its other jobs pending.
LEMMA RemovePending ==
    ASSUME NEW uv, Settled(uv)
    PROVE  Pending(remove_suspend(remove_suspend(uv, "Start"), "Verify"))
<1> DEFINE v == remove_suspend(uv, "Start")
           w == remove_suspend(v, "Verify")
<1>1. uv \in UvType /\ ~uv.panic /\ ~kinds_conflict(uv.suspends)
  BY DEF Settled, QueueOK
<1>2. Changed(uv, uv.suspends \ {"Start"}, v)
  BY <1>1, RemoveSuspend DEF BasicKind
<1> HIDE DEF v
<1>3. Changed(v, v.suspends \ {"Verify"}, w)
  <2>1. v \in UvType /\ ~v.panic /\ "Verify" \in BasicKind
    BY <1>2 DEF BasicKind, Changed
  <2>2. QED
    BY <2>1, RemoveSuspend
<1> HIDE DEF w
<1>4. /\ w \in UvType /\ ~w.panic /\ w.order = FALSE /\ w.dirty = TRUE
      /\ w.suspends = (uv.suspends \ {"Start"}) \ {"Verify"} /\ w.trigger = uv.trigger
      /\ w.interrupt = uv.interrupt /\ w.retrigger = uv.retrigger
  BY <1>2, <1>3 DEF Changed
<1>5. ~kinds_conflict(w.suspends)
  BY <1>1, <1>4 DEF kinds_conflict
<1>6. w.interrupt => is_trigger_some(w) /\ w.suspends # {}
  BY <1>4, InterruptSuspended DEF is_trigger_some
<1>7. w.retrigger => is_trigger_some(w)
  BY <1>4 DEF Settled, TriggerOK, is_trigger_some
<1>8. Pending(w)
  BY <1>4, <1>5, <1>6, <1>7 DEF Pending
<1>9. QED
  BY <1>8 DEF w, v

\* A union that brings a new kind.
LEMMA UnionSuspends ==
    ASSUME NEW uv \in UvType, ~uv.panic, NEW kinds \in SUBSET BasicKind,
           NEW attr \in [BasicKind -> SUBSET JobAttr], ~(kinds \subseteq uv.suspends)
    PROVE  Changed(uv, uv.suspends \cup kinds, union_suspends(uv, kinds, attr))
<1> DEFINE S == uv.suspends \cup kinds
           at == [k \in BasicKind |->
                    IF k \in kinds THEN uv.sattr[k] \cup attr[k] ELSE uv.sattr[k]]
<1>1. S \in SUBSET BasicKind /\ at \in [BasicKind -> SUBSET JobAttr]
  BY DEF UvType
<1>2. union_suspends(uv, kinds, attr) = update_ready(with_suspends(uv, S, at))
  BY DEF union_suspends, UvType, with_suspends
<1> HIDE DEF S, at
<1>3. Changed(uv, S, union_suspends(uv, kinds, attr))
  BY <1>1, <1>2, ChangeSuspends
<1>4. QED
  BY <1>3 DEF S

\* Merging a stage into a unit leaves it as it was but for attributes, or pending.
LEMMA MergePending ==
    ASSUME NEW uv, UvOK(uv), NEW kinds \in SUBSET BasicKind, kinds # {},
           ~kinds_conflict(kinds), NEW attr \in [BasicKind -> SUBSET JobAttr],
           NEW w, w = merge_suspends(uv, kinds, attr)
    PROVE  Pending(w) \/ UvOK(w)
<1>1. /\ uv \in UvType /\ ~uv.panic /\ ~kinds_conflict(uv.suspends)
      /\ uv.retrigger => is_trigger_some(uv)
      /\ uv.interrupt => is_trigger_some(uv)
  BY DEF UvOK, QueueOK, TriggerOK
<1>2. CASE is_suspends_conflict_with(uv, kinds)
  <2> DEFINE v == flush_suspends(uv)
             u == union_suspends(v, kinds, attr)
  <2>1. {} \in SUBSET BasicKind /\ NoAttr \in [BasicKind -> SUBSET JobAttr]
    BY DEF NoAttr
  <2>2. flush_suspends(uv) = update_ready(with_suspends(uv, {}, NoAttr))
    BY DEF flush_suspends, with_suspends
  <2>3. Changed(uv, {}, v)
    BY <1>1, <2>1, <2>2, ChangeSuspends
  <2> HIDE DEF v
  <2>4. v \in UvType /\ ~v.panic /\ v.suspends = {}
    BY <2>3 DEF Changed
  <2>5. ~(kinds \subseteq v.suspends)
    BY <2>4
  <2>6. Changed(v, v.suspends \cup kinds, u)
    BY <2>4, <2>5, UnionSuspends
  <2>7. w = u
    BY <1>2 DEF merge_suspends, v
  <2> HIDE DEF u
  <2>8. w.suspends = kinds
    BY <2>4, <2>6, <2>7 DEF Changed
  <2>9. QED
    BY <1>1, <2>3, <2>6, <2>7, <2>8 DEF Pending, is_trigger_some, Changed
<1>3. CASE ~is_suspends_conflict_with(uv, kinds) /\ ~(kinds \subseteq uv.suspends)
  <2> DEFINE u == union_suspends(uv, kinds, attr)
  <2>1. w = u
    BY <1>3 DEF merge_suspends
  <2>2. Changed(uv, uv.suspends \cup kinds, u)
    BY <1>1, <1>3, UnionSuspends
  <2> HIDE DEF u
  <2>3. ~kinds_conflict(w.suspends)
    BY <1>3, <2>1, <2>2 DEF is_suspends_conflict_with, Changed
  <2>4. QED
    BY <1>1, <2>1, <2>2, <2>3 DEF Pending, is_trigger_some, Changed
<1>4. CASE ~is_suspends_conflict_with(uv, kinds) /\ kinds \subseteq uv.suspends
  <2> DEFINE at == [k \in BasicKind |->
                      IF k \in kinds THEN uv.sattr[k] \cup attr[k] ELSE uv.sattr[k]]
  <2>1. w = [uv EXCEPT !.sattr = at]
    BY <1>4 DEF merge_suspends, union_suspends
  <2>2. at \in [BasicKind -> SUBSET JobAttr]
    BY <1>1 DEF UvType
  <2> HIDE DEF at
  <2>3. w \in UvType
    BY <1>1, <2>1, <2>2 DEF UvType
  <2>4. /\ w.panic = uv.panic /\ w.order = uv.order /\ w.suspends = uv.suspends
        /\ w.sq = uv.sq /\ w.trigger = uv.trigger /\ w.interrupt = uv.interrupt
        /\ w.retrigger = uv.retrigger /\ w.pause = uv.pause /\ w.dirty = uv.dirty
        /\ w.ready = uv.ready /\ w.up_ready = uv.up_ready
    BY <1>1, <2>1 DEF UvType
  <2>5. calc_ready(w) = calc_ready(uv)
    BY <2>4 DEF calc_ready, is_ready_suspend, is_ready_retrigger, is_trigger_some
  <2>6. QED
    BY <2>3, <2>4, <2>5 DEF UvOK, QueueOK, TriggerOK, ReadyOK, is_trigger_some
<1>5. QED
  BY <1>2, <1>3, <1>4
=============================================================================
