------------------------- MODULE ManagerLoopProofs --------------------------
(***************************************************************************)
(* The start limit holds for any interval, burst, clock and number of      *)
(* starts, with failures, time-outs and emergency actions in between.      *)
(*                                                                         *)
(* The starts of the current interval are the last nums ones.  Of those    *)
(* before, fewer than burst lie within an interval's length of its begin:  *)
(* the first of the interval before does not.                              *)
(***************************************************************************)
EXTENDS ManagerLoop, SequenceTheorems, TLAPS

MgType ==
  [conf : EmergencyConfs, state : {"Init", "Ok", "Exit"} \cup Commands,
   phase : {"startup", "loop", "event", "term", "call", "down", "killed", "panicked"},
   unit : UnitActiveState, now : Nat, begin : SUBSET Nat, nums : Nat, starts : Seq(Nat),
   shutdown : {"idle", "waiting", "active"}, procs : SUBSET Processes, pids : SUBSET Processes,
   reports : Nat, startups : Nat, failures : Nat]

\* The starts q are in the order of their times, up to now.
Sorted(q, now) ==
  /\ \A i \in 1..Len(q) : q[i] <= now
  /\ \A i, j \in 1..Len(q) : i <= j => q[i] <= q[j]

\* The last n starts are those of the interval that began at b.  Of the ones before,
\* fewer than burst are as near as span.
LastInterval(q, n, b, span, burst) ==
  LET before == Len(q) - n
  IN /\ n \in 1..burst /\ before >= 0
     /\ q[before + 1] = b
     /\ \A i \in 1..before : b - q[i] <= span => before - i + 1 <= burst - 1

\* In no time span there are 2 * burst starts.
Few(q, span, burst) ==
  \A i, j \in 1..Len(q) : q[j] - q[i] <= span => j - i + 1 <= 2 * burst - 1

Span(s) == s.conf.interval * TicksPerSec

Window(s) ==
  ratelimit_enabled(s) =>
    \/ s.begin = {} /\ s.starts = <<>>
    \/ \E b \in s.begin : /\ s.begin = {b} /\ b <= s.now
                          /\ LastInterval(s.starts, s.nums, b, Span(s), s.conf.burst)

Times(s) == Sorted(s.starts, s.now)

Bounded(s) == ratelimit_enabled(s) => Few(s.starts, Span(s), s.conf.burst)

Limited(s) == Times(s) /\ Window(s) /\ Bounded(s)

Inv == mg \in MgType /\ Limited(mg)

\* t differs from s in nothing that the limit depends on.
SameLimit(s, t) ==
  /\ t \in MgType /\ t.conf = s.conf /\ t.now = s.now /\ t.begin = s.begin
  /\ t.nums = s.nums /\ t.starts = s.starts

-----------------------------------------------------------------------------
(* What the start limit does not depend on *)

LEMMA SameOK ==
  ASSUME NEW s, NEW t, Limited(s), SameLimit(s, t)
  PROVE  Limited(t)
<1>1. Times(t)
  BY DEF Limited, SameLimit, Times
<1>2. Window(t)
  BY DEF Limited, SameLimit, Window, Span, ratelimit_enabled
<1>3. Bounded(t)
  BY DEF Limited, SameLimit, Bounded, Span, ratelimit_enabled
<1>4. QED
  BY <1>1, <1>2, <1>3 DEF Limited

LEMMA SameTrans ==
  ASSUME NEW r, NEW s, NEW t, SameLimit(r, s), SameLimit(s, t)
  PROVE  SameLimit(r, t)
  BY DEF SameLimit

Action == {"none"} \cup Soft \cup DOMAIN StateOf \cup Immediate

LEMMA ActionSame ==
  ASSUME NEW s \in MgType, NEW a \in Action, NEW t \in unit_emergency_action(s, a)
  PROVE  SameLimit(s, t)
<1>0. /\ a \in DOMAIN StateOf <=> a \in {"reboot-force", "poweroff-force", "exit-force"}
      /\ a \in Soft <=> a \in {"reboot", "poweroff", "exit"}
      /\ a \in Immediate <=> a \in {"reboot-immediate", "poweroff-immediate"}
  BY DEF StateOf, Soft, Immediate
<1>1. CASE a = "none"
  <2>1. unit_emergency_action(s, a) = {s}
    BY <1>0, <1>1 DEF unit_emergency_action
  <2>2. QED
    BY <2>1 DEF SameLimit
<1>2. CASE a \in Soft
  <2>1. unit_emergency_action(s, a) = IF is_shutting_down(s) THEN {s} ELSE start_target(s, a)
    BY <1>0, <1>2 DEF unit_emergency_action
  <2>2. t = s \/ t = [s EXCEPT !.shutdown = "waiting"] \/ t = [s EXCEPT !.shutdown = s.shutdown]
    BY <2>1 DEF start_target
  <2>3. QED
    BY <2>2 DEF SameLimit, MgType
<1>3. CASE a \in DOMAIN StateOf
  <2>1. unit_emergency_action(s, a) = {[s EXCEPT !.state = StateOf[a]]}
    BY <1>0, <1>3 DEF unit_emergency_action
  <2>2. PICK st \in {"Reboot", "PowerOff", "Exit"} : st = StateOf[a]
    BY <1>0, <1>3 DEF StateOf
  <2>3. t = [s EXCEPT !.state = st]
    BY <2>1, <2>2
  <2>4. QED
    BY <2>3 DEF SameLimit, MgType, Commands, Rebooting
<1>4. CASE a \in Immediate
  <2>1. unit_emergency_action(s, a) = reboot_at_once(s)
    BY <1>0, <1>4 DEF unit_emergency_action
  <2>2. t = s \/ t = [s EXCEPT !.phase = "down"]
    BY <2>1 DEF reboot_at_once
  <2>3. QED
    BY <2>2 DEF SameLimit, MgType
<1>5. QED
  BY <1>1, <1>2, <1>3, <1>4 DEF Action

\* The actions of a unit's file are ones that unit_emergency_action knows.
LEMMA ConfOK ==
  ASSUME NEW s \in MgType
  PROVE  /\ s.conf.failure \in Action /\ s.conf.success \in Action
         /\ s.conf.limit \in Action /\ s.conf.timeout \in Action
         /\ s.conf.interval \in Nat /\ s.conf.burst \in Nat
         /\ s.conf.states \subseteq UnitActiveState
<1>1. s.conf \in EmergencyConfs
  BY DEF MgType
<1>2. QED
  BY <1>1, ManagerLoopAssumption DEF Action

LEMMA ReportSame ==
  ASSUME NEW s \in MgType, NEW ns \in UnitActiveState, NEW t \in insert_states(s, ns)
  PROVE  SameLimit(s, t)
<1> DEFINE r == [s EXCEPT !.unit = ns]
<1>1. r \in MgType /\ SameLimit(s, r)
  BY DEF SameLimit, MgType
<1>2. t = r \/ \E a \in Action : t \in unit_emergency_action(r, a)
  BY ConfOK DEF insert_states
<1> HIDE DEF r
<1>3. QED
  BY <1>1, <1>2, ActionSame, SameTrans

-----------------------------------------------------------------------------
(* The start limit *)

LEMMA Appended ==
  ASSUME NEW q \in Seq(Nat), NEW n \in Nat
  PROVE  /\ Append(q, n) \in Seq(Nat) /\ Len(q) \in Nat /\ Len(Append(q, n)) = Len(q) + 1
         /\ \A i \in 1..Len(q) : Append(q, n)[i] = q[i] /\ q[i] \in Nat
         /\ Append(q, n)[Len(q) + 1] = n
  BY AppendProperties, LenProperties, ElementOfSeq

LEMMA StartSorted ==
  ASSUME NEW q \in Seq(Nat), NEW now \in Nat, Sorted(q, now)
  PROVE  Sorted(Append(q, now), now)
<1> DEFINE n == Len(q)
           r == Append(q, now)
<1>1. /\ n \in Nat /\ Len(r) = n + 1 /\ r[n + 1] = now
      /\ \A i \in 1..n : r[i] = q[i] /\ q[i] \in Nat /\ q[i] <= now
      /\ \A i, j \in 1..n : i <= j => q[i] <= q[j]
  BY Appended DEF Sorted
<1> HIDE DEF n, r
<1>2. \A i \in 1..(n + 1) : i = n + 1 \/ i \in 1..n
  BY <1>1
<1>3. \A i \in 1..(n + 1) : r[i] <= now
  BY <1>1, <1>2
<1>4. \A i, j \in 1..(n + 1) : i <= j => r[i] <= r[j]
  <2> SUFFICES ASSUME NEW i \in 1..(n + 1), NEW j \in 1..(n + 1), i <= j
               PROVE  r[i] <= r[j]
    OBVIOUS
  <2>1. CASE j = n + 1
    BY <1>1, <1>3, <2>1
  <2>2. CASE j \in 1..n
    <3>1. i \in 1..n
      BY <1>1, <2>2
    <3>2. QED
      BY <1>1, <2>2, <3>1
  <2>3. QED
    BY <1>2, <2>1, <2>2
<1>5. Sorted(r, now)
  BY <1>1, <1>3, <1>4 DEF Sorted
<1>6. QED
  BY <1>5 DEF r

\* For the start that is added only the starts near to it are counted.
LEMMA StartFew ==
  ASSUME NEW q \in Seq(Nat), NEW now \in Nat, NEW span \in Nat, NEW burst \in Nat, burst > 0,
         Few(q, span, burst),
         \A i \in 1..Len(q) : now - q[i] <= span => Len(q) - i + 2 <= 2 * burst - 1
  PROVE  Few(Append(q, now), span, burst)
<1> DEFINE n == Len(q)
           r == Append(q, now)
<1>1. /\ n \in Nat /\ Len(r) = n + 1 /\ r[n + 1] = now
      /\ \A i \in 1..n : r[i] = q[i] /\ q[i] \in Nat
      /\ \A i, j \in 1..n : q[j] - q[i] <= span => j - i + 1 <= 2 * burst - 1
      /\ \A i \in 1..n : now - q[i] <= span => n - i + 2 <= 2 * burst - 1
  BY Appended DEF Few
<1> HIDE DEF n, r
<1>2. ASSUME NEW i \in 1..(n + 1), NEW j \in 1..(n + 1), r[j] - r[i] <= span
      PROVE  j - i + 1 <= 2 * burst - 1
  <2>1. CASE i = n + 1
    BY <1>1, <2>1
  <2>2. CASE i \in 1..n /\ j \in 1..n
    BY <1>1, <1>2, <2>2
  <2>3. CASE i \in 1..n /\ j = n + 1
    <3>1. n - i + 2 <= 2 * burst - 1
      BY <1>1, <1>2, <2>3
    <3>2. QED
      BY <1>1, <2>3, <3>1
  <2>4. QED
    BY <1>1, <2>1, <2>2, <2>3
<1>3. Few(r, span, burst)
  BY <1>1, <1>2 DEF Few
<1>4. QED
  BY <1>3 DEF r

\* A start that opens an interval: those before it that are near are in the interval
\* that is over, and the first of that one is not among them.
LEMMA Opens ==
  ASSUME NEW q \in Seq(Nat), NEW now \in Nat, NEW span \in Nat, NEW burst \in Nat, burst > 0,
         Sorted(q, now), Few(q, span, burst),
         \/ q = <<>>
         \/ \E b, n \in Nat : now - b > span /\ LastInterval(q, n, b, span, burst)
  PROVE  /\ LastInterval(Append(q, now), 1, now, span, burst)
         /\ Few(Append(q, now), span, burst)
<1> DEFINE l == Len(q)
           r == Append(q, now)
<1>1. /\ l \in Nat /\ Len(r) = l + 1 /\ r[l + 1] = now
      /\ \A i \in 1..l : r[i] = q[i] /\ q[i] \in Nat
      /\ \A i, j \in 1..l : i <= j => q[i] <= q[j]
  BY Appended DEF Sorted
<1>2. ASSUME NEW i \in 1..l, now - q[i] <= span PROVE l - i + 1 <= burst - 1
  <2>0. q # <<>>
    BY <1>1
  <2>1. PICK b \in Nat, n \in Nat : now - b > span /\ LastInterval(q, n, b, span, burst)
    BY <2>0
  <2>2. n \in 1..burst /\ l - n >= 0 /\ q[l - n + 1] = b
    BY <2>1 DEF LastInterval
  <2> HIDE DEF l
  <2>3. q[i] > b /\ q[i] \in Nat
    BY <1>1, <1>2, <2>1, SMTT(30)
  <2>4. l - n + 1 \in 1..l
    BY <1>1, <2>2
  <2>5. ~(i <= l - n + 1)
    BY <1>1, <2>2, <2>3, <2>4, SMTT(30)
  <2>6. QED
    BY <1>1, <2>2, <2>5
<1>3. LastInterval(r, 1, now, span, burst)
  <2>1. Len(r) - 1 = l /\ 1 \in 1..burst
    BY <1>1
  <2> HIDE DEF l, r
  <2>2. QED
    BY <1>1, <1>2, <2>1 DEF LastInterval
<1>4. \A i \in 1..l : now - q[i] <= span => l - i + 2 <= 2 * burst - 1
  <2> HIDE DEF l
  <2>1. QED
    BY <1>1, <1>2
<1>5. Few(r, span, burst)
  BY <1>4, StartFew
<1>6. QED
  BY <1>3, <1>5

\* A start that is one more of the current interval.
LEMMA Joins ==
  ASSUME NEW q \in Seq(Nat), NEW now \in Nat, NEW span \in Nat, NEW burst \in Nat, burst > 0,
         Sorted(q, now), Few(q, span, burst),
         NEW b \in Nat, NEW n \in Nat, b <= now, n < burst, LastInterval(q, n, b, span, burst)
  PROVE  /\ LastInterval(Append(q, now), n + 1, b, span, burst)
         /\ Few(Append(q, now), span, burst)
<1> DEFINE l == Len(q)
           r == Append(q, now)
<1>1. /\ l \in Nat /\ Len(r) = l + 1 /\ r[l + 1] = now
      /\ \A i \in 1..l : r[i] = q[i] /\ q[i] \in Nat
  BY Appended
<1>2. /\ n \in 1..burst /\ l - n >= 0 /\ q[l - n + 1] = b
      /\ \A i \in 1..(l - n) : b - q[i] <= span => l - n - i + 1 <= burst - 1
  BY DEF LastInterval
<1>3. ASSUME NEW i \in 1..l, now - q[i] <= span PROVE l - i + 2 <= 2 * burst - 1
  <2> HIDE DEF l
  <2>0. q[i] \in Nat
    BY <1>1
  <2>1. CASE i <= l - n
    <3>1. i \in 1..(l - n) /\ b - q[i] <= span
      BY <1>1, <1>2, <1>3, <2>0, <2>1, SMTT(30)
    <3>2. l - n - i + 1 <= burst - 1
      BY <1>2, <3>1
    <3>3. QED
      BY <1>1, <3>2
  <2>2. CASE i > l - n
    BY <1>1, <2>2
  <2>3. QED
    BY <1>1, <2>1, <2>2
<1>4. LastInterval(r, n + 1, b, span, burst)
  <2>1. Len(r) - (n + 1) = l - n /\ n + 1 \in 1..burst
    BY <1>1, <1>2
  <2> HIDE DEF l, r
  <2>2. l - n + 1 \in 1..l /\ r[l - n + 1] = b
    BY <1>1, <1>2
  <2>3. \A i \in 1..(l - n) : i \in 1..l /\ r[i] = q[i]
    BY <1>1, <1>2
  <2>4. QED
    BY <1>2, <2>1, <2>2, <2>3 DEF LastInterval
<1>5. Few(r, span, burst)
  BY <1>3, StartFew
<1>6. QED
  BY <1>4, <1>5

-----------------------------------------------------------------------------
(* The steps *)

\* More whole seconds than k are more than k seconds of two ticks.
LEMMA Elapsed ==
  ASSUME NEW n \in Nat, NEW b \in Nat, NEW k \in Nat, (n - b) \div 2 > k
  PROVE  n - b > 2 * k
  OBVIOUS

\* A start that the limit lets pass, with the begin and nums it leaves.
LEMMA PassOK ==
  ASSUME NEW s \in MgType, Limited(s), NEW begin \in SUBSET Nat, NEW nums \in Nat,
         ratelimit_enabled(s) =>
           \/ is_over(s) /\ begin = {s.now} /\ nums = 1
           \/ ~is_over(s) /\ s.nums < s.conf.burst /\ begin = s.begin /\ nums = s.nums + 1,
         NEW t \in MgType, t.conf = s.conf, t.now = s.now, t.begin = begin, t.nums = nums,
         t.starts = Append(s.starts, s.now)
  PROVE  Limited(t)
<1>1. /\ s.now \in Nat /\ s.starts \in Seq(Nat) /\ s.nums \in Nat /\ s.begin \in SUBSET Nat
      /\ s.conf.interval \in Nat /\ s.conf.burst \in Nat
  BY ConfOK DEF MgType
<1>2. Times(t)
  BY <1>1, StartSorted DEF Limited, Times
<1>3. Span(t) = Span(s) /\ (ratelimit_enabled(t) <=> ratelimit_enabled(s))
  BY DEF Span, ratelimit_enabled
<1>4. ASSUME ratelimit_enabled(s)
      PROVE  Window(t) /\ Bounded(t)
  <2> DEFINE q == s.starts
             span == Span(s)
             burst == s.conf.burst
  <2>1. span \in Nat /\ span = 2 * s.conf.interval /\ burst > 0
    BY <1>1, <1>4, SMTT(30) DEF Span, TicksPerSec, ratelimit_enabled
  <2>2. Sorted(q, s.now) /\ Few(q, span, burst)
    BY <1>4 DEF Limited, Times, Bounded
  <2>3. \/ s.begin = {} /\ q = <<>>
        \/ \E b \in s.begin : /\ s.begin = {b} /\ b <= s.now
                              /\ LastInterval(q, s.nums, b, span, burst)
    BY <1>4 DEF Limited, Window
  <2>4. CASE is_over(s) /\ begin = {s.now} /\ nums = 1
    <3>1. \A b \in s.begin : s.now - b > span
      <4> SUFFICES ASSUME NEW b \in s.begin PROVE s.now - b > span
        OBVIOUS
      <4>1. (s.now - b) \div 2 > s.conf.interval /\ b \in Nat
        BY <1>1, <2>4 DEF is_over, TicksPerSec
      <4>2. s.now - b > 2 * s.conf.interval
        BY <1>1, <4>1, Elapsed
      <4>3. QED
        BY <2>1, <4>2
    <3>2. \/ q = <<>>
          \/ \E b, n \in Nat : s.now - b > span /\ LastInterval(q, n, b, span, burst)
      BY <1>1, <2>3, <3>1
    <3> HIDE DEF span
    <3>3. /\ LastInterval(Append(q, s.now), 1, s.now, span, burst)
          /\ Few(Append(q, s.now), span, burst)
      BY <1>1, <2>1, <2>2, <3>2, Opens
    <3>4. Window(t)
      BY <1>1, <1>3, <2>4, <3>3 DEF Window, span
    <3>5. Bounded(t)
      BY <1>3, <3>3 DEF Bounded, span
    <3>6. QED
      BY <3>4, <3>5
  <2>5. CASE ~is_over(s) /\ s.nums < burst /\ begin = s.begin /\ nums = s.nums + 1
    <3>1. s.begin # {}
      BY <2>5 DEF is_over
    <3>2. PICK b \in s.begin : /\ s.begin = {b} /\ b <= s.now
                               /\ LastInterval(q, s.nums, b, span, burst)
      BY <2>3, <3>1
    <3> HIDE DEF span
    <3>3. /\ LastInterval(Append(q, s.now), s.nums + 1, b, span, burst)
          /\ Few(Append(q, s.now), span, burst)
      BY <1>1, <2>1, <2>2, <2>5, <3>2, Joins
    <3>4. Window(t)
      BY <1>3, <2>5, <3>2, <3>3 DEF Window, span
    <3>5. Bounded(t)
      BY <1>3, <3>3 DEF Bounded, span
    <3>6. QED
      BY <3>4, <3>5
  <2>6. QED
    BY <1>4, <2>4, <2>5
<1>5. Window(t) /\ Bounded(t)
  BY <1>3, <1>4 DEF Window, Bounded
<1>6. QED
  BY <1>2, <1>5 DEF Limited

LEMMA StartOK ==
  ASSUME NEW s \in MgType, Limited(s), NEW t \in start_check(s)
  PROVE  t \in MgType /\ Limited(t)
<1> DEFINE r == ratelimit_below(s)
           p == [r.s EXCEPT !.starts = Append(@, s.now)]
<1>1. /\ s.now \in Nat /\ s.starts \in Seq(Nat) /\ s.nums \in Nat /\ s.begin \in SUBSET Nat
      /\ Append(s.starts, s.now) \in Seq(Nat)
  BY Appended DEF MgType
<1>2. /\ "Activating" \in UnitActiveState /\ "Failed" \in UnitActiveState
      /\ s.conf.limit \in Action
  BY ConfOK DEF UnitActiveState
<1>3. ASSUME NEW begin \in SUBSET Nat, NEW nums \in Nat, r.ok,
             r.s = [s EXCEPT !.begin = begin, !.nums = nums],
             ratelimit_enabled(s) =>
               \/ is_over(s) /\ begin = {s.now} /\ nums = 1
               \/ ~is_over(s) /\ s.nums < s.conf.burst /\ begin = s.begin /\ nums = s.nums + 1
      PROVE  t \in MgType /\ Limited(t)
  <2>1. t \in insert_states(p, "Activating")
    BY <1>3 DEF start_check
  <2> HIDE DEF r
  <2>2. /\ p \in MgType /\ p.conf = s.conf /\ p.now = s.now /\ p.begin = begin
        /\ p.nums = nums /\ p.starts = Append(s.starts, s.now)
    <3> DEFINE e == r.s
    <3>0. e = [s EXCEPT !.begin = begin, !.nums = nums]
      BY <1>3
    <3> HIDE DEF e
    <3>1. /\ e \in MgType /\ e.conf = s.conf /\ e.now = s.now /\ e.begin = begin
          /\ e.nums = nums /\ e.starts = s.starts
      BY <3>0 DEF MgType
    <3>2. p = [e EXCEPT !.starts = Append(s.starts, s.now)]
      BY <3>1 DEF e
    <3> HIDE DEF p
    <3>3. QED
      BY <1>1, <3>1, <3>2 DEF MgType
  <2> HIDE DEF p
  <2>3. Limited(p)
    BY <1>3, <2>2, PassOK
  <2>4. SameLimit(p, t)
    BY <1>2, <2>1, <2>2, ReportSame
  <2>5. QED
    BY <2>3, <2>4, SameOK DEF SameLimit
<1>4. CASE ~ratelimit_enabled(s)
  <2>1. r.ok /\ r.s = s
    BY <1>4 DEF ratelimit_below
  <2>2. s = [s EXCEPT !.begin = s.begin, !.nums = s.nums]
    BY DEF MgType
  <2>3. QED
    BY <1>1, <1>3, <1>4, <2>1, <2>2
<1>5. CASE ratelimit_enabled(s) /\ is_over(s)
  <2>1. r.ok /\ r.s = [s EXCEPT !.begin = {s.now}, !.nums = 1]
    BY <1>5 DEF ratelimit_below
  <2>2. QED
    BY <1>1, <1>3, <1>5, <2>1, ZenonT(60)
<1>6. CASE ratelimit_enabled(s) /\ ~is_over(s) /\ s.nums < s.conf.burst
  <2>1. r.ok /\ r.s = [s EXCEPT !.nums = s.nums + 1]
    BY <1>6 DEF ratelimit_below
  <2>2. r.s = [s EXCEPT !.begin = s.begin, !.nums = s.nums + 1]
    BY <2>1 DEF MgType
  <2>3. s.nums + 1 \in Nat
    BY <1>1
  <2>4. QED
    BY <1>1, <1>3, <1>6, <2>1, <2>2, <2>3
<1>7. CASE ratelimit_enabled(s) /\ ~is_over(s) /\ ~(s.nums < s.conf.burst)
  <2>1. ~r.ok /\ r.s = s
    BY <1>7 DEF ratelimit_below
  <2>2. PICK e \in unit_emergency_action(s, s.conf.limit) : t \in insert_states(e, "Failed")
    BY <2>1 DEF start_check
  <2>3. SameLimit(s, e)
    BY <1>2, ActionSame
  <2>4. SameLimit(e, t)
    BY <1>2, <2>2, <2>3, ReportSame DEF SameLimit
  <2>5. QED
    BY <2>3, <2>4, SameTrans, SameOK DEF SameLimit
<1>8. QED
  BY <1>4, <1>5, <1>6, <1>7

\* A step that reports, acts or waits leaves the limit alone; a new limit is empty.
LEMMA NewLimit ==
  ASSUME NEW s \in MgType
  PROVE  new_limit(s) \in MgType /\ Limited(new_limit(s))
<1> DEFINE t == new_limit(s)
<1>0. /\ t = [s EXCEPT !.begin = {}, !.nums = 0, !.starts = <<>>]
      /\ {} \in SUBSET Nat /\ 0 \in Nat /\ <<>> \in Seq(Nat)
  BY DEF new_limit
<1> HIDE DEF t
<1>1. t \in MgType /\ t.begin = {} /\ t.starts = <<>> /\ t.conf = s.conf
  BY <1>0 DEF MgType
<1>2. Limited(t)
  BY <1>1 DEF Limited, Times, Sorted, Window, Bounded, Few
<1>3. QED
  BY <1>1, <1>2 DEF t

LEMMA NextOK ==
  ASSUME Inv, [ManagerLoopNext]_mg
  PROVE  Inv'
<1>0. mg \in MgType /\ Limited(mg)
  BY DEF Inv
<1> DEFINE more == [mg EXCEPT !.reports = @ + 1]
<1>1. SameLimit(mg, more) /\ more \in MgType /\ Limited(more)
  <2>0. mg.reports \in Nat
    BY <1>0 DEF MgType
  <2>1. PICK n \in Nat : more = [mg EXCEPT !.reports = n]
    <3>1. mg.reports + 1 \in Nat /\ more = [mg EXCEPT !.reports = mg.reports + 1]
      BY <2>0
    <3>2. QED
      BY <3>1
  <2> HIDE DEF more
  <2>3. SameLimit(mg, more)
    BY <1>0, <2>1 DEF SameLimit, MgType
  <2>2. QED
    BY <1>0, <2>3, SameOK DEF SameLimit
<1>2. ASSUME SameLimit(mg, mg') PROVE Inv'
  BY <1>0, <1>2, SameOK DEF Inv, SameLimit
<1>3. CASE Report
  <2>1. PICK ns \in mg.conf.states : mg' \in insert_states(more, ns)
    BY <1>3 DEF Report
  <2>2. ns \in UnitActiveState
    BY <1>0, ConfOK
  <2> HIDE DEF more
  <2>3. SameLimit(mg, mg')
    BY <1>1, <2>1, <2>2, ReportSame, SameTrans
  <2>4. QED
    BY <1>2, <2>3
<1>4. CASE StartUnit
  <2>1. mg' \in start_check(more)
    BY <1>4 DEF StartUnit
  <2> HIDE DEF more
  <2>2. QED
    BY <1>1, <2>1, StartOK DEF Inv
<1>5. CASE JobTimeout
  <2>1. mg' \in unit_emergency_action(more, mg.conf.timeout) /\ mg.conf.timeout \in Action
    BY <1>0, <1>5, ConfOK DEF JobTimeout
  <2> HIDE DEF more
  <2>2. SameLimit(mg, mg')
    BY <1>1, <2>1, ActionSame, SameTrans
  <2>3. QED
    BY <1>2, <2>2
<1>6. CASE EventBegin \/ EventEnd \/ StartupEnd \/ ShutdownEnds \/ Command
  <2>1. \/ \E phase \in {"event", "loop"} : mg' = [mg EXCEPT !.phase = phase]
        \/ \E st \in {"active", "idle"} : mg' = [mg EXCEPT !.shutdown = st]
        \/ \E c \in Commands : mg' = [mg EXCEPT !.state = c]
        \/ mg' = [mg EXCEPT !.state = "Ok", !.phase = "loop"]
    BY <1>6 DEF EventBegin, EventEnd, StartupEnd, ShutdownEnds, Command
  <2>2. CASE \E phase \in {"event", "loop"} : mg' = [mg EXCEPT !.phase = phase]
    <3>1. SameLimit(mg, mg')
      BY <1>0, <2>2 DEF SameLimit, MgType
    <3>2. QED
      BY <1>2, <3>1
  <2>3. CASE \E st \in {"active", "idle"} : mg' = [mg EXCEPT !.shutdown = st]
    <3>1. SameLimit(mg, mg')
      BY <1>0, <2>3 DEF SameLimit, MgType
    <3>2. QED
      BY <1>2, <3>1
  <2>4. CASE \E c \in Commands : mg' = [mg EXCEPT !.state = c]
    <3>1. SameLimit(mg, mg')
      BY <1>0, <2>4 DEF SameLimit, MgType
    <3>2. QED
      BY <1>2, <3>1
  <2>5. CASE mg' = [mg EXCEPT !.state = "Ok", !.phase = "loop"]
    <3>1. SameLimit(mg, mg')
      BY <1>0, <2>5 DEF SameLimit, MgType
    <3>2. QED
      BY <1>2, <3>1
  <2>6. QED
    BY <2>1, <2>2, <2>3, <2>4, <2>5
<1>7. CASE WaitEnd \/ CallReboot \/ ProcessExit
  <2>1. mg.procs \subseteq Processes /\ mg.failures + 1 \in Nat
    BY <1>0 DEF MgType
  <2>2. CASE WaitEnd
    <3>1. PICK pids \in SUBSET Processes, phase \in {"killed", "call"} :
             mg' = [mg EXCEPT !.pids = pids, !.phase = phase]
      BY <2>1, <2>2 DEF WaitEnd, kill_all_pids
    <3>2. SameLimit(mg, mg')
      BY <1>0, <3>1 DEF SameLimit, MgType
    <3>3. QED
      BY <1>2, <3>2
  <2>3. CASE CallReboot
    <3>1. \/ \E phase \in {"loop", "down"} : mg' = [mg EXCEPT !.phase = phase]
          \/ mg' = [mg EXCEPT !.phase = "loop", !.failures = mg.failures + 1]
      BY <2>3 DEF CallReboot, call_reboot
    <3>2. SameLimit(mg, mg')
      BY <1>0, <2>1, <3>1, ZenonT(60) DEF SameLimit, MgType
    <3>3. QED
      BY <1>2, <3>2
  <2>4. CASE ProcessExit
    <3>1. PICK procs \in SUBSET Processes : mg' = [mg EXCEPT !.procs = procs]
      BY <2>1, <2>4 DEF ProcessExit
    <3>2. SameLimit(mg, mg')
      BY <1>0, <3>1 DEF SameLimit, MgType
    <3>3. QED
      BY <1>2, <3>2
  <2>5. QED
    BY <1>7, <2>2, <2>3, <2>4
<1>8. CASE MainLoop
  <2> DEFINE n == new_limit(mg)
  <2>1. n \in MgType /\ Limited(n)
    BY <1>0, NewLimit
  <2> HIDE DEF n
  <2>2. ASSUME SameLimit(n, mg') PROVE Inv'
    BY <2>1, <2>2, SameOK DEF Inv, SameLimit
  <2>3. \/ mg' = [n EXCEPT !.state = "Ok"]
        \/ mg' = [n EXCEPT !.state = "Init", !.phase = "startup", !.startups = @ + 1]
        \/ mg' = [mg EXCEPT !.phase = "term", !.pids = mg.procs]
        \/ mg' = [mg EXCEPT !.phase = "panicked"]
    <3>1. \/ mg' = reload(mg) \/ mg' = reexec(mg) \/ mg' = reboot(mg)
          \/ mg' = [mg EXCEPT !.phase = "panicked"]
      BY <1>8 DEF MainLoop
    <3>2. reboot(mg) = [mg EXCEPT !.phase = "term", !.pids = mg.procs]
      BY <1>0 DEF reboot, kill_all_pids, MgType
    <3>3. QED
      BY <3>1, <3>2 DEF reload, reexec, n
  <2>4. CASE mg' = [n EXCEPT !.state = "Ok"]
    BY <2>1, <2>2, <2>4 DEF SameLimit, MgType
  <2>5. CASE mg' = [n EXCEPT !.state = "Init", !.phase = "startup", !.startups = @ + 1]
    <3>1. n.startups \in Nat
      BY <2>1 DEF MgType
    <3>2. PICK k \in Nat :
             mg' = [n EXCEPT !.state = "Init", !.phase = "startup", !.startups = k]
      <4>1. n.startups + 1 \in Nat
        BY <3>1
      <4>2. QED
        BY <2>5, <4>1
    <3>3. SameLimit(n, mg')
      BY <2>1, <3>2 DEF SameLimit, MgType
    <3>4. QED
      BY <2>2, <3>3
  <2>6. CASE mg' = [mg EXCEPT !.phase = "term", !.pids = mg.procs]
    <3>1. SameLimit(mg, mg')
      BY <1>0, <2>6 DEF SameLimit, MgType
    <3>2. QED
      BY <1>2, <3>1
  <2>7. CASE mg' = [mg EXCEPT !.phase = "panicked"]
    <3>1. SameLimit(mg, mg')
      BY <1>0, <2>7 DEF SameLimit, MgType
    <3>2. QED
      BY <1>2, <3>1
  <2>8. QED
    BY <2>3, <2>4, <2>5, <2>6, <2>7
<1>9. CASE Tick
  <2>1. mg' = [mg EXCEPT !.now = mg.now + 1]
    BY <1>9 DEF Tick
  <2>2. /\ mg' \in MgType /\ mg'.conf = mg.conf /\ mg'.now = mg.now + 1 /\ mg'.begin = mg.begin
        /\ mg'.nums = mg.nums /\ mg'.starts = mg.starts /\ mg.now \in Nat
    BY <1>0, <2>1, SMTT(30) DEF MgType
  <2>3. Times(mg')
    <3>1. \A i \in 1..Len(mg.starts) : mg.starts[i] \in Nat
      BY <1>0, ElementOfSeq DEF MgType
    <3>2. QED
      BY <1>0, <2>2, <3>1 DEF Limited, Times, Sorted
  <2>4. Window(mg')
    <3>1. \A b \in mg.begin : b \in Nat
      BY <1>0 DEF MgType
    <3>2. QED
      BY <1>0, <2>2, <3>1 DEF Limited, Window, Span, ratelimit_enabled
  <2>5. Bounded(mg')
    BY <1>0, <2>2 DEF Limited, Bounded, Span, ratelimit_enabled
  <2>6. QED
    BY <2>2, <2>3, <2>4, <2>5 DEF Inv, Limited
<1>10. CASE UNCHANGED mg
  BY <1>0, <1>10 DEF Inv
<1>11. QED
  BY <1>3, <1>4, <1>5, <1>6, <1>7, <1>8, <1>9, <1>10 DEF ManagerLoopNext, ManagerStep

LEMMA InitOK == ManagerLoopInit => Inv
<1> SUFFICES ASSUME NEW c \in EmergencyConfs,
                    mg = [conf |-> c, state |-> "Init", phase |-> "startup",
                          unit |-> "InActive", now |-> 0, begin |-> {}, nums |-> 0,
                          starts |-> <<>>, shutdown |-> "idle", procs |-> Processes,
                          pids |-> {}, reports |-> 0, startups |-> 0, failures |-> 0]
             PROVE  Inv
  BY DEF ManagerLoopInit, ManagerLoopStates
<1>1. mg \in MgType /\ mg.starts = <<>> /\ mg.begin = {}
  BY DEF MgType, UnitActiveState
<1>2. Limited(mg)
  BY <1>1 DEF Limited, Times, Sorted, Window, Bounded, Few
<1>3. QED
  BY <1>1, <1>2 DEF Inv

\* In no StartLimitInterval seconds a unit is started 2 * StartLimitBurst times, whatever
\* it reports in between and however it is refused.
THEOREM StartLimitHolds == ManagerLoopSpec => []StartsBounded
<1>1. Inv /\ [ManagerLoopNext]_mg => Inv'
  BY NextOK
<1>2. Inv => StartsBounded
  <2> SUFFICES ASSUME Inv PROVE StartsBounded
    OBVIOUS
  <2>1. mg.starts \in Seq(Nat) /\ DOMAIN mg.starts = 1..Len(mg.starts)
    BY LenProperties DEF Inv, MgType
  <2>2. QED
    BY <2>1 DEF Inv, Limited, Bounded, Few, Span, StartsBounded
<1>3. QED
  BY InitOK, <1>1, <1>2, PTL DEF ManagerLoopSpec
=============================================================================
