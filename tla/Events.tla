------------------------------- MODULE Events --------------------------------
(***************************************************************************)
(* The event loop with its clocks, its heaps of timers and its descriptors *)
(* (libs/event: events.rs, timer.rs, poll), under any client that adds,    *)
(* arms, turns off and deletes sources in its callbacks.  EventLoop, which *)
(* Service uses, leaves these out: ImplementsLoop shows that it may.       *)
(*                                                                         *)
(* A clock is known by what is left until a timer is due, so that it may   *)
(* run for ever.                                                           *)
(***************************************************************************)
EXTENDS Integers, FiniteSets, FiniteSetsExt

CONSTANTS
    LoopScenes,  \* functions from the sources of a scene to [kind, priority, period]
    MaxFds,      \* the timer descriptors sysmaster may have open: source_offline forgets
                 \* the one it takes away and does not close it, so they are used up
    MaxPending   \* how often a source is counted as pending

VARIABLE lp

Clocks == {"TimerRealtime", "TimerMonotonic"}

Never == 99  \* a timer descriptor that is not set

NoTimerFd == [fd |-> "none", left |-> Never, up |-> FALSE]

Src == DOMAIN lp.src

timers(x, c) == {t \in x.heap : x.src[t.src].kind = c}

waits(x, s) == \E t \in x.heap : t.src = s

pending_push(x, srcs) ==
    [x EXCEPT !.pending = [s \in DOMAIN x.src |->
        IF s \in srcs /\ @[s] < MaxPending THEN @[s] + 1 ELSE @[s]]]

(***************************************************************************)
(* The timers of a clock.                                                  *)
(***************************************************************************)
\* Timer::push: the time of the clock is added to time_relative().
timer_push(x, s) == [x EXCEPT !.heap = @ \cup {[src |-> s, left |-> x.src[s].period]}]

due(x, c) == {t \in timers(x, c) : t.left = 0}

timer_next(x, c) == Min({t.left : t \in timers(x, c)})

\* Timer::pop until nothing is due.
timer_pop(x, c) == [pending_push(x, {t.src : t \in due(x, c)}) EXCEPT !.heap = @ \ due(x, c)]

\* Sources are compared by priority: every timer of the same priority goes.
timer_remove(x, s) ==
    [x EXCEPT !.heap = {t \in @ : \/ x.src[t.src].kind # x.src[s].kind
                                  \/ x.src[t.src].priority # x.src[s].priority}]

(***************************************************************************)
(* The sources.                                                            *)
(***************************************************************************)
fail(x) == [x EXCEPT !.ok = FALSE]

add_source(x, s) == [x EXCEPT !.state[s] = "Off"]

\* timerfd_create: without a free descriptor the result is -1, which the map keeps,
\* and epoll refuses it.
timerfd_create(x, c) ==
    IF x.fds < MaxFds
    THEN [x EXCEPT !.timerfd[c] = [NoTimerFd EXCEPT !.fd = "open"], !.fds = @ + 1, !.epoll = @ \cup {c}]
    ELSE fail([x EXCEPT !.timerfd[c] = [NoTimerFd EXCEPT !.fd = "bad"]])

\* A mistake: the timer descriptor stays in the map and is not registered again.
timerfd_clean_kept(x, c) == IF timers(x, c) # {} THEN x ELSE [x EXCEPT !.epoll = @ \ {c}]

\* The descriptor leaves the map and epoll without being closed.
timerfd_clean(x, c) ==
    IF timers(x, c) # {} \/ x.timerfd[c].fd = "none" THEN x
    ELSE LET y == [x EXCEPT !.timerfd[c] = NoTimerFd, !.epoll = @ \ {c}]
         IN  IF x.timerfd[c].fd = "bad" THEN fail(y) ELSE y

\* epoll holds a descriptor once.  All Inotify sources share one.
source_online(x, s) ==
    LET kind == x.src[s].kind
        same == {o \in DOMAIN x.src : o = s \/ (kind = "Inotify" /\ x.src[o].kind = kind)}
    IN  CASE kind = "Defer" -> pending_push(x, {s})
          [] kind \in Clocks ->
                 LET y == IF x.timerfd[kind].fd = "none" THEN timerfd_create(x, kind) ELSE x
                 IN  IF y.ok THEN timer_push(y, s) ELSE y
          [] OTHER -> IF same \cap x.epoll # {} THEN fail(x) ELSE [x EXCEPT !.epoll = @ \cup {s}]

source_offline(x, s) ==
    LET kind == x.src[s].kind
    IN  CASE x.state[s] \in {"None", "Off"} -> x
          [] kind \in Clocks -> timerfd_clean(timer_remove(x, s), kind)
          [] OTHER -> [x EXCEPT !.epoll = @ \ {s}]

set_enabled(x, s, st) ==
    LET y == IF st = "Off" THEN source_offline(x, s) ELSE source_online(x, s)
    IN  IF y.ok THEN [y EXCEPT !.state[s] = st] ELSE y

del_source(x, s) ==
    LET y == source_offline(x, s)
    IN  IF y.ok THEN [y EXCEPT !.state[s] = "None"] ELSE y

(***************************************************************************)
(* Events::run: prepare, wait, dispatch.                                   *)
(***************************************************************************)
\* timerfd_settime takes back an expiration that was not read.
timerfd_settime(x, c) ==
    IF x.timerfd[c].fd = "open"
    THEN [x EXCEPT !.timerfd[c].left = timer_next(x, c), !.timerfd[c].up = FALSE] ELSE x

prepare_clock(x, c) ==
    CASE timers(x, c) = {} -> x
      [] due(x, c) # {} -> timer_pop(x, c)
      [] x.timerfd[c].fd = "none" -> [x EXCEPT !.pc = "panic"]
      [] OTHER -> timerfd_settime(x, c)

Prepare ==
    /\ lp.pc = "prepare"
    /\ LET x == prepare_clock(prepare_clock(lp, "TimerRealtime"), "TimerMonotonic")
       IN  lp' = [x EXCEPT !.pc = CASE x.pc = "panic" -> x.pc
                                    [] \E s \in Src : x.pending[s] > 0 -> "wait0"
                                    [] OTHER -> "wait"]

is_readable(x, s) == s \in x.epoll \cap x.ready

\* The wait for one clock; reading the descriptor -1 fails and ends it.
wait_clock(x, c) ==
    CASE ~x.ok \/ due(x, c) = {} -> x
      [] x.timerfd[c].fd = "none" -> [x EXCEPT !.pc = "panic"]
      [] x.timerfd[c].fd = "bad" -> fail(x)
      [] OTHER -> timer_pop([x EXCEPT !.timerfd[c].up = FALSE], c)

\* epoll reports a timer descriptor under the token of a timer, which is not among
\* the sources: it only ends the wait.
wait(x) ==
    LET polled == pending_push(x, {s \in Src : is_readable(x, s)})
    IN  wait_clock(wait_clock(polled, "TimerRealtime"), "TimerMonotonic")

\* What is pending is not kept waiting, unless the wait fails: then run waits again.
Wait0 ==
    /\ lp.pc = "wait0"
    /\ LET x == wait(lp)
       IN  lp' = [x EXCEPT !.ok = TRUE,
                           !.pc = CASE x.pc = "panic" -> x.pc [] x.ok -> "dispatch" [] OTHER -> "wait"]

is_woken == (\E s \in Src : is_readable(lp, s)) \/ (\E c \in lp.epoll \cap Clocks : lp.timerfd[c].up)

Wait ==
    /\ lp.pc = "wait" /\ is_woken
    /\ LET x == wait(lp)
       IN  lp' = [x EXCEPT !.ok = TRUE, !.pc = IF x.pc = "panic" THEN x.pc ELSE "dispatch"]

\* A signal that is not blocked ends the wait.
WaitFails == lp.pc = "wait" /\ lp' = [lp EXCEPT !.pc = "dispatch"]

is_top(x, s) ==
    x.pending[s] > 0 /\ \A o \in Src : x.pending[o] > 0 => x.src[s].priority <= x.src[o].priority

\* A mistake: a OneShot source stays armed in its callback.
dispatch_armed(x, s) ==
    LET popped == [x EXCEPT !.pending[s] = @ - 1]
    IN  CASE x.state[s] = "None" -> [popped EXCEPT !.pc = "panic"]
          [] x.state[s] = "Off" -> [popped EXCEPT !.pc = "prepare"]
          [] OTHER -> [popped EXCEPT !.pc = "callback", !.who = s]

\* A failed set_enabled ends run, and with it rloop.
dispatch(x, s) ==
    LET popped == [x EXCEPT !.pending[s] = @ - 1]
        off == set_enabled(popped, s, "Off")
    IN  CASE x.state[s] = "None" -> [popped EXCEPT !.pc = "panic"]
          [] x.state[s] = "Off" -> [popped EXCEPT !.pc = "prepare"]
          [] x.state[s] = "On" -> [popped EXCEPT !.pc = "callback", !.who = s]
          [] OTHER -> IF off.ok THEN [off EXCEPT !.pc = "callback", !.who = s]
                      ELSE [off EXCEPT !.pc = "ended"]

Dispatch(s) == lp.pc = "dispatch" /\ is_top(lp, s) /\ lp' = dispatch(lp, s)

DispatchNone ==
    lp.pc = "dispatch" /\ (\A s \in Src : lp.pending[s] = 0) /\ lp' = [lp EXCEPT !.pc = "prepare"]

(***************************************************************************)
(* The clients: their callbacks, and the start-up before the first run.    *)
(***************************************************************************)
Client(x) == lp.pc = "callback" /\ lp' = [x EXCEPT !.ok = TRUE]

Add(s) == lp.state[s] = "None" /\ Client(add_source(lp, s))

\* Timers are armed once, as enable_timer and its like turn them off before; the
\* Defer event of the job manager is armed again and again.
Enable(s) ==
    /\ IF lp.src[s].kind = "Defer" THEN lp.state[s] # "None" /\ lp.pending[s] < MaxPending
       ELSE lp.state[s] = "Off"
    /\ Client(set_enabled(lp, s, IF lp.src[s].kind \in Clocks \cup {"Defer"} THEN "OneShot" ELSE "On"))

Disable(s) == lp.state[s] \in {"On", "OneShot"} /\ Client(set_enabled(lp, s, "Off"))

Delete(s) == lp.state[s] # "None" /\ Client(del_source(lp, s))

Read == lp.who \in lp.ready /\ Client([lp EXCEPT !.ready = @ \ {lp.who}])

\* AliveTimerData::dispatch arms the heart-beat again.
Return ==
    /\ lp.pc = "callback"
    /\ LET x == IF lp.who = "alive" /\ lp.state["alive"] = "Off" THEN set_enabled(lp, "alive", "OneShot") ELSE lp
       IN  lp' = [x EXCEPT !.ok = TRUE, !.pc = "prepare", !.who = "none"]

(***************************************************************************)
(* The kernel.                                                             *)
(***************************************************************************)
Arrive(s) ==
    /\ lp.src[s].kind \notin Clocks \cup {"Defer"} /\ s \notin lp.ready
    /\ lp' = [lp EXCEPT !.ready = @ \cup {s}]

less(n) == IF n = Never \/ n = 0 THEN n ELSE n - 1

Tick(c) ==
    /\ \E t \in timers(lp, c) : t.left > 0
    /\ LET fd == lp.timerfd[c]
       IN  lp' = [lp EXCEPT
                    !.heap = {IF lp.src[t.src].kind = c THEN [t EXCEPT !.left = less(@)] ELSE t : t \in @},
                    !.timerfd[c] = [fd EXCEPT !.left = IF fd.left = 1 THEN Never ELSE less(@),
                                              !.up = @ \/ fd.left = 1]]

LoopStates ==
    {[src |-> src, state |-> [s \in DOMAIN src |-> "None"], heap |-> {},
      timerfd |-> [c \in Clocks |-> NoTimerFd], fds |-> 0, epoll |-> {}, ok |-> TRUE,
      pending |-> [s \in DOMAIN src |-> 0], ready |-> {}, pc |-> "callback", who |-> "none"] :
        src \in LoopScenes}

LoopInit == lp \in LoopStates

LoopNext ==
    \/ Prepare \/ Wait0 \/ Wait \/ WaitFails \/ DispatchNone \/ Read \/ Return
    \/ \E s \in Src : Dispatch(s) \/ Add(s) \/ Enable(s) \/ Disable(s) \/ Delete(s) \/ Arrive(s)
    \/ \E c \in Clocks : Tick(c)

\* sysmaster takes its steps, and time passes.
LoopFair ==
    /\ \A pc \in {"prepare", "wait0", "dispatch", "callback"} : []<>(lp.pc # pc)
    /\ []<>~(lp.pc = "wait" /\ is_woken)
    /\ \A c \in Clocks : []<>(\A t \in timers(lp, c) : t.left = 0) \/ []<><<Tick(c)>>_lp

LoopSpec == LoopInit /\ [][LoopNext]_lp /\ LoopFair

(***************************************************************************)
(* What must hold.                                                         *)
(***************************************************************************)

\* Every step is one that EventLoop allows, for the sources on the monotonic clock,
\* the descriptors and the deferred ones: what Service is checked against is what
\* events.rs does with clocks, heaps and descriptors, as long as they suffice.  They do
\* not in the long run: each time the last timer of a clock is taken off, its descriptor
\* stays open (events.rs:378), and once all are open no timer can be added.
LoopSource == {s \in Src : lp.src[s].kind # "TimerRealtime"}

Loop == INSTANCE EventLoop WITH
    Source <- LoopSource,
    EventType <- [s \in LoopSource |-> CASE lp.src[s].kind \in Clocks -> "Timer"
                                         [] lp.src[s].kind = "Defer" -> "Defer"
                                         [] OTHER -> "Io"],
    Priority <- [s \in LoopSource |-> lp.src[s].priority]

loop_of(x) ==
    [state |-> [s \in LoopSource |-> x.state[s]],
     timer |-> {s \in LoopSource : waits(x, s)},
     timerfd |-> x.timerfd["TimerMonotonic"].fd # "none",
     pending |-> [s \in LoopSource |-> x.pending[s]]]

LoopStep ==
    LET ev == loop_of(lp)
        new == loop_of(lp')
    IN  \/ \E s \in LoopSource :
               \/ new = Loop!add_source(ev, s)
               \/ new = Loop!del_source(ev, s)
               \/ \E st \in {"On", "Off", "OneShot"} : new = Loop!set_enabled(ev, s, st)
               \/ Loop!is_top(ev, s) /\ new = Loop!dispatch_begin(ev, s)
        \/ \E d \in SUBSET ev.timer, r \in SUBSET {s \in LoopSource : Loop!is_ready(ev, s)} :
               Loop!is_collect_ok(ev, d) /\ new = Loop!collect(ev, d, r)

ImplementsLoop == [][LoopStep \/ lp.fds = MaxFds]_lp

Armed == {s \in Src : lp.src[s].kind \in Clocks /\ lp.state[s] = "OneShot"}

\* Several timers are scheduled in turn: turning one off, or the dispatch of one,
\* leaves the other ones waiting, as long as there are descriptors.
AllAreWaiting ==
    lp.pc = "prepare" /\ lp.fds < MaxFds => \A s \in Armed : waits(lp, s) \/ lp.pending[s] > 0

\* A timer leaves its heap some time, whatever else happens: the descriptor wakes the
\* loop for the earliest, as long as there are descriptors (timerfd_clean, prepare).  It
\* says nothing of a timer that another one took with it: see AllAreWaiting.
TimerIsDue ==
    \A t \in {"alive", "t1", "t2"} :
        []<>(lp.fds = MaxFds \/ lp.pc = "panic" \/ ~waits(lp, t))
=============================================================================
