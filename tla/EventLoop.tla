----------------------------- MODULE EventLoop ------------------------------
(***************************************************************************)
(* The event loop (libs/event: events.rs, timer.rs).  A value ev is what   *)
(* EventsData holds of the sources:                                        *)
(*                                                                         *)
(*   state     the EventState of a source, "None" while it has no entry    *)
(*   timer     the timers waiting for their time                           *)
(*   timerfd   the timer descriptor exists                                 *)
(*   pending   how often a source waits to be dispatched                   *)
(*                                                                         *)
(* The clock is left out: any waiting timer may be due.  All timers here   *)
(* are on one clock.  A descriptor is registered with epoll exactly while  *)
(* its source is On.  The timers are a set, as every caller in the program *)
(* turns a timer off before it arms it again.                              *)
(***************************************************************************)
EXTENDS Integers

CONSTANTS Source, EventType, Priority

ASSUME SourceAssumption ==
    /\ EventType \in [Source -> {"Io", "Timer", "Defer"}]
    /\ Priority \in [Source -> Int]

NewEvents ==
    [state |-> [s \in Source |-> "None"], timer |-> {}, timerfd |-> FALSE,
     pending |-> [s \in Source |-> 0]]

pending_push(ev, s) == [ev EXCEPT !.pending[s] = @ + 1]

add_source(ev, s) == [ev EXCEPT !.state[s] = "Off"]

source_online(ev, s) ==
    CASE EventType[s] = "Timer" -> [ev EXCEPT !.timer = @ \cup {s}, !.timerfd = TRUE]
      [] EventType[s] = "Defer" -> pending_push(ev, s)
      [] OTHER -> ev

\* Sources compare equal when their priorities do.
timer_remove(ev, s) == [ev EXCEPT !.timer = {o \in @ : Priority[o] # Priority[s]}]

timerfd_clean(ev) == [ev EXCEPT !.timerfd = @ /\ ev.timer # {}]

source_offline(ev, s) ==
    IF ev.state[s] \notin {"None", "Off"} /\ EventType[s] = "Timer"
    THEN timerfd_clean(timer_remove(ev, s))
    ELSE ev

del_source(ev, s) == [source_offline(ev, s) EXCEPT !.state[s] = "None"]

set_enabled(ev, s, st) ==
    [IF st = "Off" THEN source_offline(ev, s) ELSE source_online(ev, s) EXCEPT !.state[s] = st]

\* prepare and wait: the timers due and the descriptors ready become pending.
\* prepare asks for the timer descriptor of every timer that is not due.
is_collect_ok(ev, due) == ev.timer \ due # {} => ev.timerfd

collect(ev, due, ready) ==
    [ev EXCEPT !.timer = @ \ due,
               !.pending = [s \in Source |-> @[s] + (IF s \in due \cup ready THEN 1 ELSE 0)]]

is_ready(ev, s) == EventType[s] = "Io" /\ ev.state[s] = "On"

\* dispatch: one of the pending sources with the highest priority is popped.
is_top(ev, s) ==
    ev.pending[s] > 0 /\ \A o \in Source : ev.pending[o] > 0 => Priority[s] <= Priority[o]

\* The state of the popped source is unwrapped.
is_pop_ok(ev, s) == ev.state[s] # "None"

pending_pop(ev, s) == [ev EXCEPT !.pending[s] = @ - 1]

\* A OneShot source is turned off before its callback.
dispatch_begin(ev, s) ==
    IF ev.state[s] = "OneShot" THEN set_enabled(pending_pop(ev, s), s, "Off")
    ELSE pending_pop(ev, s)
=============================================================================
