---------------------------- MODULE ManagerLoop ----------------------------
(***************************************************************************)
(* The main loop of sysmaster and what ends it (core/bin/manager/mod.rs,   *)
(* core/bin/unit/manager.rs, core/bin/unit/entry/ratelimit.rs): one unit   *)
(* is started, reports its states and runs into its start limit, and its   *)
(* SuccessAction, FailureAction, StartLimitAction and JobTimeoutAction     *)
(* start a target or set the state of the manager, which the loop reads    *)
(* between two events.                                                     *)
(*                                                                         *)
(*   conf       what the unit's file says: interval and burst of the start *)
(*              limit, the four actions, whether the targets require       *)
(*              shutdown.target; the commands given and the states         *)
(*              reported, with bounds on reports and time                  *)
(*   phase      startup, loop (between two events), event (the reports of  *)
(*              one event), term (waiting for the processes), call         *)
(*              (reboot(2)), down (the machine), and killed or panicked    *)
(*              (sysmaster alone)                                          *)
(*   begin      when the interval of the start limit began, if it did      *)
(*   starts     the times of the starts the limit let pass                 *)
(*   shutdown   shutdown.target: idle, waiting (a start job), active       *)
(*   procs      the other processes, pids those that reboot waits for      *)
(***************************************************************************)
EXTENDS Naturals, Sequences, FiniteSets

CONSTANTS EmergencyConfs, Processes,
          MaxStartups, MaxFailures   \* bounds

VARIABLE mg

TicksPerSec == 2

Soft == {"reboot", "poweroff", "exit"}
StateOf == [a \in {"reboot-force", "poweroff-force", "exit-force"} |->
              CASE a = "reboot-force" -> "Reboot"
                [] a = "poweroff-force" -> "PowerOff"
                [] a = "exit-force" -> "Exit"]
UnitActiveState ==
  {"InActive", "Activating", "Active", "Reloading", "DeActivating", "Failed", "Maintenance"}
Immediate == {"reboot-immediate", "poweroff-immediate"}
Rebooting == {"Reboot", "PowerOff", "Halt"}
Commands == Rebooting \cup {"Suspend", "ReLoad", "ReExecute"}

ASSUME ManagerLoopAssumption ==
  /\ \A c \in EmergencyConfs :
       /\ c.interval \in Nat /\ c.burst \in Nat /\ c.states \subseteq UnitActiveState
       /\ {c.failure, c.success, c.limit, c.timeout} \subseteq
            {"none"} \cup Soft \cup DOMAIN StateOf \cup Immediate
  /\ MaxStartups \in Nat /\ MaxFailures \in Nat

-----------------------------------------------------------------------------
(* Emergency actions *)

is_shutting_down(s) == s.shutdown \in {"waiting", "active"}

\* start_unit of a target: refused, or its jobs are queued.
start_target(s, a) ==
  {s, [s EXCEPT !.shutdown = IF s.conf.pulls THEN "waiting" ELSE @]}

\* reboot(2) at once; when it fails that is only logged.
reboot_at_once(s) == {s, [s EXCEPT !.phase = "down"]}

unit_emergency_action(s, a) ==
  CASE a = "none" -> {s}
    [] a \in Soft -> IF is_shutting_down(s) THEN {s} ELSE start_target(s, a)
    [] a \in DOMAIN StateOf -> {[s EXCEPT !.state = StateOf[a]]}
    [] a \in Immediate -> reboot_at_once(s)

\* The report of a unit that goes from s.unit to ns.
insert_states(s, ns) ==
  LET os == s.unit
      t  == [s EXCEPT !.unit = ns]
  IN IF os # "Failed" /\ ns = "Failed" THEN unit_emergency_action(t, s.conf.failure)
     ELSE IF os \notin {"InActive", "Failed"} /\ ns = "InActive"
       THEN unit_emergency_action(t, s.conf.success)
     ELSE {t}

-----------------------------------------------------------------------------
(* The start limit *)

ratelimit_enabled(s) == s.conf.interval > 0 /\ s.conf.burst > 0

\* duration_since(begin).as_secs() > interval
is_over(s) ==
  \A b \in s.begin : (s.now - b) \div TicksPerSec > s.conf.interval

\* A mistake: the start that opens a new interval is not counted.
ratelimit_below_zero(s) ==
  CASE ~ratelimit_enabled(s) -> [ok |-> TRUE, s |-> s]
    [] ratelimit_enabled(s) /\ is_over(s) ->
         [ok |-> TRUE, s |-> [s EXCEPT !.begin = {s.now}, !.nums = 0]]
    [] OTHER -> [ok |-> s.nums < s.conf.burst,
                 s |-> IF s.nums < s.conf.burst THEN [s EXCEPT !.nums = @ + 1] ELSE s]

ratelimit_below(s) ==
  CASE ~ratelimit_enabled(s) -> [ok |-> TRUE, s |-> s]
    [] ratelimit_enabled(s) /\ is_over(s) ->
         [ok |-> TRUE, s |-> [s EXCEPT !.begin = {s.now}, !.nums = 1]]
    [] OTHER -> [ok |-> s.nums < s.conf.burst,
                 s |-> IF s.nums < s.conf.burst THEN [s EXCEPT !.nums = @ + 1] ELSE s]

\* test_start_limit with start_check of the unit: a unit that may not start has
\* its StartLimitAction taken and then fails.
start_check(s) ==
  LET r == ratelimit_below(s)
  IN IF r.ok
     THEN insert_states([r.s EXCEPT !.starts = Append(@, s.now)], "Activating")
     ELSE UNION {insert_states(t, "Failed") :
                   t \in unit_emergency_action(r.s, s.conf.limit)}

-----------------------------------------------------------------------------
(* The loop *)

\* A new process: the unit's limit begins anew.
new_limit(s) == [s EXCEPT !.begin = {}, !.nums = 0, !.starts = <<>>]

\* rloop goes on while the state is Ok, and each turn dispatches one event.
is_looping(s) == s.phase = "loop" /\ s.state = "Ok"

\* The events that report a state: exits, timers, and the unit's jobs.
EventBegin == is_looping(mg) /\ mg' = [mg EXCEPT !.phase = "event"]

Report ==
  /\ mg.phase \in {"event", "startup"} /\ mg.reports < mg.conf.reports
  /\ \E ns \in mg.conf.states \ {mg.unit} :
       mg' \in insert_states([mg EXCEPT !.reports = @ + 1], ns)

StartUnit ==
  /\ mg.phase = "event" /\ mg.reports < mg.conf.reports
  /\ mg.unit \in {"InActive", "Failed"}
  /\ mg' \in start_check([mg EXCEPT !.reports = @ + 1])

\* insert_job_result: only a time-out has an action.
JobTimeout ==
  /\ mg.phase = "event" /\ mg.reports < mg.conf.reports
  /\ mg' \in unit_emergency_action([mg EXCEPT !.reports = @ + 1], mg.conf.timeout)

\* The start job of shutdown.target ends.
ShutdownEnds ==
  /\ mg.phase = "event" /\ mg.shutdown = "waiting"
  /\ \E st \in {"active", "idle"} : mg' = [mg EXCEPT !.shutdown = st]

EventEnd == mg.phase = "event" /\ mg' = [mg EXCEPT !.phase = "loop"]

\* A command is an event of its own.
Command ==
  /\ is_looping(mg)
  /\ \E c \in Commands \cap mg.conf.commands : mg' = [mg EXCEPT !.state = c]

\* daemon-reload makes the units anew; their states are recovered.
reload(s) == [new_limit(s) EXCEPT !.state = "Ok"]

\* Re-execution: the next process is in startup.
reexec(s) == [new_limit(s) EXCEPT !.state = "Init", !.phase = "startup", !.startups = @ + 1]

\* Everyone /proc lists is sent the signal and waited for, sysmaster among them: it
\* blocks SIGTERM to read it from a descriptor later, but SIGKILL ends it.
kill_all_pids(s, signal) ==
  [s EXCEPT !.pids = s.procs, !.phase = IF signal = "SIGKILL" THEN "killed" ELSE "term"]

\* reboot: SIGTERM to everyone, and wait.
reboot(s) == kill_all_pids(s, "SIGTERM")

\* The match of main_loop; Exit has no branch but todo!().
MainLoop ==
  /\ mg.phase = "loop" /\ mg.state # "Ok"
  /\ mg.state = "ReExecute" => mg.startups < MaxStartups
  /\ mg' = CASE mg.state = "ReLoad" -> reload(mg)
             [] mg.state = "ReExecute" -> reexec(mg)
             [] mg.state \in Rebooting \cup {"Suspend"} -> reboot(mg)
             [] OTHER -> [mg EXCEPT !.phase = "panicked"]

\* What was reported during recovery has set the state before this.
StartupEnd ==
  /\ mg.phase = "startup"
  /\ mg' = [mg EXCEPT !.state = "Ok", !.phase = "loop"]

\* wait_pids, which waits neither for init nor for sysmaster: nobody is left, or ten
\* seconds are over and everyone is killed.
WaitEnd ==
  /\ mg.phase = "term"
  /\ mg' = IF mg.pids \cap mg.procs # {} THEN kill_all_pids(mg, "SIGKILL")
           ELSE [mg EXCEPT !.pids = {}, !.phase = "call"]

\* A mistake: reboot(2) is not tried again.
call_reboot_once(s) ==
  {[s EXCEPT !.phase = IF s.state = "Suspend" THEN "loop" ELSE "down"]} \cup
  (IF s.failures < MaxFailures
   THEN {[s EXCEPT !.phase = "loop", !.state = "Ok", !.failures = @ + 1]} ELSE {})

\* reboot(2): it does not return but from a suspension, and its error is dropped;
\* the loop comes back with the same state.
call_reboot(s) ==
  {[s EXCEPT !.phase = IF s.state = "Suspend" THEN "loop" ELSE "down"]} \cup
  (IF s.failures < MaxFailures
   THEN {[s EXCEPT !.phase = "loop", !.failures = @ + 1]} ELSE {})

CallReboot == mg.phase = "call" /\ mg' \in call_reboot(mg)

ProcessExit ==
  /\ mg.phase = "term"
  /\ \E p \in mg.procs : mg' = [mg EXCEPT !.procs = @ \ {p}]

Tick ==
  /\ mg.phase = "loop" /\ mg.now < mg.conf.time
  /\ mg' = [mg EXCEPT !.now = @ + 1]

ManagerLoopStates ==
  {[conf |-> c, state |-> "Init", phase |-> "startup", unit |-> "InActive",
    now |-> 0, begin |-> {}, nums |-> 0, starts |-> <<>>,
    shutdown |-> "idle", procs |-> Processes, pids |-> {},
    reports |-> 0, startups |-> 0, failures |-> 0] : c \in EmergencyConfs}

ManagerLoopInit == mg \in ManagerLoopStates

\* What the manager has begun or what the state asks of it.
is_due(s) ==
  \/ s.phase \in {"startup", "event", "term", "call"}
  \/ s.phase = "loop" /\ s.state # "Ok" /\ ~(s.state = "ReExecute" /\ s.startups = MaxStartups)

ManagerStep == EventEnd \/ MainLoop \/ StartupEnd \/ WaitEnd \/ CallReboot

ManagerLoopNext ==
  \/ EventBegin \/ ManagerStep \/ Report \/ StartUnit \/ JobTimeout \/ ShutdownEnds
  \/ Command \/ ProcessExit \/ Tick

\* The manager's steps are taken: an event ends, wait_pids gives up after its time.
ManagerFairness == []<>~is_due(mg) \/ []<><<ManagerStep>>_mg

ManagerLoopSpec == ManagerLoopInit /\ [][ManagerLoopNext]_mg /\ ManagerFairness

-----------------------------------------------------------------------------
(* What the loop keeps *)

\* In StartLimitInterval seconds a unit is started less than twice StartLimitBurst
\* times: the starts of two neighbouring intervals may fall together, but the first
\* of them lies StartLimitInterval back (ratelimit_below).  This is what the code
\* keeps, and less than docs/man/unit.md:35 promises: see AtMostBurst.
StartsBounded ==
  ratelimit_enabled(mg) =>
    \A i, j \in DOMAIN mg.starts :
      mg.starts[j] - mg.starts[i] <= mg.conf.interval * TicksPerSec
        => j - i + 1 <= 2 * mg.conf.burst - 1

\* The promise of docs/man/unit.md:35: sysmaster starts a unit at most StartLimitBurst
\* times within StartLimitInterval (ratelimit_below).  It does not hold: the last starts
\* of one interval and the first ones of the next fall together.
AtMostBurst ==
  ratelimit_enabled(mg) =>
    \A i, j \in DOMAIN mg.starts :
      mg.starts[j] - mg.starts[i] <= mg.conf.interval * TicksPerSec
        => j - i + 1 <= mg.conf.burst

Forced == Rebooting \cup {"Exit"}

\* The end of a forced action, other than the machine going down: reboot kills
\* sysmaster with everyone who ignored SIGTERM, and Exit is a todo!().
is_gone(s) == s.phase = "killed" \/ (s.phase = "panicked" /\ s.state = "Exit")

\* A forced reboot, poweroff or exit that is asked for after startup is final: no
\* later event, command or failed reboot(2) takes it back and lets the loop go on
\* (main_loop).  That the machine goes down is ForcedIsDone, which does not hold.
ForcedIsFinal ==
  (mg.phase \in {"event", "loop"} /\ mg.state \in Forced) ~> (mg.phase = "down" \/ is_gone(mg))

\* The promise of docs/man/unit.md:19 and 27: reboot-force and poweroff-force change the
\* state of the system, after the processes are killed (reboot, kill_all_pids).  When a
\* process outlives SIGTERM it is not kept: the SIGKILL that follows is sent to sysmaster
\* too (process_util.rs:94), before it has called reboot(2).
ForcedIsDone ==
  (mg.phase \in {"event", "loop"} /\ mg.state \in Rebooting) ~> (mg.phase = "down")

=============================================================================
