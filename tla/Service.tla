------------------------------ MODULE Service -------------------------------
(***************************************************************************)
(* One service (coms/service: mng.rs, pid.rs, spawn.rs, monitor.rs), with  *)
(* the processes it runs, the pids watched for it, and its sources in      *)
(* the event loop.  svc is one record:                                     *)
(*                                                                         *)
(*   conf       the unit file, and what the environment may do: the counts *)
(*              of commands stand for the commands, a timeout is "inf" or  *)
(*              a name, notify the messages its processes send, forks      *)
(*              whether they fork, fails how many spawns, timers and       *)
(*              watches fail, spare how many pids a Start and a fork leave *)
(*              for the callbacks                                          *)
(*   state .. override   ServiceMng, ServicePid and RunningData            *)
(*   ev         the sources "timer", "watchdog" and "pid_file"             *)
(*   proc       a process runs, was sent SIGKILL, or waits to be reaped;   *)
(*              parent is 0 for the children of sysmaster                  *)
(*   watch      the pids whose exit goes to this service                   *)
(*   file       the pid in the PIDFile, 0 when there is none               *)
(*   calls      the functions still to be called in the callback that      *)
(*              runs: every enter_ function is a step of its own           *)
(*   op, from, ret, said   the operation the callback carries out, the     *)
(*              unit state before it, its answer, and the changes it has   *)
(*              reported                                                   *)
(*   queued     the job of the unit that waits, which has_stop_job sees    *)
(*   asked      the last Start or Stop job that was run                    *)
(*   refused    the timer that was set last could not be                   *)
(*   panic      the unwrap that failed or "unreachable", "" if none did    *)
(*                                                                         *)
(* The loop has one thread: a callback begins when no other runs.  Child   *)
(* exits come before every source of the service, and jobs run only when   *)
(* none of them is pending.  Processes run and exit at any time.           *)
(***************************************************************************)
EXTENDS EventLoop, UnitContract, Sequences, FiniteSets

CONSTANTS Conf,        \* the unit files
          Pid,         \* 1 .. the number of processes there may be at once
          MaxPending   \* how often one source may be pending

ASSUME ServiceAssumption ==
    /\ {"timer", "watchdog", "pid_file", "old_pid_file"} \subseteq Source
    /\ Pid \subseteq Nat \ {0}
    /\ MaxPending \in Nat

VARIABLE svc

StartingState == {"Condition", "StartPre", "Start", "StartPost"}
StoppingState == {"Stop", "StopWatchdog", "StopSigterm", "StopSigkill", "StopPost",
                  "FinalWatchdog", "FinalSigterm", "FinalSigkill"}
ServiceState == StartingState \cup StoppingState
                    \cup {"Dead", "Failed", "Running", "Exited", "Reload", "AutoRestart"}
ServiceCommand == {"Condition", "StartPre", "Start", "StartPost", "Reload", "Stop", "StopPost"}
ServiceResult == {"Success", "FailureProtocol", "FailureResources", "FailureSignal",
                  "FailureStartLimitHit", "FailureWatchdog", "FailureExitCode", "FailureTimeout"}

to_unit_active_state(st) ==
    CASE st = "Dead" -> "InActive"
      [] st \in StartingState \cup {"AutoRestart"} -> "Activating"
      [] st \in {"Running", "Exited"} -> "Active"
      [] st = "Reload" -> "Reloading"
      [] st \in StoppingState -> "DeActivating"
      [] st = "Failed" -> "Failed"

check(x, cond, why) == IF x.panic = "" /\ ~cond THEN [x EXCEPT !.panic = why] ELSE x

-----------------------------------------------------------------------------
(* Processes and pids *)

runs(x, p) == x.proc[p] \in {"run", "killed"}

\* process_util::alive reads the fourth field of /proc/<pid>/stat, which is the
\* parent and not the state: a process that was not waited for yet is "alive".
alive(x, p) == x.proc[p] # "none"

free_pids(x) == {p \in Pid : x.proc[p] = "none"}
lowest(S) == CHOOSE p \in S : \A q \in S : p <= q

cgroup_pids(x) == {p \in Pid : runs(x, p)}
cgroup_good(x) == cgroup_pids(x) # {}
child_watch_pid(x, p) == [x EXCEPT !.watch = @ \cup {p}]

\* There is no pid 0 to be unwatched.
unwatch_main(x) == [x EXCEPT !.watch = @ \ {x.main}, !.main = 0]
unwatch_control(x) == [x EXCEPT !.watch = @ \ {x.control}, !.control = 0]

set_main(x, p) ==
    IF x.main = p THEN x
    ELSE [unwatch_main(x) EXCEPT !.main = p, !.main_pid_alien = x.parent[p] # 0, !.known = TRUE]

set_control(x, p) == [x EXCEPT !.control = p]

service_alive(x) == IF x.known THEN x.main # 0 /\ alive(x, x.main) ELSE cgroup_good(x)

guess_main_pid_unwatched(x) ==
    LET children == {p \in cgroup_pids(x) : x.parent[p] = 0}
    IN  IF x.main # 0 \/ children = {} THEN x ELSE set_main(x, lowest(children))

guess_main_pid(x) ==
    LET children == {p \in cgroup_pids(x) : x.parent[p] = 0}
    IN  IF x.main # 0 \/ children = {} THEN x
        ELSE child_watch_pid(set_main(x, lowest(children)), lowest(children))

\* load_pid_file: "Err", "same" when it names the main process already.
pid_file_says(x) ==
    CASE ~x.conf.pid_file \/ x.file = 0 -> "Err"
      [] x.conf.pid_file /\ x.file # 0 /\ x.file = x.main -> "same"
      [] OTHER -> IF x.file # x.control /\ alive(x, x.file) THEN "new" ELSE "Err"

load_pid_file(x) ==
    IF pid_file_says(x) = "new" THEN child_watch_pid(set_main(unwatch_main(x), x.file), x.file)
    ELSE x

\* Unit::kill_context with KillMode=control-group.  It has no error.
kill_context(x, op) ==
    IF op = "KillKill"
    THEN [x EXCEPT !.proc = [p \in Pid |-> IF runs(x, p) THEN "killed" ELSE @[p]]]
    ELSE x

is_wait_exit_any(x) == cgroup_good(x)

is_wait_exit(x) ==
    (x.main # 0 /\ x.proc[x.main] # "none" /\ ~x.main_pid_alien)
        \/ (x.control # 0 /\ x.proc[x.control] # "none")

-----------------------------------------------------------------------------
(* Timers *)

with_ev(x, ev) == [x EXCEPT !.ev = ev]
arm(ev, s) == set_enabled(ev, s, "OneShot")

enable_timer_once(x, usec) ==
    CASE usec = "inf" -> IF x.armd_timer THEN with_ev(x, del_source(x.ev, "timer")) ELSE x
      [] usec # "inf" /\ x.armd_timer -> [x EXCEPT !.usec = usec, !.refused = FALSE]
      [] OTHER ->
            [x EXCEPT !.usec = usec, !.ev = arm(add_source(@, "timer"), "timer"),
                      !.armd_timer = TRUE, !.refused = FALSE]

enable_timer(x, usec) ==
    CASE usec = "inf" -> IF x.armd_timer THEN with_ev(x, del_source(x.ev, "timer")) ELSE x
      [] usec # "inf" /\ x.armd_timer ->
            [x EXCEPT !.usec = usec, !.ev = arm(set_enabled(@, "timer", "Off"), "timer"),
                      !.refused = FALSE]
      [] OTHER ->
            [x EXCEPT !.usec = usec, !.ev = arm(add_source(@, "timer"), "timer"),
                      !.armd_timer = TRUE, !.refused = FALSE]

\* enable_timer fails where a timer descriptor is to be made and cannot be: the timer is
\* attached, but off.  What a failure leaves in the event loop for good is in Events.
timer_off(x) ==
    IF x.armd_timer THEN set_enabled(x.ev, "timer", "Off") ELSE add_source(x.ev, "timer")

is_refused(x, usec, luck) == luck = "timer" /\ usec # "inf" /\ ~timer_off(x).timerfd

refuse_timer(x, usec) ==
    [x EXCEPT !.usec = usec, !.ev = timer_off(x), !.armd_timer = TRUE, !.refused = TRUE, !.fails = @ + 1]

\* For the callers that go on without the timer.
try_timer(x, usec, luck) ==
    IF is_refused(x, usec, luck) THEN refuse_timer(x, usec) ELSE enable_timer(x, usec)

delete_timer_kept(x) == x

delete_timer(x) ==
    IF x.armd_timer
    THEN with_ev(x, del_source(set_enabled(x.ev, "timer", "Off"), "timer"))
    ELSE x

watchdog_on(x) == IF x.override = "none" THEN x.conf.watchdog ELSE x.override = "on"

stop_watchdog(x) ==
    IF x.armd_watchdog THEN with_ev(x, del_source(x.ev, "watchdog")) ELSE x

restart_watchdog(x) ==
    IF watchdog_on(x)
    THEN [stop_watchdog(x) EXCEPT !.ev = arm(add_source(@, "watchdog"), "watchdog"),
                                  !.armd_watchdog = TRUE]
    ELSE stop_watchdog(x)

-----------------------------------------------------------------------------
(* Calls and commands *)

Call(to, st, res) == [to |-> to, st |-> st, res |-> res]
enter(to) == Call(to, "", "Success")
enter_res(to, res) == Call(to, "", res)
signal(st, res) == Call("signal", st, res)

call(x, c) == check([x EXCEPT !.calls = <<c>> \o @], c.to # "unreachable", "unreachable")
calls_empty(x) == x.calls = <<>>

\* A command that is not configured leaves the queue as it is.
control_command_fill(x, c) ==
    IF x.conf.cmds[c] = 0 THEN x
    ELSE [x EXCEPT !.control_command = [c |-> c, n |-> x.conf.cmds[c]], !.cmd_type = c]

control_command_pop(x) == [x EXCEPT !.control_command.n = @ - 1]
control_command_clear(x) == [x EXCEPT !.control_command = [c |-> "none", n |-> 0]]
has_control_command(x) == x.control_command.n > 0

\* ServiceSpawn::start_service fails before it sets the timer, there, or after.
start_service(x, usec, luck) ==
    CASE is_refused(x, usec, luck) -> [refuse_timer(x, usec) EXCEPT !.pid = 0]
      [] luck = "ok" ->
            [enable_timer(x, usec) EXCEPT
               !.pid = lowest(free_pids(x)), !.exec_params = TRUE,
               !.proc[lowest(free_pids(x))] = "run", !.parent[lowest(free_pids(x))] = 0,
               !.watch = @ \cup {lowest(free_pids(x))}]
      [] luck \in {"late", "timer"} /\ ~is_refused(x, usec, luck) -> [enable_timer(x, usec) EXCEPT !.pid = 0, !.fails = @ + 1]
      [] luck = "early" -> [x EXCEPT !.pid = 0, !.fails = @ + 1]

set_result(x, res) == [x EXCEPT !.result = IF @ = "Success" THEN res ELSE @]

set_state(x, st) ==
    LET y == IF st \in {"Dead", "Failed", "Exited"} THEN delete_timer(x) ELSE x
        z == IF st \in {"Start", "StartPost", "Running", "Reload"} \cup StoppingState THEN y
             ELSE [unwatch_main(y) EXCEPT !.main_command = 0]
        w == IF st \in StartingState \cup StoppingState \cup {"Reload"} THEN z
             ELSE [control_command_clear(unwatch_control(z)) EXCEPT !.cmd_type = "none"]
        flags == {f \in {"will_auto_restart", "reload_failure"} :
                    IF f = "will_auto_restart" THEN x.will_auto_restart
                    ELSE x.reload_result # "Success"}
    IN  [w EXCEPT !.state = st, !.said = Append(@, Note(to_unit_active_state(st), flags))]

\* Run the next control command and be in st, or else call c.
run_control(x, usec, luck, st, c) ==
    LET y == start_service(control_command_pop(x), usec, luck)
    IN  IF y.pid # 0 THEN set_state(set_control(y, y.pid), st) ELSE call(y, c)

-----------------------------------------------------------------------------
(* The functions of ServiceMng *)

enter_contion(x, luck) ==
    LET y == control_command_fill(x, "Condition")
    IN  IF has_control_command(y)
        THEN run_control(y, x.conf.start_sec, luck, "Condition", enter_res("dead", "FailureResources"))
        ELSE call(y, enter("prestart"))

enter_prestart(x, luck) ==
    LET y == control_command_fill(unwatch_control(x), "StartPre")
    IN  IF has_control_command(y)
        THEN run_control(y, x.conf.start_sec, luck, "StartPre", enter_res("dead", "FailureResources"))
        ELSE call(y, enter("start"))

\* A service that is not a oneshot has its one command.
start_main(x, luck) ==
    LET y == start_service([x EXCEPT !.main_command = @ - 1],
                           IF x.conf.type = "Simple" THEN "inf" ELSE x.conf.start_sec, luck)
    IN  CASE y.pid = 0 -> call(y, signal("StopSigterm", "FailureResources"))
          [] y.pid # 0 /\ x.conf.type = "Simple" -> call(set_main(y, y.pid), enter("start_post"))
          [] OTHER -> set_state(set_main(y, y.pid), "Start")

enter_start(x, luck) ==
    LET y == [unwatch_main(unwatch_control(control_command_clear(x))) EXCEPT
                !.main_command = x.conf.cmds["Start"]]
    IN  CASE x.conf.type = "Forking" ->
                run_control(control_command_fill(y, "Start"), x.conf.start_sec, luck, "Start",
                            signal("StopSigterm", "FailureResources"))
          [] x.conf.type # "Forking" /\ y.main_command = 0 ->
                call(set_state(y, "Start"), enter("start_post"))
          [] OTHER -> start_main(y, luck)

enter_start_post(x, luck) ==
    LET y == control_command_fill(restart_watchdog(unwatch_control(x)), "StartPost")
    IN  IF has_control_command(y)
        THEN run_control(y, x.conf.start_sec, luck, "StartPost", enter("nothing"))
        ELSE call(y, enter("running"))

enter_running(x, res, luck) ==
    LET y == set_result(unwatch_control(x), res)
    IN  CASE y.result # "Success" -> call(y, signal("StopSigterm", res))
          [] y.result = "Success" /\ service_alive(y) /\ y.notify_state = "Stopping" ->
                set_state(try_timer(y, y.conf.stop_sec, luck), "StopSigterm")
          [] y.result = "Success" /\ service_alive(y) /\ y.notify_state # "Stopping" ->
                enable_timer(set_state(y, "Running"), "inf")
          [] OTHER -> IF y.conf.remain THEN set_state(y, "Exited") ELSE call(y, enter_res("stop", res))

enter_stop(x, res, luck) ==
    LET y == control_command_fill(set_result(x, res), "Stop")
    IN  IF has_control_command(y)
        THEN run_control(y, "0", luck, "Stop", signal("StopSigterm", "FailureResources"))
        ELSE call(y, signal("StopSigterm", "Success"))

enter_stop_post(x, res, luck) ==
    LET y == control_command_fill(set_result(x, res), "StopPost")
    IN  IF has_control_command(y)
        THEN run_control(y, "0", luck, "StopPost", signal("FinalSigterm", "FailureResources"))
        ELSE call(y, signal("FinalSigterm", "Success"))

\* to_kill_operation: only these two states kill for good.
kill_operation(st) == IF st \in {"StopSigkill", "FinalSigkill"} THEN "KillKill" ELSE "KillTerminate"

enter_signal(x, st, res, luck) ==
    LET y == set_result([x EXCEPT !.watch = @ \cup cgroup_pids(x)], res)
        z == kill_context(y, kill_operation(st))
        refused == is_refused(z, z.conf.stop_sec, luck)
    IN  CASE is_wait_exit(y) /\ ~refused -> set_state(enable_timer(z, z.conf.stop_sec), st)
          [] is_wait_exit(y) /\ refused ->
                call(refuse_timer(z, z.conf.stop_sec),
                     enter_res(IF st \in {"StopWatchdog", "StopSigterm", "StopSigkill"} THEN "stop_post" ELSE "dead",
                               "FailureResources"))
          [] ~is_wait_exit(y) /\ st \in {"StopWatchdog", "StopSigterm", "StopSigkill"} ->
                call(z, enter("stop_post"))
          [] ~is_wait_exit(y) /\ st \in {"FinalWatchdog", "FinalSigterm"} ->
                call(z, signal("FinalSigkill", "Success"))
          [] OTHER -> call(z, enter("dead"))

is_restart_forbidden_prevented(x) == x.prevented
is_restart_forbidden(x) == x.forbid_restart \/ x.prevented

shall_restart(x) ==
    /\ ~is_restart_forbidden(x)
    /\ CASE x.conf.restart = "no" -> FALSE
         [] x.conf.restart = "on-success" -> x.result = "Success"
         [] x.conf.restart = "on-failure" -> x.result # "Success"
         [] x.conf.restart = "on-watchdog" -> x.result = "FailureWatchdog"
         [] x.conf.restart = "on-abnormal" -> x.result \notin {"Success", "FailureExitCode"}
         [] x.conf.restart = "on-abort" -> x.result = "FailureSignal"
         [] x.conf.restart = "always" -> TRUE

\* get_runtime_directory unwraps the parameters of the last spawn.
dead_end(x) ==
    LET keep == CASE x.conf.preserve = "yes" -> TRUE
                  [] x.conf.preserve = "no" -> FALSE
                  [] OTHER -> x.state = "AutoRestart" \/ x.queued = "Start"
    IN  [check(x, keep \/ x.exec_params, "exec_params") EXCEPT
           !.forbid_restart = FALSE, !.file = IF x.conf.pid_file THEN 0 ELSE @]

\* has_stop_job looks for a Stop that waits.  Without its timer there is no restart.
enter_dead(x, res, force_restart, luck) ==
    LET y == set_result(x, res)
        again == force_restart /\ x.queued # "Stop" /\ shall_restart(y)
        z == set_state([y EXCEPT !.will_auto_restart = again],
                       IF y.result = "Success" THEN "Dead" ELSE "Failed")
        off == [z EXCEPT !.will_auto_restart = FALSE]
    IN  CASE ~again -> dead_end(z)
          [] again /\ ~is_refused(off, "restart_sec", luck) ->
                dead_end(set_state(enable_timer(off, "restart_sec"), "AutoRestart"))
          [] OTHER -> call(refuse_timer(off, "restart_sec"), enter_res("dead_for_good", "FailureResources"))

enter_reload(x, luck) ==
    LET y == [control_command_fill(unwatch_control(control_command_clear(x)), "Reload") EXCEPT
                !.reload_result = "Success"]
    IN  run_control(y, x.conf.start_sec, luck, "Reload", enter_res("reload_failed", "FailureResources"))

reload_failed(x, res) == call([x EXCEPT !.reload_result = res], enter("running"))

\* The restart is a job; restart_unit may refuse it.
enter_restart(x, luck) ==
    CASE x.queued = "Stop" -> x
      [] x.queued # "Stop" /\ luck = "ok" -> [x EXCEPT !.queued = "Restart"]
      [] OTHER -> call([x EXCEPT !.fails = @ + 1], enter_res("dead_for_good", "FailureResources"))

run_next_control(x, luck) ==
    LET y == start_service(control_command_pop(x),
                           IF x.state \in StartingState \cup {"Running", "Reload"}
                           THEN x.conf.start_sec ELSE x.conf.stop_sec, luck)
    IN  CASE y.pid # 0 -> set_control(y, y.pid)
          [] y.pid = 0 /\ x.state \in {"Condition", "StartPre", "StartPost", "Stop"} ->
                call(y, signal("StopSigterm", "FailureResources"))
          [] y.pid = 0 /\ x.state = "StopPost" -> call(y, enter_res("dead", "FailureResources"))
          [] y.pid = 0 /\ x.state = "Reload" -> call(y, enter_res("reload_failed", "FailureResources"))
          [] OTHER -> call(y, enter_res("stop", "FailureResources"))

run_next_main(x, luck) ==
    LET y == start_service([x EXCEPT !.main_command = @ - 1], x.conf.start_sec, luck)
    IN  IF y.pid # 0 THEN set_main(y, y.pid) ELSE y

-----------------------------------------------------------------------------
(* The pid file *)

unwatch_pid_file(x) == with_ev(x, del_source(x.ev, "pid_file"))

\* retry_pid_file, or else c.
retry_pid_file(x, c) ==
    IF pid_file_says(x) = "Err" THEN call(x, c)
    ELSE call(unwatch_pid_file(load_pid_file(x)), enter("running"))

\* add_watch_path closes the descriptor of the last watch and fails when it gets no other,
\* or can watch no directory on the way.  A watch that was on is then unregistered with a
\* descriptor that is not registered, which is unwrapped.  Or else c is called.
watch_pid_file(x, luck, c) ==
    IF luck = "ok"
    THEN retry_pid_file(with_ev(x, set_enabled(add_source(x.ev, "pid_file"), "pid_file", "On")),
                        enter("nothing"))
    ELSE call(check([unwatch_pid_file(x) EXCEPT !.fails = @ + 1],
                    x.ev.state["pid_file"] = "None", "inotify"), c)

\* A new watch takes the place of the old one, which stays in the event loop.
renew_pid_file(x) ==
    IF x.ev.state["pid_file"] = "None" THEN x
    ELSE [x EXCEPT !.ev.state["old_pid_file"] = "On", !.ev.state["pid_file"] = "None",
                   !.ev.pending["old_pid_file"] = @ + x.ev.pending["pid_file"],
                   !.ev.pending["pid_file"] = 0]

\* Without a watch, whether anyone is left to write the file is not asked.
demand_pid_file(x, luck) ==
    LET y == renew_pid_file(x)
    IN  watch_pid_file(IF luck = "ok" THEN y ELSE [y EXCEPT !.calls = Tail(@)], luck,
                       signal("StopSigterm", "FailureProtocol"))

\* Is anyone left to write the file?
demand_in(x, c) ==
    call(call(x, IF c = "signal" THEN enter("cgroup_or_signal") ELSE enter("cgroup_or_stop")),
         enter("demand_pid_file"))

-----------------------------------------------------------------------------
(* What an exit means: do_sigchld_event *)

main_exit_call(x, res) ==
    CASE x.state = "Start" /\ x.conf.type = "Oneshot" /\ res = "Success" -> enter("start_post")
      [] x.state = "Start" /\ x.conf.type = "Oneshot" /\ res # "Success" -> signal("StopSigterm", res)
      [] x.state = "Start" /\ x.conf.type = "Notify" ->
            signal("StopSigterm", IF res = "Success" THEN "FailureProtocol" ELSE res)
      [] x.state = "Start" /\ x.conf.type \in {"Simple", "Forking"} -> enter_res("running", res)
      [] x.state = "Running" -> enter_res("running", res)
      [] x.state \in {"StartPost", "Reload", "Stop"} ->
            IF x.control = 0 THEN enter_res("stop", res) ELSE enter("nothing")
      [] x.state \in {"StopWatchdog", "StopSigkill", "StopSigterm"} ->
            IF x.control = 0 THEN enter_res("stop_post", res) ELSE enter("nothing")
      [] x.state = "StopPost" ->
            IF x.control = 0 THEN signal("FinalSigterm", res) ELSE enter("nothing")
      [] x.state \in {"FinalSigterm", "FinalSigkill", "FinalWatchdog"} ->
            IF x.control = 0 THEN enter_res("dead", res) ELSE enter("nothing")
      [] OTHER -> enter("unreachable")

\* With the prefix "-" a failure counts as success, and wipes out an earlier one.
main_exit(x, how, res) ==
    LET ign == x.conf.ignore_failure
        r == IF ign THEN "Success" ELSE res
        y == set_result([x EXCEPT !.main = 0, !.prevented = how \in x.conf.prevent,
                                  !.result = IF ign THEN "Success" ELSE @], r)
    IN  CASE pid_file_says(x) = "new" -> load_pid_file(x)
          [] pid_file_says(x) # "new" /\ y.main_command > 0 /\ r = "Success" /\ y.conf.type = "Oneshot" ->
                call(y, enter("next_main"))
          [] OTHER -> call([y EXCEPT !.main_command = 0], main_exit_call(y, r))

\* The parent of a forking service has exited; with a PIDFile enter_start_post
\* is called twice.
forking_exit(x) ==
    CASE ~x.conf.pid_file -> call(guess_main_pid(x), enter("start_post"))
      [] x.conf.pid_file /\ pid_file_says(x) = "Err" /\ x.conf.cmds["StartPost"] = 0 ->
            demand_in(x, "signal")
      [] OTHER -> call(call(load_pid_file(x), enter("start_post")), enter("start_post"))

start_post_exit(x) ==
    CASE ~x.conf.pid_file -> call(guess_main_pid(x), enter("running"))
      [] x.conf.pid_file /\ pid_file_says(x) = "Err" -> demand_in(x, "stop")
      [] OTHER -> call(load_pid_file(x), enter("running"))

control_exit_call(x, res) ==
    CASE x.state \in {"Condition", "StartPre", "Start", "StartPost", "Stop"} /\ res # "Success" ->
            IF x.state = "Start" /\ x.conf.type # "Forking" THEN enter("nothing")
            ELSE signal("StopSigterm", res)
      [] x.state = "Condition" /\ res = "Success" -> enter("prestart")
      [] x.state = "StartPre" /\ res = "Success" -> enter("start")
      [] x.state = "Start" /\ res = "Success" ->
            IF x.conf.type = "Forking" THEN enter("forking_exit") ELSE enter("nothing")
      [] x.state = "Stop" /\ res = "Success" -> signal("StopSigterm", "Success")
      [] x.state = "Reload" -> enter_res("running", res)
      [] x.state \in {"StopSigterm", "StopSigkill", "StopWatchdog"} ->
            IF x.main = 0 THEN enter_res("stop_post", res) ELSE enter("nothing")
      [] x.state = "StopPost" ->
            IF x.main = 0 THEN signal("FinalSigterm", res) ELSE enter("nothing")
      [] x.state \in {"FinalSigterm", "FinalSigkill", "FinalWatchdog"} ->
            IF x.main = 0 THEN enter_res("dead", res) ELSE enter("nothing")
      [] x.state = "StartPost" /\ res = "Success" -> enter("nothing")
      [] OTHER -> enter("unreachable")

\* After a StartPost command that failed, what follows a success is done as well.
control_exit(x, res) ==
    LET y == [x EXCEPT !.control = 0]
        z == [control_command_clear(y) EXCEPT
                !.cmd_type = "none", !.reload_result = IF x.state = "Reload" THEN res ELSE @,
                !.calls = (IF x.state = "StartPost" THEN <<enter("start_post_exit")>> ELSE <<>>) \o @]
    IN  IF has_control_command(y) /\ res = "Success" THEN call(y, enter("next_control"))
        ELSE call(z, control_exit_call(y, res))

sigchld_result(x, p, how) ==
    CASE how = "exit" -> "Success"
      [] how = "code" -> "FailureExitCode"
      [] how = "term" -> IF x.conf.type # "Oneshot" \/ x.control # p \/ x.cmd_type = "Start"
                         THEN "Success" ELSE "FailureSignal"
      [] how = "kill" -> "FailureSignal"

do_sigchld_event(x, p, how) ==
    CASE x.main = p -> main_exit(x, how, sigchld_result(x, p, how))
      [] x.main # p /\ x.control = p -> control_exit(x, sigchld_result(x, p, how))
      [] OTHER -> x

-----------------------------------------------------------------------------
(* The other callbacks *)

timer_dispatch(x) ==
    CASE x.state \in StartingState \cup {"Stop"} -> call(x, signal("StopSigterm", "FailureTimeout"))
      [] x.state = "Running" -> call(x, enter_res("stop", "FailureTimeout"))
      [] x.state = "Reload" ->
            call(IF x.control = 0 \/ ~runs(x, x.control) THEN x
                 ELSE [x EXCEPT !.proc[x.control] = "killed"],
                 enter_res("reload_failed", "FailureTimeout"))
      [] x.state \in {"StopWatchdog", "StopSigterm", "StopSigkill"} ->
            call(x, enter_res("stop_post", "FailureTimeout"))
      [] x.state = "StopPost" -> call(x, signal("FinalSigterm", "FailureTimeout"))
      [] x.state \in {"FinalWatchdog", "FinalSigterm"} ->
            call(x, enter_res("dead_for_good", "FailureTimeout"))
      [] x.state = "FinalSigkill" -> call(x, enter_res("dead", "FailureTimeout"))
      [] x.state = "AutoRestart" -> call(x, enter("restart"))
      [] OTHER -> call(x, enter("unreachable"))

source_dispatch(x, s) ==
    CASE s = "timer" -> timer_dispatch(x)
      [] s = "watchdog" -> call(x, signal("StopWatchdog", "FailureWatchdog"))
      [] OTHER -> retry_pid_file(x, enter("watch_pid_file"))

enter_stop_by_notify(x, luck) == set_state(try_timer(x, x.conf.stop_sec, luck), "StopSigterm")

new_main(x, p) ==
    IF x.state \in {"Start", "StartPost", "Running"} /\ p # x.main /\ p # x.control /\ alive(x, p)
    THEN child_watch_pid(set_main(x, p), p)
    ELSE x

\* do_notify_message for a message of one line; p is the pid in MAINPID.
do_notify_message(x, msg, p, luck) ==
    CASE msg = "MAINPID" -> new_main(x, p)
      [] msg = "READY" ->
            LET y == [x EXCEPT !.notify_state = "Ready"]
            IN  IF x.conf.type = "Notify" /\ x.state = "Start" THEN call(y, enter("start_post")) ELSE y
      [] msg = "STOPPING" ->
            LET y == [x EXCEPT !.notify_state = "Stopping"]
            IN  IF x.state = "Running" THEN enter_stop_by_notify(y, luck) ELSE y
      [] msg = "WATCHDOG=1" -> restart_watchdog(x)
      [] msg = "WATCHDOG=trigger" -> call(x, signal("StopWatchdog", "FailureWatchdog"))
      [] msg = "WATCHDOG_USEC=0" -> restart_watchdog([x EXCEPT !.override = "off"])
      [] msg = "WATCHDOG_USEC" -> restart_watchdog([x EXCEPT !.override = "on"])

start_check_anytime(x) == IF x.state \in StartingState THEN "started" ELSE "Ok"

start_check(x) ==
    CASE x.state \in StoppingState -> "EAgain"
      [] x.state \in StartingState -> "started"
      [] OTHER -> "Ok"

start_action(x) == call([x EXCEPT !.result = "Success", !.forbid_restart = FALSE], enter("contion"))

\* Unit::start and ServiceUnit::start; hit says that the start limit is hit.
service_start(x, hit) ==
    CASE is_active_or_reloading(x.from) -> [x EXCEPT !.ret = "EAlready"]
      [] ~is_active_or_reloading(x.from) /\ start_check(x) = "EAgain" ->
            [x EXCEPT !.ret = "EAgain", !.queued = "Start"]
      [] ~is_active_or_reloading(x.from) /\ start_check(x) = "Ok" ->
            IF hit
            THEN call([x EXCEPT !.ret = "EFailed", !.fails = @ + 1],
                      enter_res("dead_for_good", "FailureStartLimitHit"))
            ELSE start_action(x)
      [] OTHER -> x

stop_action(x) ==
    LET y == [x EXCEPT !.forbid_restart = TRUE]
    IN  CASE x.state \in StoppingState \ {"StopWatchdog", "FinalSigkill"} -> y
          [] x.state = "AutoRestart" -> set_state(y, "Dead")
          [] x.state \in StartingState \cup {"Reload", "StopWatchdog"} ->
                call(y, signal("StopSigterm", "Success"))
          [] OTHER -> call(y, enter("stop"))

service_stop(x) ==
    IF x.from \in {"InActive", "Failed"} THEN [x EXCEPT !.ret = "EAlready"] ELSE stop_action(x)

service_reload(x) ==
    CASE x.conf.cmds["Reload"] = 0 -> [x EXCEPT !.ret = "EBadR"]
      [] x.conf.cmds["Reload"] # 0 /\ x.from = "Reloading" -> [x EXCEPT !.ret = "EAgain", !.queued = "Reload"]
      [] x.conf.cmds["Reload"] # 0 /\ x.from \notin {"Active", "Reloading"} -> [x EXCEPT !.ret = "ENoExec"]
      [] OTHER -> call(x, enter("reload"))

-----------------------------------------------------------------------------
(* The steps *)

NewService(conf) ==
    [conf |-> conf, state |-> "Dead", result |-> "Success", reload_result |-> "Success",
     main |-> 0, main_pid_alien |-> FALSE, known |-> FALSE, control |-> 0,
     main_command |-> 0, control_command |-> [c |-> "none", n |-> 0], cmd_type |-> "none",
     notify_state |-> "Unknown", forbid_restart |-> FALSE, will_auto_restart |-> FALSE,
     prevented |-> FALSE, armd_timer |-> FALSE, armd_watchdog |-> FALSE, usec |-> "inf",
     override |-> "none", exec_params |-> FALSE, ev |-> NewEvents,
     proc |-> [p \in Pid |-> "none"], parent |-> [p \in Pid |-> 0], watch |-> {}, file |-> 0,
     queued |-> "none", calls |-> <<>>, op |-> "none", from |-> "InActive", ret |-> "Ok",
     said |-> <<>>, asked |-> "none", pid |-> 0, dead |-> 0, fails |-> 0, refused |-> FALSE,
     panic |-> ""]

Init == svc \in {NewService(conf) : conf \in Conf}

lucks(x) == (IF free_pids(x) # {} THEN {"ok"} ELSE {})
                \cup (IF x.fails < x.conf.fails THEN {"early", "timer", "late"} ELSE {})

\* Of a function that spawns nothing.
timer_lucks(x) == {"ok"} \cup (IF x.fails < x.conf.fails THEN {"timer"} ELSE {})

\* A callback begins, and ends when every function it called has returned.
is_idle(x) == calls_empty(x) /\ x.panic = ""
begin(x, op) ==
    [x EXCEPT !.calls = <<enter("end")>>, !.op = op, !.from = to_unit_active_state(x.state)]

Called(to) == svc.panic = "" /\ ~calls_empty(svc) /\ Head(svc.calls).to = to
returned == [svc EXCEPT !.calls = Tail(@)]
given == Head(svc.calls).res

Plain(to, F(_)) == Called(to) /\ svc' = F(returned)
Timing(to, F(_, _)) == Called(to) /\ \E luck \in timer_lucks(svc) : svc' = F(returned, luck)
Spawning(to, F(_, _)) ==
    Called(to) /\ \E luck \in lucks(svc) : svc' = [F(returned, luck) EXCEPT !.pid = 0]

EnterContion == Spawning("contion", enter_contion)
EnterPrestart == Spawning("prestart", enter_prestart)
EnterStart == Spawning("start", enter_start)
EnterStartPost == Spawning("start_post", enter_start_post)
EnterRunning == Timing("running", LAMBDA x, luck : enter_running(x, given, luck))
EnterStop == Spawning("stop", LAMBDA x, luck : enter_stop(x, given, luck))
EnterStopPost == Spawning("stop_post", LAMBDA x, luck : enter_stop_post(x, given, luck))
EnterSignal == Timing("signal", LAMBDA x, luck : enter_signal(x, Head(svc.calls).st, given, luck))
EnterDead == Timing("dead", LAMBDA x, luck : enter_dead(x, given, TRUE, luck))
EnterDeadForGood == Plain("dead_for_good", LAMBDA x : enter_dead(x, given, FALSE, "ok"))
EnterReload == Spawning("reload", enter_reload)
ReloadFailed == Plain("reload_failed", LAMBDA x : reload_failed(x, given))
EnterRestart == Spawning("restart", enter_restart)
RunNextControl == Spawning("next_control", run_next_control)
RunNextMain == Spawning("next_main", run_next_main)
DemandPidFile == Timing("demand_pid_file", demand_pid_file)
WatchPidFile ==
    Timing("watch_pid_file",
           LAMBDA x, luck : watch_pid_file(x, luck, signal("StopSigterm", "FailureResources")))
ForkingExit == Plain("forking_exit", forking_exit)
StartPostExit == Plain("start_post_exit", start_post_exit)
CgroupOrSignal ==
    Plain("cgroup_or_signal",
          LAMBDA x : IF cgroup_good(x) THEN x ELSE call(x, signal("StopSigterm", "FailureProtocol")))
CgroupOrStop ==
    Plain("cgroup_or_stop",
          LAMBDA x : IF cgroup_good(x) THEN x ELSE call(x, enter_res("stop", "FailureProtocol")))
Nothing == Plain("nothing", LAMBDA x : x)

\* The end of a callback; that of an exit reaps the process.
End ==
    /\ Called("end")
    /\ svc' = [returned EXCEPT !.op = "none", !.from = "InActive", !.ret = "Ok", !.said = <<>>,
                               !.dead = 0, !.watch = @ \ {svc.dead},
                               !.proc = [p \in Pid |-> IF p = svc.dead THEN "none" ELSE @[p]]]

\* The job manager runs the job that waits, when nothing else is pending.
RunJob ==
    /\ is_idle(svc) /\ svc.queued # "none"
    /\ \A s \in Source : svc.ev.pending[s] = 0
    /\ LET x == [begin(svc, svc.queued) EXCEPT
                   !.asked = IF svc.queued \in {"Start", "Stop"} THEN svc.queued ELSE @,
                   !.queued = IF svc.queued = "Restart" THEN "Start" ELSE "none"]
       IN  \/ svc.queued = "Start" /\ Cardinality(free_pids(svc)) > svc.conf.spare
               /\ \E hit \in IF svc.exec_params /\ svc.fails < svc.conf.fails THEN BOOLEAN ELSE {FALSE} :
                    svc' = service_start(x, hit)
           \/ svc.queued \in {"Stop", "Restart"} /\ svc' = service_stop(x)
           \/ svc.queued = "Reload" /\ svc' = service_reload(x)

\* A job from outside; a Stop takes the place of what waits.
Request(kind) ==
    /\ is_idle(svc)
    /\ svc.queued = "none" \/ kind = "Stop"
    /\ svc' = [svc EXCEPT !.queued = kind]

Sigchld(p, how) ==
    /\ is_idle(svc)
    /\ svc.proc[p] \in {"zombie", "slain"} /\ svc.parent[p] = 0
    /\ svc.proc[p] = "slain" => how = "kill"
    /\ LET x == [begin(svc, "self") EXCEPT !.dead = p]
       IN  svc' = IF p \in svc.watch THEN do_sigchld_event(x, p, how) ELSE x

Collect(due, ready) ==
    /\ is_idle(svc)
    /\ due \cup ready # {}
    /\ \A s \in due \cup ready : svc.ev.pending[s] < MaxPending
    /\ svc' = check(with_ev(svc, collect(svc.ev, due, ready)), is_collect_ok(svc.ev, due), "timerfd")

Dispatch(s) ==
    /\ is_idle(svc)
    /\ is_top(svc.ev, s)
    /\ CASE ~is_pop_ok(svc.ev, s) -> svc' = check(svc, FALSE, "state")
         [] is_pop_ok(svc.ev, s) /\ svc.ev.state[s] = "Off" ->
                svc' = with_ev(svc, pending_pop(svc.ev, s))
         [] OTHER -> svc' = source_dispatch(with_ev(begin(svc, "self"), dispatch_begin(svc.ev, s)), s)

Notify(p, msg, q) ==
    /\ is_idle(svc)
    /\ p \in svc.watch /\ svc.proc[p] # "none"
    /\ msg \in svc.conf.notify /\ (msg # "MAINPID" => q = p)
    /\ \E luck \in timer_lucks(svc) : svc' = do_notify_message(begin(svc, "self"), msg, q, luck)

\* What processes do.  Within a callback it makes a difference only before a
\* function that looks at the processes or at the pid file.
is_seen ==
    ~calls_empty(svc) => Head(svc.calls).to \in
        {"running", "forking_exit", "start_post_exit", "demand_pid_file", "watch_pid_file",
         "cgroup_or_signal", "cgroup_or_stop"}

Exit(p) ==
    /\ svc.panic = "" /\ runs(svc, p) /\ is_seen
    /\ \E left \in {IF svc.proc[p] = "run" THEN "zombie" ELSE "slain"}
                     \cup (IF svc.parent[p] = 0 THEN {} ELSE {"none"}) :
         svc' = [svc EXCEPT !.proc[p] = left,
                            !.parent = [q \in Pid |-> IF @[q] = p THEN 0 ELSE @[q]]]

Fork(p) ==
    /\ is_idle(svc) /\ svc.proc[p] = "run"
    /\ svc.conf.forks /\ Cardinality(free_pids(svc)) > svc.conf.spare
    /\ svc' = [svc EXCEPT !.proc[lowest(free_pids(svc))] = "run",
                          !.parent[lowest(free_pids(svc))] = p]

WritePidFile(p) ==
    /\ svc.panic = "" /\ svc.conf.pid_file /\ svc.proc[p] = "run" /\ svc.file # p /\ is_seen
    /\ svc' = [svc EXCEPT !.file = p]

Internal == \/ EnterContion \/ EnterPrestart \/ EnterStart \/ EnterStartPost \/ EnterRunning
            \/ EnterStop \/ EnterStopPost \/ EnterSignal \/ EnterDead \/ EnterDeadForGood
            \/ EnterReload \/ ReloadFailed \/ EnterRestart \/ RunNextControl \/ RunNextMain
            \/ DemandPidFile \/ WatchPidFile \/ ForkingExit \/ StartPostExit
            \/ CgroupOrSignal \/ CgroupOrStop \/ Nothing \/ End

Next ==
    \/ Internal \/ RunJob
    \/ \E kind \in {"Start", "Stop", "Reload"} : Request(kind)
    \/ \E p \in Pid, how \in {"exit", "code", "term", "kill"} : Sigchld(p, how)
    \/ \E due \in SUBSET svc.ev.timer, ready \in SUBSET {s \in Source : is_ready(svc.ev, s)} :
         Collect(due, ready)
    \/ \E s \in Source : Dispatch(s)
    \/ \E p, q \in Pid, msg \in svc.conf.notify : Notify(p, msg, q)
    \/ \E p \in Pid : Exit(p) \/ Fork(p) \/ WritePidFile(p)

Spec == Init /\ [][Next]_svc

\* What the program and the kernel see to, with ENABLED spelled out: a callback
\* ends, an exit is reported and a killed process exits, a timer comes due and
\* is dispatched, and a Stop is run.
Progress ==
    /\ []<>(svc.panic # "" \/ calls_empty(svc))
    /\ \A p \in Pid : []<>(svc.panic # "" \/ svc.proc[p] \in {"none", "run"} \/ svc.parent[p] # 0)
    /\ []<>(svc.panic # "" \/ "timer" \notin svc.ev.timer)
    /\ []<>(svc.panic # "" \/ svc.ev.pending["timer"] = 0)
    /\ []<>(svc.panic # "" \/ svc.queued # "Stop")

FairSpec == Spec /\ Progress

-----------------------------------------------------------------------------
(* Properties *)

\* The main process, unless it is the child of another one, and the control
\* process are watched, however they became known: spawned, guessed, from the
\* PIDFile or from MAINPID (set_main, guess_main_pid, load_pid_file): an exit
\* that is not watched is lost, and the service waits for it for ever.  A PIDFile
\* may name a process that is dead already, which valid_main_pid does not refuse.
Tracked ==
    is_idle(svc) =>
        /\ (/\ svc.main # 0 /\ ~svc.main_pid_alien
            /\ svc.conf.pid_file => svc.proc[svc.main] # "none") => svc.main \in svc.watch
        /\ svc.control # 0 => svc.control \in svc.watch

\* The timer will be dispatched.
is_timer_set ==
    \/ "timer" \in svc.ev.timer
    \/ svc.ev.pending["timer"] > 0 /\ svc.ev.state["timer"] = "OneShot"

\* A service on its way up or down is waiting for something that will come: the
\* exit of a process it watches, its timer, or its PIDFile (the enter_
\* functions, do_sigchld_event).  A timer that could not be set is missed where the
\* error is only logged (run_next_main, enter_start_post, enter_stop_by_notify).
NotStuck ==
    is_idle(svc) /\ svc.state \in StartingState \cup StoppingState \cup {"Reload"} =>
        \/ \E p \in {svc.main, svc.control} \ {0} : p \in svc.watch /\ svc.proc[p] # "none"
        \/ is_timer_set
        \/ svc.ev.state["pid_file"] = "On"
        \/ svc.refused

\* A service that is to be restarted will be: its timer runs, or the job is
\* queued (enter_dead, enter_restart; without a watchdog, whose timer takes the
\* other one with it when it is removed).
RestartIsDue ==
    is_idle(svc) /\ svc.state = "AutoRestart" /\ ~svc.conf.watchdog =>
        is_timer_set \/ svc.queued # "none"

\* A service that is dead has no process it answers for, on every path to
\* enter_dead (set_state).
DeadIsEmpty ==
    is_idle(svc) /\ svc.state \in {"Dead", "Failed", "AutoRestart"} => svc.main = 0 /\ svc.control = 0

\* Beside a running service no control command is at work: the one before it
\* has exited or is no longer followed (enter_running).
RunningIsAlone == is_idle(svc) /\ svc.state = "Running" => svc.control = 0

\* The processes are those the state answers for, and their exits are heard.
ProcessesMatch == Tracked /\ DeadIsEmpty /\ RunningIsAlone

\* No service waits for what does not come, on its way or to be restarted.
GetsThere == NotStuck /\ RestartIsDue

\* Once it was stopped, a service is not restarted until it is started again,
\* whatever its Restart= is and however its processes end (stop_action,
\* shall_restart; without a watchdog, whose stale event restarts it).
StaysDown == svc.panic = "" /\ svc.asked = "Stop" /\ ~svc.conf.watchdog => svc.state # "AutoRestart"

\* What the job manager hears: reload_failure is read only of a change to
\* Active that ends a reload (job_process_unit_reload).
heard ==
    [i \in DOMAIN svc.said |->
       IF svc.said[i].ns = "Active" /\ svc.from \in {"Active", "Reloading"} THEN svc.said[i]
       ELSE Note(svc.said[i].ns, svc.said[i].flags \ {"reload_failure"})]

\* The changes are one of allowed, or one of allowed and what may follow it.
follows(allowed, notes) ==
    \/ notes \in allowed \cup {<<>>}
    \/ \E k \in 1 .. Len(notes) - 1 :
          /\ SubSeq(notes, 1, k) \in allowed
          /\ SubSeq(notes, k + 1, Len(notes)) \in unit_changes(notes[k].ns)

is_answer(answers) ==
    /\ svc.ret \in {a.ret : a \in answers}
    /\ follows({a.notes : a \in {b \in answers : b.ret = svc.ret}}, heard)

\* A service is a unit the job manager can work with: what it answers and what
\* it reports in one callback is in the contract of UnitContract, against
\* which the job manager is checked (without a PIDFile, whose stale watch
\* makes a stopping service active again, and unless a timer could not be set: when it
\* is that of the restart, the failure is reported twice, and OnFailure= is not served).
KeepsContract ==
    Called("end") /\ ~svc.conf.pid_file /\ ~svc.refused =>
        CASE svc.op = "Start" -> is_answer(unit_start(svc.from))
          [] svc.op \in {"Stop", "Restart"} -> is_answer(unit_stop(svc.from, FALSE))
          [] svc.op = "Reload" -> is_answer(unit_reload(svc.from))
          [] OTHER -> follows(unit_changes(svc.from), heard)

is_deleted_next == \E s \in Source : svc.ev.state[s] = "None" /\ is_top(svc.ev, s)

\* A source that was deleted is not dispatched (Events::del_source).
DeletedIsGone == ~is_deleted_next

\* No unreachable!() of the timer or of an exit is reached, and the timer descriptor is
\* there when it is asked for (do_dispatch, do_sigchld_event, prepare).  What does end
\* sysmaster is known: a source that was deleted and is dispatched; a service that is dead
\* before any command of it was spawned, when its runtime directory is not preserved, as it
\* is not by default (get_runtime_directory unwraps the parameters of the last spawn); and
\* the watch of a PIDFile that cannot be renewed (unwatch_pid_file).
OnlyKnownPanics ==
    CASE svc.panic = "" -> TRUE
      [] svc.panic = "state" -> is_deleted_next
      [] svc.panic = "exec_params" -> svc.conf.preserve # "yes" /\ svc.fails > 0 /\ svc.watch = {}
      [] svc.panic = "inotify" -> svc.conf.pid_file /\ svc.fails > 0
      [] OTHER -> FALSE

\* A service with a TimeoutStopSec that is stopped comes to rest, even if its
\* processes ignore the signal (enter_signal, do_dispatch of the timer; without
\* WATCHDOG=trigger, which starts the stop again, without a PIDFile, and unless the
\* timer could not be set).
StopEnds ==
    [](svc.asked = "Stop" /\ svc.conf.stop_sec # "inf" /\ ~svc.conf.watchdog /\ ~svc.conf.pid_file
       => <>(svc.panic # "" \/ svc.refused \/ svc.asked # "Stop" \/ svc.state \in {"Dead", "Failed"}))
=============================================================================
