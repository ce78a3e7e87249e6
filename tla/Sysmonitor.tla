---------------------------- MODULE Sysmonitor -----------------------------
(***************************************************************************)
(* sysmonitor (exts/sysmonitor): main takes its monitors in turn, and the  *)
(* last one, ProcessMonitor, never returns.  It runs a command to see      *)
(* whether a process exists, and commands for the alarm and the recovery   *)
(* when it does not.  Every command is a child that may end by itself, be  *)
(* late, or ignore SIGTERM.                                                *)
(*                                                                         *)
(*   conf       timeout (whether one is set) and stop (a stop command)     *)
(*   at         the monitor or the command that is on, sleep, or exited    *)
(*   step       where command_wait is                                      *)
(*   child      the pid of the command's process, or NoPid                 *)
(*   pid        what holds each pid: free, child, zombie (of a child),     *)
(*              other (a process that is not sysmonitor's)                 *)
(*   left       the commands and pids that command_wait left behind        *)
(***************************************************************************)
EXTENDS Naturals, FiniteSets

CONSTANTS ChildPids, MaxSleeps

VARIABLE mon

NoPid == "none"

\* The monitors of main before ProcessMonitor; their check_status runs once and
\* changes nothing of sysmonitor's.
FirstMonitors == <<"pscnt", "zombie", "process_fd">>

Checks == {"check", "check again"}

\* alarm commands are given no stop command, and the check always has a time-out
\* (get_process_check_timeout).
stop_command(s) == s.conf.stop /\ s.at \in Checks \cup {"recover"}
has_timeout(s) == s.at \in Checks \/ s.conf.timeout

-----------------------------------------------------------------------------
(* The order of the commands *)

\* check_service_exist: two checks, an error counts as absent.
after_check(s, r) ==
  CASE r = "true" -> "alarm recover"
    [] r = "false" /\ s.at = "check" -> "check again"
    [] OTHER -> "alarm"

after(s, r) ==
  CASE s.at \in Checks -> after_check(s, r)
    [] s.at = "alarm" -> "recover"
    [] OTHER -> "sleep"

\* command_wait returns r (true, false or error); a child that was not waited for
\* stays behind.
return_with(s, r) ==
  [s EXCEPT !.at = after(s, r), !.step = "spawn", !.child = NoPid,
            !.left = @ \cup {<<s.at, p>> : p \in {q \in {s.child} \ {NoPid} : ~s.reaped}},
            !.reaped = FALSE]

-----------------------------------------------------------------------------
(* The steps of command_wait *)

MonitorFirst ==
  /\ \E i \in DOMAIN FirstMonitors :
       /\ mon.at = FirstMonitors[i]
       /\ mon' \in {[mon EXCEPT !.at = IF i < 3 THEN FirstMonitors[i + 1] ELSE "check"],
                    [mon EXCEPT !.at = "exited"]}

Spawn ==
  /\ mon.step = "spawn" /\ mon.at \notin {"sleep", "exited", "pscnt", "zombie", "process_fd"}
  /\ mon' \in
       {return_with(mon, "error")} \cup
       {[mon EXCEPT !.child = p, !.pid[p] = "child", !.step = "wait"] :
          p \in {q \in ChildPids : mon.pid[q] = "free"}}

\* try_wait finds that the child has ended.
reap(s) == [s EXCEPT !.pid[s.child] = "free", !.reaped = TRUE]

is_zombie(s) == ~s.reaped /\ s.pid[s.child] = "zombie"

\* wait_child with the time-out, then the stop command; or wait without one.
Waited ==
  /\ mon.step = "wait"
  /\ LET t == IF is_zombie(mon) THEN reap(mon) ELSE mon
     IN IF has_timeout(mon)
        THEN mon' = IF stop_command(mon) THEN [t EXCEPT !.step = "stop"]
                    ELSE return_with(t, "false")
        ELSE /\ is_zombie(mon)
             /\ mon' \in {return_with(t, "true"), return_with(t, "false")}

\* SIGTERM to the number the child had; with nobody there it fails.
process_exit ==
  /\ mon.step = "stop"
  /\ mon' = IF mon.pid[mon.child] = "free" THEN return_with(mon, "error")
            ELSE [mon EXCEPT !.step = "term"]

\* A mistake: who does not end on SIGTERM is left alone.
kill_child_not(s) == return_with(IF is_zombie(s) THEN reap(s) ELSE s, "false")

\* wait_child for ten seconds, then kill, which fails when the child was reaped,
\* and wait.
kill_child(s) ==
  IF s.reaped THEN return_with(s, "error")
  ELSE IF is_zombie(s) THEN return_with(reap(s), "error")
  ELSE return_with(reap(s), "false")

KillChild == mon.step = "term" /\ mon' = kill_child(mon)

Slept ==
  /\ mon.at = "sleep" /\ mon.sleeps < MaxSleeps
  /\ mon' = [mon EXCEPT !.at = "check", !.sleeps = @ + 1]

-----------------------------------------------------------------------------
(* The processes *)

ChildEnds ==
  \E p \in ChildPids : mon.pid[p] = "child" /\ mon' = [mon EXCEPT !.pid[p] = "zombie"]

\* Somebody else's process takes and gives back a free pid.
OtherTakes ==
  \E p \in ChildPids : mon.pid[p] = "free" /\ mon' = [mon EXCEPT !.pid[p] = "other"]

OtherEnds ==
  \E p \in ChildPids : mon.pid[p] = "other" /\ mon' = [mon EXCEPT !.pid[p] = "free"]

SysmonitorInit ==
  \E t, s \in BOOLEAN :
    mon = [conf |-> [timeout |-> t, stop |-> s], at |-> "pscnt", step |-> "spawn",
           child |-> NoPid, reaped |-> FALSE, pid |-> [p \in ChildPids |-> "free"],
           left |-> {}, sleeps |-> 0]

SysmonitorNext ==
  \/ MonitorFirst \/ Spawn \/ Waited \/ process_exit \/ KillChild \/ Slept
  \/ ChildEnds \/ OtherTakes \/ OtherEnds

SysmonitorSpec == SysmonitorInit /\ [][SysmonitorNext]_mon

-----------------------------------------------------------------------------
(* What the monitor keeps *)

\* With a stop command the checks and the recovery leave no process behind, late
\* or deaf to SIGTERM though it may be, and without a TIMEOUT only a check can
\* (command_wait, process_exit).
NoneLeft ==
  \A l \in mon.left :
    /\ mon.conf.stop => l[1] \notin Checks \cup {"recover"}
    /\ ~mon.conf.timeout => l[1] \in Checks

=============================================================================
