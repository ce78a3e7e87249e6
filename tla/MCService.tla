----------------------------- MODULE MCService ------------------------------
(***************************************************************************)
(* Unit files for the service.  Every source has the default priority.     *)
(***************************************************************************)
EXTENDS Service

MCSource == {"timer", "watchdog", "pid_file", "old_pid_file"}
MCEventType == [s \in MCSource |-> IF s \in {"timer", "watchdog"} THEN "Timer" ELSE "Io"]
MCPriority == [s \in MCSource |-> 0]

Commands(c) == [k \in ServiceCommand |-> IF k \in DOMAIN c THEN c[k] ELSE 0]

\* Type=simple with one command; the other files say what is different.
Simple ==
    [type |-> "Simple", cmds |-> Commands([Start |-> 1]), restart |-> "always", remain |-> FALSE,
     pid_file |-> FALSE, watchdog |-> FALSE, start_sec |-> "start", stop_sec |-> "stop",
     preserve |-> "no", ignore_failure |-> FALSE, prevent |-> {}, notify |-> {},
     forks |-> FALSE, fails |-> 1, spare |-> 2]

Prepared ==
    [Simple EXCEPT !.cmds = Commands([Condition |-> 1, StartPre |-> 1, Start |-> 1]),
                   !.restart = "on-failure", !.prevent = {"code"}, !.preserve = "yes"]
Followed ==
    [Simple EXCEPT !.cmds = Commands([Start |-> 1, StartPost |-> 1]),
                   !.restart = "on-abort", !.fails = 0]
Stopped ==
    [Simple EXCEPT !.cmds = Commands([Start |-> 1, Stop |-> 1, StopPost |-> 1]),
                   !.restart = "on-success", !.preserve = "yes"]
Reloaded ==
    [Simple EXCEPT !.cmds = Commands([Start |-> 1, Reload |-> 1]), !.restart = "no"]
Oneshot ==
    [Simple EXCEPT !.type = "Oneshot", !.cmds = Commands([Start |-> 2]),
                   !.remain = TRUE, !.restart = "on-failure", !.preserve = "restart"]
Notified ==
    [Simple EXCEPT !.type = "Notify", !.notify = {"READY", "STOPPING", "MAINPID"},
                   !.restart = "on-abnormal", !.ignore_failure = TRUE]
Watched ==
    [Simple EXCEPT !.watchdog = TRUE, !.restart = "on-watchdog",
                   !.notify = {"WATCHDOG=1", "WATCHDOG=trigger", "WATCHDOG_USEC", "WATCHDOG_USEC=0"}]
Forking ==
    [Simple EXCEPT !.type = "Forking", !.forks = TRUE, !.restart = "no", !.spare = 1]
PidFiled == [Forking EXCEPT !.pid_file = TRUE, !.spare = 2]

Timed ==
    {Simple, Prepared, Followed, Stopped, Reloaded, Oneshot, Notified, Watched, Forking, PidFiled}

\* Without timeouts a oneshot whose next command is not spawned is stuck.
Untimed ==
    {[conf EXCEPT !.start_sec = "inf", !.stop_sec = "inf"] :
        conf \in (Timed \ {Oneshot}) \cup {[Oneshot EXCEPT !.fails = 0]}}

AllConf == Timed \cup Untimed
SimpleConf == {Simple}
=============================================================================
