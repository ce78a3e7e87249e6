-------------------------------- MODULE Init --------------------------------
(***************************************************************************)
(* init and the process it supervises (exts/init; main.rs, keep_alive and  *)
(* alive_timer of core/bin).  The record it holds                          *)
(*                                                                         *)
(*   state     Reexec, Run, Unrecover, of RunTime                          *)
(*   need_reexec, switching, pid   need_reexec, switching, sysmaster_pid   *)
(*   cnt       current_cnt of the timer                                    *)
(*   online    which descriptor is in the epoll set, "listen" or "connect" *)
(*   conn      the accepted connection, or NoConn                          *)
(*   backlog   the connections that are not accepted yet                   *)
(*   chld      the process of the pending SIGCHLD, "" if there is none:    *)
(*             another one that dies meanwhile is not told                 *)
(*   sigs      the other signals that are pending                          *)
(*   due       the timer has expired and init has not seen it              *)
(*   sent      a heart-beat was sent since init handled the timer last     *)
(*   proc      the phase of every process                                  *)
(*   switch    whether sysmaster installs its handler for crashes          *)
(*   faults    how many faults and signals may still come                  *)
(*                                                                         *)
(* A sysmaster is at first in "exec", with no handler installed, then in   *)
(* "boot", until it connects, then "up".  It may get stuck ("stuck" before *)
(* it connects, "hung" later), leave for switch-root ("leaving"), and end  *)
(* as a "zombie" until it is reaped.                                       *)
(***************************************************************************)
EXTENDS Integers, Sequences

CONSTANTS
    Sysmasters, Orphans,    \* pids of sysmaster, and of other children of init
    TimeCnt,                \* time_cnt
    MaxFaults, MaxBacklog

VARIABLE it

ProcessSet == Sysmasters \cup Orphans
Signals == {"restart", "unrecover", "switch_root"}

NoConn == [pid |-> "", open |-> FALSE, msg |-> FALSE]

-----------------------------------------------------------------------------
\* Processes

\* The kernel closes the connections of a process that ends or executes anew.
hang_up(m, p) ==
    LET shut(c) == IF c.pid = p THEN [c EXCEPT !.open = FALSE] ELSE c
    IN  [m EXCEPT !.conn = shut(@), !.backlog = [i \in DOMAIN @ |-> shut(@[i])]]

is_living(phase) == phase \notin {"none", "zombie"}

end(m, p) ==
    IF ~is_living(m.proc[p]) THEN m
    ELSE [hang_up(m, p) EXCEPT !.proc[p] = "zombie", !.chld = IF @ = "" THEN p ELSE @]

do_reexecute(m, p) == [hang_up(m, p) EXCEPT !.proc[p] = "exec"]

\* SIGRTMIN+7.  Before it has a handler it ends the process, and once the switch has
\* been found off the handler does nothing.
crash_reexec(m, p) ==
    IF m.proc[p] = "exec" THEN end(m, p)
    ELSE IF m.proc[p] \in {"up", "hung"} /\ ~m.switch THEN m
    ELSE IF is_living(m.proc[p]) THEN do_reexecute(m, p)
    ELSE m

\* SIGRTMIN+10
switch_root(m, p) ==
    IF m.proc[p] = "exec" THEN end(m, p)
    ELSE IF is_living(m.proc[p]) THEN [m EXCEPT !.proc[p] = "leaving"]
    ELSE m

reap(m, pids) == [m EXCEPT !.proc = [p \in ProcessSet |-> IF p \in pids /\ @[p] = "zombie" THEN "none" ELSE @[p]]]

-----------------------------------------------------------------------------
\* Comm (comm.rs, timer.rs)

do_listen_set(m) == [m EXCEPT !.conn = NoConn, !.online = "listen"]

do_connect_set(m) == [m EXCEPT !.online = "connect"]

set_online_fd(m, fd) ==
    IF m.online = fd THEN m
    ELSE IF fd = "listen" THEN do_listen_set(m) ELSE do_connect_set(m)

finish(m) == set_online_fd(m, "listen")

reset(m) == [m EXCEPT !.cnt = 0]

connect(m) ==
    set_online_fd([m EXCEPT !.conn = Head(m.backlog), !.backlog = Tail(@)], "connect")

listen_proc(m) == [m |-> reset(connect(m)), type |-> "PipON"]

\* A hang-up is seen before what was sent ahead of it.
connect_proc(m) ==
    IF ~m.conn.open THEN [m |-> set_online_fd(m, "listen"), type |-> "PipOFF"]
    ELSE [m |-> reset([m EXCEPT !.conn.msg = FALSE]), type |-> "Succeed"]

is_time_out(m) ==
    LET flushed == [m EXCEPT !.due = FALSE, !.sent = FALSE, !.cnt = @ + 1]
    IN  IF TimeCnt <= flushed.cnt THEN [m |-> reset(flushed), type |-> "PipTMOUT"]
        ELSE [m |-> flushed, type |-> "Succeed"]

is_ready(m, fd) ==
    CASE fd = "timer" -> m.due
      [] fd = "listen" -> m.online = "listen" /\ m.backlog # <<>>
      [] fd = "connect" -> m.online = "connect" /\ (m.conn.msg \/ ~m.conn.open)

proc_comm(m, fd) ==
    CASE fd = "timer" -> is_time_out(m)
      [] fd = "listen" -> listen_proc(m)
      [] fd = "connect" -> connect_proc(m)

-----------------------------------------------------------------------------
\* RunTime (runtime/mod.rs)

\* A fork gives a pid that is free.
create_sysmaster(m) ==
    LET free == {p \in Sysmasters : m.proc[p] = "none"}
    IN  IF free = {} THEN {}
        ELSE LET p == CHOOSE q \in free : TRUE IN {[m EXCEPT !.pid = p, !.proc[p] = "exec"]}

reexec_manager(m) == crash_reexec(finish([m EXCEPT !.need_reexec = FALSE]), m.pid)

\* A mistake: a sysmaster that does not connect is not signalled again.
reexec_comm_dispatch_patient(c) == IF c.type = "PipON" THEN [c.m EXCEPT !.state = "Run"] ELSE c.m

reexec_comm_dispatch(c) ==
    CASE c.type = "PipON" -> [c.m EXCEPT !.state = "Run"]
      [] c.type = "PipTMOUT" -> [c.m EXCEPT !.need_reexec = TRUE]
      [] OTHER -> c.m

run_comm_dispatch(c) ==
    CASE c.type = "PipOFF" -> [c.m EXCEPT !.state = "Reexec"]
      [] c.type = "PipTMOUT" -> [c.m EXCEPT !.state = "Reexec", !.need_reexec = TRUE]
      [] OTHER -> c.m

unrecover_comm_dispatch(c) == c.m

is_sysmaster(m, p) == m.pid = p

do_recycle(m, p) == IF is_sysmaster(m, p) THEN m ELSE reap(m, {p})

do_reexec(m) == [m EXCEPT !.need_reexec = TRUE, !.state = "Reexec"]

change_to_unrecover(m) == reap([m EXCEPT !.state = "Unrecover"], ProcessSet)

send_switch_root_signal(m) ==
    [switch_root(m, m.pid) EXCEPT !.state = "Unrecover", !.switching = TRUE]

\* Whether or not another process can be made, the last one is killed.
do_recreate(m) ==
    LET killed == end(finish(m), m.pid)
        created == create_sysmaster(killed)
    IN  IF created = {} THEN {killed} ELSE created

\* A new program in the same process: what it knows begins anew, its children stay.
RunTime_new(m) ==
    create_sysmaster([m EXCEPT !.state = "Reexec", !.need_reexec = FALSE, !.switching = FALSE, !.cnt = 0,
                               !.online = "listen", !.conn = NoConn, !.backlog = <<>>,
                               !.due = FALSE])

reexec_self(m) == RunTime_new(m)

reexec_signal_dispatch(m, sig) ==
    CASE sig = "restart" -> {do_reexec(m)}
      [] sig = "unrecover" -> {change_to_unrecover(m)}
      [] sig = "switch_root" -> {m}
      [] OTHER -> {do_recycle(m, sig)}

run_signal_dispatch(m, sig) ==
    CASE sig = "restart" -> {do_reexec(m)}
      [] sig = "unrecover" -> {m}
      [] sig = "switch_root" -> {send_switch_root_signal(m)}
      [] OTHER -> {do_recycle(m, sig)}

unrecover_signal_dispatch(m, sig) ==
    CASE sig = "restart" -> do_recreate(m)
      [] sig \in {"unrecover", "switch_root"} -> {m}
      [] OTHER -> IF is_sysmaster(m, sig) /\ m.switching THEN reexec_self(m) ELSE {reap(m, ProcessSet)}

comm_dispatch(m, fd) ==
    LET c == proc_comm(m, fd)
    IN  CASE m.state = "Reexec" -> reexec_comm_dispatch(c)
          [] m.state = "Run" -> run_comm_dispatch(c)
          [] m.state = "Unrecover" -> unrecover_comm_dispatch(c)

signal_dispatch(m, sig) ==
    LET read == IF sig \in Signals THEN [m EXCEPT !.sigs = @ \ {sig}] ELSE [m EXCEPT !.chld = ""]
    IN  CASE m.state = "Reexec" -> reexec_signal_dispatch(read, sig)
          [] m.state = "Run" -> run_signal_dispatch(read, sig)
          [] m.state = "Unrecover" -> unrecover_signal_dispatch(read, sig)

-----------------------------------------------------------------------------
InitStates ==
    UNION {RunTime_new([state |-> "Reexec", need_reexec |-> FALSE, switching |-> FALSE, pid |-> "", cnt |-> 0,
                        online |-> "listen", conn |-> NoConn, backlog |-> <<>>, chld |-> "", sigs |-> {},
                        due |-> FALSE, sent |-> FALSE, proc |-> [p \in ProcessSet |-> "none"],
                        switch |-> s, faults |-> MaxFaults]) : s \in BOOLEAN}

InitInit == it \in InitStates

\* reexec() begins with the signal to sysmaster; only then it waits.
must_reexec == it.state = "Reexec" /\ it.need_reexec

ReexecManager == must_reexec /\ it' = reexec_manager(it)

CommEvent(fd) == ~must_reexec /\ is_ready(it, fd) /\ it' = comm_dispatch(it, fd)

SignalEvent(sig) ==
    /\ ~must_reexec
    /\ sig \in it.sigs \/ (sig \in ProcessSet /\ sig = it.chld)
    /\ it' \in signal_dispatch(it, sig)

\* sysmaster: it registers its handlers, connects, and sends its heart-beat.
Register(p) == it.proc[p] = "exec" /\ it' = [it EXCEPT !.proc[p] = "boot"]

KeepAlive(p) ==
    /\ it.proc[p] = "boot" /\ Len(it.backlog) < MaxBacklog
    /\ it' = [it EXCEPT !.proc[p] = "up", !.sent = TRUE,
                        !.backlog = Append(@, [pid |-> p, open |-> TRUE, msg |-> FALSE])]

keep_alive(p) ==
    LET told(c) == IF c.pid = p /\ c.open THEN [c EXCEPT !.msg = TRUE] ELSE c
    IN  /\ it.proc[p] = "up"
        /\ it' = [it EXCEPT !.sent = TRUE, !.conn = told(@), !.backlog = [i \in DOMAIN @ |-> told(@[i])]]

Leave(p) == it.proc[p] = "leaving" /\ it' = end(it, p)

\* What goes wrong
fault == it.faults > 0

Hang(p) ==
    /\ fault /\ it.proc[p] \in {"boot", "up"}
    /\ it' = [it EXCEPT !.proc[p] = IF @ = "boot" THEN "stuck" ELSE "hung", !.faults = @ - 1]

\* The handler is installed some time after the connection is made.
crash(p) ==
    /\ fault /\ it.proc[p] \in {"boot", "up"}
    /\ \/ it' = [end(it, p) EXCEPT !.faults = @ - 1]
       \/ it.proc[p] = "up" /\ it.switch /\ it' = [do_reexecute(it, p) EXCEPT !.faults = @ - 1]

Signal(sig) == fault /\ it' = [it EXCEPT !.sigs = @ \cup {sig}, !.faults = @ - 1]

Adopt(o) == fault /\ it.proc[o] = "none" /\ it' = [it EXCEPT !.proc[o] = "up", !.faults = @ - 1]

OrphanEnds(o) == it.proc[o] = "up" /\ it' = end(it, o)

\* The timer expires every 10 s.  By then init has handled what came before, a
\* sysmaster that starts has connected, and one that is well has sent its heart-beat.
Tick ==
    /\ ~it.due /\ ~must_reexec /\ it.chld = "" /\ it.sigs = {}
    /\ \A fd \in {"listen", "connect"} : ~is_ready(it, fd)
    /\ it.proc[it.pid] \notin {"exec", "boot"}
    /\ it.proc[it.pid] = "up" => it.sent
    /\ it' = [it EXCEPT !.due = TRUE]

InitNext ==
    \/ ReexecManager
    \/ \E fd \in {"timer", "listen", "connect"} : CommEvent(fd)
    \/ \E sig \in Signals \cup ProcessSet : SignalEvent(sig)
    \/ \E p \in Sysmasters : Register(p) \/ KeepAlive(p) \/ keep_alive(p) \/ Leave(p) \/ Hang(p) \/ crash(p)
    \/ \E sig \in Signals : Signal(sig)
    \/ \E o \in Orphans : Adopt(o) \/ OrphanEnds(o)
    \/ Tick

\* init handles what is ready, a process that is not stuck goes on, and the timer
\* expires again and again until init gives up.
InitFair ==
    /\ WF_it(ReexecManager)
    /\ \A fd \in {"timer", "listen", "connect"} : WF_it(CommEvent(fd))
    /\ \A sig \in Signals \cup ProcessSet : WF_it(SignalEvent(sig))
    /\ \A p \in Sysmasters :
          WF_it(Register(p)) /\ WF_it(KeepAlive(p)) /\ WF_it(keep_alive(p)) /\ WF_it(Leave(p))
    /\ []<>(it.due \/ it.state = "Unrecover")

InitSpec == InitInit /\ [][InitNext]_it /\ InitFair

-----------------------------------------------------------------------------
\* Properties

\* init waits on the descriptor through which sysmaster can be heard: on the connection
\* while it runs, and otherwise, the signal to re-execute being sent, on the socket that
\* a new sysmaster connects to (set_online_fd, along all dispatchers).
Listens ==
    /\ it.state = "Run" => it.online = "connect"
    /\ it.state = "Reexec" /\ ~it.need_reexec => it.online = "listen"
    /\ it.online = "connect" <=> it.conn # NoConn

\* There are never two sysmasters at work (do_recreate, reexec_self).
OneSysmaster == \A p \in Sysmasters : is_living(it.proc[p]) => p = it.pid

is_heard == it.state = "Run" /\ it.conn.open /\ it.conn.pid = it.pid /\ it.proc[it.pid] = "up"

\* Once faults and signals cease, a sysmaster that lives is up and its heart-beat is
\* heard, however it was stuck, unless its handler is off or init has been told to
\* give up (reexec_manager, reexec_comm_dispatch, run_comm_dispatch).  One that has
\* ended is not started again, which is RestartedWhenItExits.
Supervised ==
    <>[](is_heard \/ it.state = "Unrecover" \/ ~is_living(it.proc[it.pid]) \/ ~it.switch)

\* The promise of exts/init/src/main.rs:13, "Daemon sysmaster or Systemd, restart the
\* process when it exits": in the end there is a sysmaster that is up and heard, unless
\* init has been told to give up (do_recycle, reexec_manager).
RestartedWhenItExits == <>[](is_heard \/ it.state = "Unrecover" \/ ~it.switch)
=============================================================================
