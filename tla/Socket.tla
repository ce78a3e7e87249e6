------------------------------- MODULE Socket -------------------------------
(***************************************************************************)
(* A socket unit (coms/socket) with its ports, its commands and the        *)
(* service it activates.  The record sock holds                            *)
(*                                                                         *)
(*   conf      the unit file                                               *)
(*   state, result, control, commands   of SocketMng: the state, whether   *)
(*             all went well, the pid of the command at work, and how many *)
(*             commands are left in control_command                        *)
(*   fd        of every port: "closed" (-1), "open", or "stale", a number  *)
(*             whose descriptor is closed                                  *)
(*   ev, epoll the sources of the event loop and the ports epoll watches   *)
(*   proc, watch   the processes and those watched for their exit          *)
(*   path      the files made: of ports, and the symlink (0)               *)
(*   data      the ports with a connection or data                         *)
(*   service, stop_job   the service to activate; a stop job is queued     *)
(*   db        what db_update has saved                                    *)
(*   call, ret, from, said   the last callback, its answer and reports     *)
(*   fails     what goes wrong during the callback                         *)
(*   full      no pid of the model was left for a command                  *)
(*   panic     why sysmaster has panicked, "" as long as it has not        *)
(*                                                                         *)
(* A callback of the event loop is one step: its calls of the kernel are   *)
(* seen by nobody else before the next.  Addresses are left out, and so is *)
(* the count of refused connections, which no path reaches.                *)
(***************************************************************************)
EXTENDS EventLoop, UnitContract, Sequences, SequencesExt

CONSTANTS SocketConf, SocketPid

VARIABLE sock

SocketState ==
    {"StateMax", "Dead", "StartPre", "StartChown", "StartPost", "Listening", "Running", "StopPre",
     "StopPreSigterm", "StopPreSigkill", "StopPost", "FinalSigterm", "FinalSigkill", "Failed"}

Starting == {"StartPre", "StartChown", "StartPost"}
Stopping == {"StopPre", "StopPreSigterm", "StopPreSigkill", "StopPost", "FinalSigterm", "FinalSigkill"}

\* StateMax, which a socket has until its first start or stop, is DeActivating.
to_unit_active_state(state) ==
    CASE state = "Dead" -> "InActive"
      [] state \in Starting -> "Activating"
      [] state \in {"Listening", "Running"} -> "Active"
      [] state = "Failed" -> "Failed"
      [] OTHER -> "DeActivating"

NoFails == [spawn |-> 0, open |-> {}, cloexec |-> {}, chown |-> FALSE, kill |-> FALSE, accept |-> FALSE,
            service |-> FALSE, noent |-> FALSE, limit |-> FALSE]

Saved(s) ==
    [state |-> s.state, result |-> s.result, control |-> s.control, commands |-> s.commands, fd |-> s.fd]

db_update(s) == [s EXCEPT !.db = Saved(s)]

\* A socket unit that is loaded and has its ports.
NewSocket(conf) ==
    db_update(
      [conf |-> conf, state |-> "StateMax", result |-> "Success", control |-> 0, commands |-> 0,
       fd |-> [p \in Source |-> "closed"], ev |-> NewEvents, epoll |-> {},
       proc |-> [q \in SocketPid |-> "none"], watch |-> {}, path |-> {}, data |-> {},
       service |-> "InActive", stop_job |-> FALSE, restarts |-> 0, db |-> <<>>,
       call |-> "none", ret |-> "Ok", from |-> "StateMax", said |-> <<>>, fails |-> NoFails,
       err |-> FALSE, full |-> FALSE, panic |-> ""])

assert(s, holds, why) == IF s.panic = "" /\ ~holds THEN [s EXCEPT !.panic = why] ELSE s

ports(s) == DOMAIN s.conf.kind

-----------------------------------------------------------------------------
\* The ports (port.rs, config.rs)

can_accept(s, p) == s.conf.kind[p] \in {"stream", "inet"}

\* Ports with a file of their own that may have a symlink, and that are unlinked.
can_be_symlinked(s, p) == s.conf.kind[p] \in {"stream", "dgram", "fifo"}

find_symlink_target(s) == {p \in ports(s) : can_be_symlinked(s, p)}

\* verify: symlinks for more than one target are dropped.
has_symlinks(s) == s.conf.symlinks /\ \E p \in ports(s) : find_symlink_target(s) = {p}

apply_symlink(s, p) ==
    IF can_be_symlinked(s, p) /\ has_symlinks(s) THEN [s EXCEPT !.path = @ \cup {0}] ELSE s

\* A socket that is in use is unlinked and bound again, a FIFO that exists is an
\* error; a special file is there already.
socket_listen(s, p) ==
    IF can_be_symlinked(s, p) THEN [s EXCEPT !.path = @ \cup {p}] ELSE s

open_fifo(s, p) ==
    IF p \in s.path THEN [s EXCEPT !.err = TRUE] ELSE [s EXCEPT !.path = @ \cup {p}]

\* A descriptor that fd_cloexec fails for is in no port yet: it is not closed, and its
\* number is lost.
open_port(s, p) ==
    LET made == IF s.conf.kind[p] = "fifo" THEN open_fifo(s, p) ELSE socket_listen(s, p)
    IN  IF s.fd[p] # "closed" THEN s
        ELSE IF p \in s.fails.open \/ made.err THEN [s EXCEPT !.err = TRUE]
        ELSE IF p \in s.fails.cloexec THEN [apply_symlink(made, p) EXCEPT !.err = TRUE]
        ELSE [apply_symlink(made, p) EXCEPT !.fd[p] = "open"]

close(s, p) == [s EXCEPT !.fd[p] = "closed", !.epoll = @ \ {p}, !.data = @ \ {p}]

unlink(s, p) == IF can_be_symlinked(s, p) THEN [s EXCEPT !.path = @ \ {p}] ELSE s

\* Of a connection that waits, it is not the accepted descriptor that is closed
\* but the listening one.
flush_accept(s, p) ==
    IF can_accept(s, p) /\ s.fd[p] = "open" /\ p \in s.data
    THEN [s EXCEPT !.fd[p] = "stale", !.epoll = @ \ {p}, !.data = @ \ {p}]
    ELSE s

flush_fd(s, p) == IF s.fd[p] = "open" THEN [s EXCEPT !.data = @ \ {p}] ELSE s

InOrder(s, Op(_, _)) == FoldLeftDomain(LAMBDA x, p : Op(x, p), s, s.conf.kind)

flush_ports(s) == InOrder(s, LAMBDA x, p : flush_fd(flush_accept(x, p), p))

\* A source that is on is taken out of epoll, which must know its descriptor.
\* The answer is unwrapped.
offline(s) ==
    LET on == {p \in ports(s) : s.ev.state[p] = "On"}
    IN  [assert(s, on \subseteq s.epoll, "unregister") EXCEPT !.epoll = @ \ on]

unwatch_fds(s) ==
    InOrder(offline(s), LAMBDA x, p : [x EXCEPT !.ev = set_enabled(@, p, "Off")])

watch_port(s, p) ==
    IF s.fd[p] = "closed" THEN s
    ELSE [assert(s, s.fd[p] = "open" /\ p \notin s.epoll, "register")
          EXCEPT !.epoll = @ \cup {p}, !.ev = set_enabled(add_source(@, p), p, "On")]

watch_fds(s) == InOrder(s, watch_port)

\* A mistake: what RemoveOnStop= asks for is forgotten.
close_fds_kept(s) ==
    InOrder(InOrder(offline(s), LAMBDA x, p : [x EXCEPT !.ev = del_source(@, p)]), close)

close_fds(s) ==
    LET shut == InOrder(InOrder(offline(s), LAMBDA x, p : [x EXCEPT !.ev = del_source(@, p)]), close)
    IN  IF ~s.conf.remove_on_stop THEN shut
        ELSE IF has_symlinks(s) THEN [InOrder(shut, unlink) EXCEPT !.path = @ \ {0}]
        ELSE InOrder(shut, unlink)

open_fds(s) ==
    LET opened == InOrder([s EXCEPT !.err = FALSE],
                          LAMBDA x, p : IF x.err THEN x ELSE open_port(x, p))
    IN  IF opened.err THEN close_fds(opened) ELSE opened

-----------------------------------------------------------------------------
\* Processes (pid.rs, spawn.rs)

unwatch_control(s) == [s EXCEPT !.watch = @ \ {s.control}, !.control = 0]

FreePid(s) == {q \in SocketPid : s.proc[q] = "none"}

start_socket(s) ==
    LET q == CHOOSE q \in FreePid(s) : TRUE
    IN  IF FreePid(s) = {} THEN [s EXCEPT !.full = TRUE]
        ELSE [s EXCEPT !.proc[q] = "run", !.watch = @ \cup {q}, !.control = q]

\* start_socket fails for the first commands of a callback, as many as fails says.
is_spawned(s) == s.fails.spawn = 0
not_spawned(s) == [s EXCEPT !.fails.spawn = @ - 1]

\* Without commands of its own a phase finds what the one before has left.
control_command_fill(s, type) ==
    IF s.conf.cmds[type] = 0 THEN s ELSE [s EXCEPT !.commands = s.conf.cmds[type]]

control_command_pop(s) == [s EXCEPT !.commands = @ - 1]

\* The command at work, then the group: an error there is only logged, and the answer of
\* Unit::kill_context is never an error.
kill_context(s) ==
    LET all == IF s.fails.kill THEN {s.control} ELSE SocketPid
    IN  [s EXCEPT !.proc = [q \in SocketPid |-> IF @[q] = "run" /\ q \in all THEN "killed" ELSE @[q]]]

-----------------------------------------------------------------------------
\* The states (mng.rs)

set_state(s, state) ==
    LET changed == [s EXCEPT !.state = state]
        pids == IF state \in Starting \cup Stopping THEN changed ELSE unwatch_control(changed)
        fds == IF state = "Listening" THEN pids ELSE unwatch_fds(pids)
        kept == {"StartChown", "StartPost", "Listening", "Running",
                 "StopPre", "StopPreSigterm", "StopPreSigkill"}
    IN  [IF state \in kept THEN fds ELSE close_fds(fds)
         EXCEPT !.said = Append(@, Note(to_unit_active_state(state), {}))]

\* The first failure is kept.
failed_with(s, res) == IF s.result = "Success" THEN [s EXCEPT !.result = res] ELSE s

enter_dead(s, res) ==
    LET r == failed_with(s, res)
    IN  set_state(r, IF r.result = "Success" THEN "Dead" ELSE "Failed")

\* enter_signal goes from FinalSigterm to FinalSigkill and on, and from
\* StopPreSigterm to StopPreSigkill and on, without a wait.
enter_signal_final(s, res) == enter_dead(kill_context(failed_with(s, res)), "Success")

\* A phase: its first command is started, or what follows is entered.
phase(s, type, state, None(_), Err(_)) ==
    LET filled == control_command_fill(s, type)
        popped == control_command_pop(filled)
    IN  IF filled.commands = 0 THEN None(filled)
        ELSE IF is_spawned(popped) THEN set_state(start_socket(popped), state)
        ELSE Err(not_spawned(popped))

enter_stop_post(s, res) ==
    phase(failed_with(s, res), "StopPost", "StopPost",
          LAMBDA x : enter_signal_final(x, "Success"), LAMBDA x : enter_signal_final(x, "Failure"))

enter_signal_stop(s, res) == enter_stop_post(kill_context(failed_with(s, res)), "Success")

enter_stop_pre(s, res) ==
    phase(unwatch_control(failed_with(s, res)), "StopPre", "StopPre",
          LAMBDA x : enter_stop_post(x, "Success"), LAMBDA x : enter_stop_post(x, "Failure"))

enter_listening(s) ==
    set_state(watch_fds(IF s.conf.accept THEN s ELSE flush_ports(s)), "Listening")

enter_start_post(s) ==
    phase(unwatch_control(s), "StartPost", "StartPost",
          enter_listening, LAMBDA x : enter_stop_pre(x, "Failure"))

\* open_fds has closed what it had opened when it fails.
enter_start_chown(s) ==
    LET opened == open_fds(s)
    IN  IF opened.err \/ (opened.fails.chown /\ s.conf.chown) THEN enter_stop_pre(opened, "Failure")
        ELSE enter_start_post(opened)

enter_start_pre(s) ==
    phase(unwatch_control(s), "StartPre", "StartPre",
          enter_start_chown, LAMBDA x : enter_dead(x, "Failure"))

\* A command that is not started is not waited for, nor is the state left.
run_next(s) ==
    LET popped == control_command_pop(s)
    IN  IF is_spawned(popped) THEN start_socket(popped) ELSE not_spawned(popped)

\* The descriptor of an accepted connection is not passed on (afd is -1).
enter_running(s) ==
    IF s.stop_job THEN flush_ports(s)
    ELSE IF s.service \in {"Active", "Activating"} THEN set_state(s, "Running")
    ELSE IF s.fails.service THEN enter_stop_pre(s, "Failure")
    ELSE set_state([s EXCEPT !.service = "Queued"], "Running")

sigchld_event(s, res) ==
    db_update(
      IF s.commands > 0 /\ res = "Success" THEN run_next(s)
      ELSE IF s.state = "StartPre"
      THEN IF res = "Success" THEN enter_start_chown(s) ELSE enter_signal_final(s, res)
      ELSE IF s.state = "StartPost"
      THEN IF res = "Success" THEN enter_listening(s) ELSE enter_stop_pre(s, res)
      ELSE IF s.state = "StopPre" THEN enter_stop_post(s, res)
      ELSE IF s.state = "StopPost" THEN enter_dead(s, res)
      ELSE assert(s, FALSE, "unreachable"))

\* A connection that cannot be accepted is left where it is.
dispatch_io(s, p) ==
    LET accepts == s.conf.accept /\ can_accept(s, p)
    IN  IF s.state # "Listening" \/ (accepts /\ s.fails.accept) THEN s
        ELSE db_update(enter_running(IF accepts THEN [s EXCEPT !.data = @ \ {p}] ELSE s))

-----------------------------------------------------------------------------
\* Jobs (Unit::start and stop, then start_check, start_action, ...)

answer(s, ret) == [s EXCEPT !.ret = ret]

start(s) ==
    IF s.state \in {"Listening", "Running"} THEN answer(s, "EAlready")
    ELSE IF s.state \in Stopping THEN answer(s, "EAgain")
    ELSE IF s.state \in Starting THEN answer(s, "Ok")
    ELSE IF s.fails.noent \/ s.service \in {"Active", "DeActivating"} THEN answer(s, "EFailed")
    ELSE IF s.fails.limit THEN answer(enter_dead(s, "Failure"), "EFailed")
    ELSE answer(db_update(enter_start_pre([s EXCEPT !.result = "Success"])), "Ok")

stop(s, force) ==
    IF ~force /\ s.state \in {"Dead", "Failed"} THEN answer(s, "EAlready")
    ELSE IF ~force /\ s.state \in Stopping THEN answer(s, "Ok")
    ELSE IF ~force /\ s.state \in Starting THEN answer(enter_signal_stop(s, "Success"), "EAgain")
    ELSE answer(db_update(enter_stop_pre(s, "Success")), "Ok")

-----------------------------------------------------------------------------
\* A new sysmaster takes over, or the units are loaded again

\* The type of the commands is never saved, so that none may be left.
control_command_update(s, len) == [assert(s, len = 0, "commands") EXCEPT !.commands = 0]

\* A port gets the number that was saved, if it is still open or not.
map_ports_fd(s) ==
    [s EXCEPT !.fd = [p \in Source |-> IF s.db.fd[p] = "closed" THEN "closed"
                                       ELSE IF @[p] = "open" THEN "open" ELSE "stale"]]

db_map(s) ==
    control_command_update(
      [map_ports_fd(s) EXCEPT !.state = s.db.state, !.result = s.db.result, !.control = s.db.control],
      s.db.commands)

entry_coldplug(s) == IF s.state # "Listening" THEN watch_fds(s) ELSE s

\* Descriptors survive an exec, sources do not.
reexec(s) == entry_coldplug(db_map([s EXCEPT !.ev = NewEvents, !.epoll = {}]))

entry_clear(s) == close_fds(s)

reload(s) == entry_coldplug(db_map(entry_clear(s)))

-----------------------------------------------------------------------------
SocketInit == sock \in {NewSocket(conf) : conf \in SocketConf}

\* The failures a callback may meet.
Fails(conf) ==
    IF conf.fails
    THEN {NoFails} \cup {[NoFails EXCEPT !.spawn = n] : n \in 1..3}
           \cup {[NoFails EXCEPT !.open = {p}] : p \in DOMAIN conf.kind}
           \cup {[NoFails EXCEPT !.cloexec = {p}] : p \in DOMAIN conf.kind}
           \cup {[NoFails EXCEPT ![f] = TRUE] : f \in {"chown", "kill", "accept", "service", "noent", "limit"}}
    ELSE {NoFails}

begin(s, call, fails) ==
    [s EXCEPT !.call = call, !.ret = "Ok", !.from = s.state, !.said = <<>>, !.fails = fails]

ended(s) == [s EXCEPT !.fails = NoFails, !.err = FALSE]

may_run == sock.panic = ""

\* There was a pid for every command that was started.
within_bound == ~sock'.full

\* Jobs and requests have a lower priority than the ports.
is_calm == \A p \in Source : sock.ev.pending[p] = 0

RunStart(fails) ==
    /\ may_run /\ is_calm
    /\ sock' = ended(start(begin(sock, "start", fails))) /\ within_bound

RunStop(fails, force) ==
    /\ may_run /\ is_calm /\ sock.stop_job
    /\ LET done == ended(stop(begin(sock, IF force THEN "kill" ELSE "stop", fails), force))
       IN  sock' = [done EXCEPT !.stop_job = done.ret = "EAgain"] /\ within_bound

QueueStop == may_run /\ sock.conf.stops /\ ~sock.stop_job /\ sock' = [sock EXCEPT !.stop_job = TRUE]

\* The exit of a process that is not watched is only reaped.
RunSigchld(q, fails) ==
    /\ may_run /\ sock.proc[q] \in {"exited", "failed", "killed"}
    /\ LET s == begin(sock, "self", fails)
           done == IF q \in s.watch
                   THEN ended(sigchld_event(s, IF s.proc[q] = "exited" THEN "Success" ELSE "Failure"))
                   ELSE s
       IN  sock' = [done EXCEPT !.watch = @ \ {q}, !.proc[q] = "none"] /\ within_bound

Collect(ready) ==
    /\ may_run /\ ready # {} /\ \A p \in ready : sock.ev.pending[p] = 0
    /\ sock' = [sock EXCEPT !.ev = collect(@, {}, ready)]

RunIo(p, fails) ==
    /\ may_run /\ is_top(sock.ev, p)
    /\ sock' = IF ~is_pop_ok(sock.ev, p) THEN assert(sock, FALSE, "deleted")
               ELSE ended(dispatch_io([begin(sock, "self", fails) EXCEPT !.ev = dispatch_begin(@, p)], p))
    /\ within_bound

TakeOver(op) ==
    /\ may_run /\ is_calm /\ sock.restarts < sock.conf.restarts
    /\ sock' = [IF op = "reload" THEN reload(sock) ELSE reexec(sock)
                EXCEPT !.restarts = @ + 1, !.said = <<>>, !.call = "none"]

Exit(q, how) == may_run /\ sock.proc[q] = "run" /\ sock' = [sock EXCEPT !.proc[q] = how]

Incoming(p) ==
    /\ may_run /\ sock.fd[p] = "open" /\ p \notin sock.data
    /\ sock' = [sock EXCEPT !.data = @ \cup {p}]

\* The service runs its start job, takes what is in the ports, and stops.
ServiceChanges(to) ==
    /\ may_run
    /\ \/ sock.service = "Queued" /\ to \in {"Active", "InActive"}
       \/ sock.service = "Active" /\ to = "InActive"
    /\ sock' = [sock EXCEPT !.service = to, !.data = IF to = "Active" THEN {} ELSE @]

SocketStep ==
    \/ \E fails \in Fails(sock.conf) :
         \/ RunStart(fails)
         \/ \E force \in BOOLEAN : RunStop(fails, force)
         \/ \E q \in SocketPid : RunSigchld(q, fails)
         \/ \E p \in ports(sock) : RunIo(p, fails)
    \/ QueueStop
    \/ \E ready \in SUBSET (sock.epoll \cap sock.data) : Collect(ready)
    \/ \E op \in {"reload", "reexec"} : TakeOver(op)
    \/ \E q \in SocketPid, how \in {"exited", "failed"} : Exit(q, how)
    \/ \E p \in ports(sock) : Incoming(p)
    \/ \E to \in {"Active", "InActive"} : ServiceChanges(to)

SocketSpec == SocketInit /\ [][SocketStep]_sock

\* What the program and the kernel see to, as long as sysmaster has not panicked: the
\* exit of a command is reported, data is noticed, what is pending is dispatched, and a
\* queued job is run.  Nothing makes a command exit: a socket has no timer.
SocketFair ==
    /\ \A q \in SocketPid : []<>(sock.proc[q] \in {"none", "run"} \/ sock.panic # "")
    /\ []<>((\A p \in sock.epoll \cap sock.data : sock.ev.pending[p] > 0) \/ sock.panic # "")
    /\ []<>((\A p \in Source : sock.ev.pending[p] = 0) \/ sock.panic # "")
    /\ []<>(~sock.stop_job \/ sock.panic # "")

-----------------------------------------------------------------------------
\* Properties

\* The state a socket reports, its descriptors and the event loop agree after every
\* callback: it listens on every port exactly when it says so, and once it is dead
\* nothing is open, watched or, with RemoveOnStop, left on disk (set_state, open_fds,
\* close_fds; as long as sysmaster has not been replaced, and no stream is flushed).
SocketCoherent ==
    sock.panic = "" /\ sock.restarts = 0 =>
        /\ sock.epoll = {p \in ports(sock) : sock.ev.state[p] = "On"}
        /\ sock.epoll = IF sock.state = "Listening" THEN ports(sock) ELSE {}
        /\ sock.state \in {"Listening", "Running", "StartPost"} =>
              \A p \in ports(sock) : sock.fd[p] = "open"
        /\ sock.state \in {"Dead", "Failed"} =>
              /\ \A p \in ports(sock) : sock.fd[p] = "closed"
              /\ sock.conf.remove_on_stop => sock.path = {}

\* The known ways to a panic: a port deleted while it is pending, when the service
\* cannot be started; the exit of a command that was replaced by one of the stop
\* without being unwatched, after the exit of that one; a stream that was flushed;
\* commands left when sysmaster is replaced.
OnlyKnownPanics ==
    /\ sock.panic = "deleted" => Len(sock.conf.kind) > 1 /\ sock.conf.fails
    /\ sock.panic = "unreachable" => sock.conf.stops /\ \E type \in DOMAIN sock.conf.cmds : sock.conf.cmds[type] > 0
    /\ sock.panic \in {"register", "unregister"} =>
          sock.restarts > 0 \/ \E p \in ports(sock) : can_accept(sock, p)
    /\ sock.panic = "commands" => sock.restarts > 0

\* A socket is a unit the job manager can work with: its answers and reports are in
\* the contract of UnitContract.  A socket that was never started takes its first start
\* like an inactive unit, although it says that it is DeActivating (StateMax).
SocketKeepsContract ==
    sock.panic = "" /\ sock.restarts = 0 =>
        LET notes == sock.said
            from == IF sock.from = "StateMax" /\ sock.call = "start" THEN "InActive"
                    ELSE to_unit_active_state(sock.from)
            of(answers) == \E a \in answers : a.ret = sock.ret /\ a.notes = notes
        IN  CASE sock.call = "start" -> of(unit_start(from))
              [] sock.call = "stop" -> of(unit_stop(from, FALSE))
              [] sock.call = "kill" -> of(unit_stop(from, TRUE))
              [] OTHER -> notes = <<>> \/ notes \in unit_changes(from)

\* A socket that is being started or stopped comes to rest, unless a command of it that
\* is waited for runs for ever; and what arrives at a listening socket activates the
\* service or ends the socket (sigchld_event, dispatch_io; as long as sysmaster is not
\* replaced and every command is spawned).
SocketGoesOn ==
    LET off == sock.panic # "" \/ sock.restarts > 0 \/ sock.conf.fails
        rest == sock.state \notin Starting \cup Stopping
        runs == \E q \in sock.watch : sock.proc[q] = "run"
    IN  /\ []<>(rest \/ runs \/ off)
        /\ []<>(sock.state # "Listening" \/ sock.data = {} \/ off)
=============================================================================
