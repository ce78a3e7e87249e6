------------------------------ MODULE Reentry ------------------------------
(***************************************************************************)
(* What reaches sysmaster from outside, and what a crash does to it: exits *)
(* of children, messages of services, the table of mounts, and open file   *)
(* descriptors (core/bin/unit: sigchld, notify, datastore/child;           *)
(* core/lib/rel: pending, station; core/bin/manager; coms/mount).          *)
(*                                                                         *)
(* A crash is an exec of the same process: children stay children, a       *)
(* descriptor stays open unless it is close-on-exec.  The record sys holds *)
(*                                                                         *)
(*   scene     what there is: pids (with their unit; the quiet ones send   *)
(*             no message), ports, mount points; how many mounts, crashes  *)
(*             and reloads there are                                       *)
(*   r, pend   what Reliability keeps, and its table of descriptors        *)
(*  of the kernel                                                          *)
(*   unborn, alive, zombies, sigchld   children, and the signal            *)
(*   fds       open descriptors, and whether they are close-on-exec        *)
(*   bound, queue   the descriptor messages arrive at, and those in it     *)
(*   mounted, ready   the table of mounts; whether it has changed          *)
(*  of the process                                                         *)
(*   fd        the descriptor of every owner: notify, and the ports        *)
(*   watch, log   units by pid; the inputs that units have acted upon      *)
(*   mount     the mount units, with their state                           *)
(*   sig_on, defer, registered   the event sources                         *)
(*   retrig    the units whose job was triggered again, and the frame that *)
(*             was to be made up for                                       *)
(*   todo      what is left of the event in work; a step ends where        *)
(*             something outside of memory is written                      *)
(*  for the properties                                                     *)
(*   sent, dropped   messages; those of processes that were not watched    *)
(*   twice     a unit has acted upon an input again                        *)
(*   touched   the mounts set by a job or the start limit since the table  *)
(*             was read                                                    *)
(*   early     a process ended before it had started for the first time    *)
(***************************************************************************)
EXTENDS Reliability, FiniteSets, FiniteSetsExt, SequencesExt

CONSTANT Scenes

VARIABLE sys

Owners(s) == s.scene.ports \cup {"notify"}
UnitOf(s, p) == s.scene.pids[p]

Op(op, x) == [op |-> op, x |-> x, fd |-> -1]
FdOp(op, o, fd) == [op |-> op, x |-> o, fd |-> fd]
Do(ops) == [i \in DOMAIN ops |-> Op(ops[i], "")]

then(s, ops) == [s EXCEPT !.todo = ops \o Tail(@)]

EndUnit == Do(<<"Commit", "ClearUnit">>)
EndFrame == Do(<<"Commit", "ClearFrame">>)

-----------------------------------------------------------------------------
\* Descriptors (pending.rs, notify.rs, port.rs)

put(f, k, v) == (k :> v) @@ f
without(f, k) == [j \in DOMAIN f \ {k} |-> f[j]]

fd_add(s, fd, state) == [s EXCEPT !.pend = put(@, fd, state)]
fd_del(s, fd) == [s EXCEPT !.pend = without(@, fd)]
fd_cloexec(s, fd, cloexec) == [s EXCEPT !.fds[fd] = cloexec]

\* A new descriptor has the lowest number; it is close-on-exec.
socket_fd(s) == Min((1..(Cardinality(DOMAIN s.fds) + 1)) \ DOMAIN s.fds)

close(s, fd) ==
    [s EXCEPT !.fds = without(@, fd), !.queue = IF s.bound = fd THEN <<>> ELSE @,
              !.bound = IF @ = fd THEN 0 ELSE @]

\* A mistake: the descriptor survives an exec before it is marked.
fd_retain_late(s, o, fd) ==
    <<FdOp("Survive", "", fd), FdOp("Retaining", "", fd), FdOp("Retained", "", fd), FdOp("Owned", o, fd)>>

\* The mark comes before the descriptor survives an exec, and goes when it no longer does.
\* A number that is marked already is refused (EBADR): its opener gives up, and nobody owns
\* the descriptor.  The fcntl itself, on a descriptor that is open, does not fail here.
fd_retain(s, o, fd) ==
    IF fd \in DOMAIN s.pend THEN <<>>
    ELSE <<FdOp("Retaining", "", fd), FdOp("Survive", "", fd), FdOp("Retained", "", fd), FdOp("Owned", o, fd)>>

fd_remove(s, fd) ==
    IF s.fds[fd] THEN <<FdOp("Unmark", "", fd)>>
    ELSE <<FdOp("Removing", "", fd), FdOp("Perish", "", fd), FdOp("Unmark", "", fd)>>

fd_take(s, o, fd) == [fd_del(s, fd) EXCEPT !.fd[o] = fd]

set_fd(s, o, fd) == [s EXCEPT !.fd[o] = fd, !.r = insert(@, <<"fd", o>>, fd)]

open_fd(s, o) ==
    LET fd == socket_fd(s)
        made == [s EXCEPT !.fds = put(@, fd, TRUE)]
        bound == IF o = "notify" THEN [made EXCEPT !.bound = fd, !.queue = <<>>] ELSE made
    IN  then(bound, fd_retain(bound, o, fd))

open_socket(s) == IF s.fd["notify"] > 0 THEN then(s, <<>>) ELSE open_fd(s, "notify")

close_port(s, o) ==
    LET fd == s.fd[o]
    IN  IF fd \notin DOMAIN s.fds THEN then(set_fd(s, o, -1), <<>>)
        ELSE then(s, fd_remove(s, fd) \o <<FdOp("Close", o, fd)>>)

\* What is still marked belongs to nobody.
pending_make_consistent(s) == FoldSet(LAMBDA fd, x : close(x, fd), s, DOMAIN s.pend)

-----------------------------------------------------------------------------
\* Children (sigchld.rs, datastore/child.rs, entry/child.rs)

get_unit_by_pid(s, p) == {u \in {w[2] : w \in s.watch} : <<p, u>> \in s.watch}

child_save(s, u) == [s EXCEPT !.r = insert(@, <<"child", u>>, {w \in s.watch : w[2] = u})]
child_watch_pid(s, p, u) == child_save([s EXCEPT !.watch = @ \cup {<<p, u>>}], u)
child_unwatch_pid(s, p, u) == child_save([s EXCEPT !.watch = @ \ {<<p, u>>}], u)

\* What a unit makes of an input is saved with it.
acts_upon(s, u, input) ==
    [s EXCEPT !.log = @ \cup {<<u, input>>}, !.twice = @ \/ <<u, input>> \in s.log,
              !.r = insert(@, <<"log", u>>, {l \in s.log \cup {<<u, input>>} : l[1] = u})]

sigchld_enable(s, enable) == [s EXCEPT !.sig_on = enable]

dispatch_signal(s) == sigchld_enable([s EXCEPT !.sigchld = FALSE], TRUE)

\* A mistake: the zombie is reaped first.
sigchld_dispatch_reaping(s) ==
    IF s.zombies = {} THEN {then(s, EndFrame \o Do(<<"TurnOff">>))}
    ELSE {LET units == get_unit_by_pid(s, p)
              served(u) == <<Op("Unit", u), Op("SigchldEvents", p)>> \o EndUnit
          IN  then(s, <<Op("Reap", p)>> \o (IF units = {} THEN <<>> ELSE served(UnitOf(s, p)))
                       \o EndFrame) : p \in s.zombies}

\* The zombie is looked at, and reaped when all it causes is saved.
sigchld_dispatch(s) ==
    IF s.zombies = {} THEN {then(s, EndFrame \o Do(<<"TurnOff">>))}
    ELSE {LET units == get_unit_by_pid(s, p)
              served(u) == <<Op("Unit", u), Op("SigchldEvents", p)>> \o EndUnit
          IN  then(s, (IF units = {} THEN <<>> ELSE served(UnitOf(s, p)))
                       \o <<Op("Reap", p)>> \o EndFrame) : p \in s.zombies}

sigchld_events(s, p) ==
    LET u == UnitOf(s, p) IN child_unwatch_pid(acts_upon(s, u, <<"exit", p>>), p, u)

-----------------------------------------------------------------------------
\* Messages (notify.rs).  A message is named by the process that sent it.

\* The sender is looked at, the unit is recorded, and the message is taken.
notify_dispatch(s) ==
    LET p == Head(s.queue)
    IN  IF get_unit_by_pid(s, p) = {} THEN then(s, Do(<<"Drop">>) \o EndFrame)
        ELSE then(s, <<Op("Unit", UnitOf(s, p)), Op("Pop", p), Op("NotifyMessage", p)>>
                     \o EndUnit \o EndFrame)

-----------------------------------------------------------------------------
\* Mounts (mount/manager.rs, mng.rs, unit.rs)

set_state(s, m, state) ==
    [s EXCEPT !.mount[m] = state, !.r = insert(@, <<"mount", m>>, state)]

\* The frame of the monitor is part of the history.
mount_set_last_frame(r) == insert(r, <<"mountframe", "">>, "Monitor")
mount_clear_last_frame(r) == remove(r, <<"mountframe", "">>)
mount_last_frame(r) == contains_key(r, <<"mountframe", "">>)

attach_unit(s, m) ==
    IF m \in DOMAIN s.mount THEN s
    ELSE [s EXCEPT !.mount = put(@, m, "Dead"), !.r = insert(@, <<"mount", m>>, "Dead")]

\* UnitX::start and stop.  The start limit may be hit.
start_check(s, m) == IF s.scene.limit THEN {TRUE, FALSE} ELSE {TRUE}
unit_start(s, m) ==
    IF s.mount[m] = "Mounted" THEN {s}
    ELSE {IF below THEN set_state(s, m, "Mounted")
          ELSE [set_state(s, m, "Dead") EXCEPT !.touched = @ \cup {m}] : below \in start_check(s, m)}
unit_stop(s, m) == IF s.mount[m] = "Dead" THEN s ELSE set_state(s, m, "Dead")

\* Units that are active and no longer mounted are stopped, what is mounted and not
\* active is loaded and started.
dispatch_mountinfo(s) ==
    LET active == {m \in DOMAIN s.mount : s.mount[m] = "Mounted"}
        start(m) == <<Op("Load", m), Op("Unit", m), Op("Start", m)>> \o EndUnit
        stop(m) == <<Op("Unit", m), Op("Stop", m)>> \o EndUnit
        each(ops(_), order) == FlattenSeq([i \in DOMAIN order |-> ops(order[i])])
        mark == [s EXCEPT !.r = mount_set_last_frame(@), !.touched = {}]
    IN  {then(mark, each(start, up) \o each(stop, down) \o Do(<<"EndMonitor">>) \o EndFrame) :
            up \in SetToSeqs(s.mounted \ active), down \in SetToSeqs(active \ s.mounted)}

\* The changes so far are forgotten before the table is read.
monitor_io == Do(<<"Drain", "FrameMount", "Mountinfo">>)

-----------------------------------------------------------------------------
\* Recovery (api.rs, station.rs, unit/manager.rs)

\* A mistake: only the mounts are looked at again.
input_rebuild_mounts(s) == [s EXCEPT !.defer = TRUE]

\* The sources are enabled whatever was pending.
input_rebuild(s) == [s EXCEPT !.sig_on = TRUE, !.defer = TRUE]

\* The units whose job is merged and triggered again: of the last words the frame tells
\* who was at work.
submanager_compensates(s) == last_frame(s.r) = "Mount" /\ mount_last_frame(s.r)

compensate_last(s) ==
    LET frame == last_frame(s.r)
        concerned == frame \in {"SigChld", "Notify", "JobManager"} \/ submanager_compensates(s)
    IN  IF concerned /\ s.r.unit # "" THEN {<<frame, s.r.unit>>} ELSE {}

make_consistent(s) == [s EXCEPT !.retrig = @ \cup compensate_last(s)]

db_map(s) ==
    LET r == s.r
        rows(table) == UNION {r.cache[<<table, u>>] : u \in keys(r, table)}
    IN  [s EXCEPT !.watch = rows("child"), !.log = rows("log"),
                  !.mount = [m \in keys(r, "mount") |-> r.cache[<<"mount", m>>]]]

\* db_map of the owners: a descriptor that was saved is taken.
take_all(s) ==
    LET owners == {o \in keys(s.r, "fd") : s.r.cache[<<"fd", o>>] > 0}
    IN  [i \in 1..Cardinality(owners) |->
            FdOp("Take", SetToSeq(owners)[i], s.r.cache[<<"fd", SetToSeq(owners)[i]>>])]

recover == Do(<<"Import", "Compensate", "Map", "CloseMarked", "ClearMarks", "Redo", "Commit",
                "Attend", "ClearUnit", "ClearFrame">>)

\* rloop: after the load queue sysmaster waits in the frame of the events.
Rloop == Do(<<"FrameLoad", "Commit", "ClearFrame", "FrameEvent">>)

register_ex == Do(<<"OpenNotify", "Register">>)

startup(s) ==
    [s EXCEPT !.todo = (IF s.r.enable THEN recover \o register_ex
                        ELSE register_ex \o Do(<<"FrameManager">>) \o EndFrame \o Do(<<"Restore">>))
                       \o EndFrame \o Rloop]

new_process(s) ==
    LET fds == {fd \in DOMAIN s.fds : ~s.fds[fd]}
        kept == s.bound \in fds
    IN  startup([s EXCEPT !.r = inherit(@), !.fds = [fd \in fds |-> FALSE],
                          !.bound = IF kept THEN @ ELSE 0, !.queue = IF kept THEN @ ELSE <<>>,
                          !.ready = TRUE, !.fd = [o \in Owners(s) |-> -1], !.watch = {}, !.log = {},
                          !.mount = NoRow, !.sig_on = FALSE, !.defer = FALSE, !.registered = FALSE])

\* Manager::reload.
entry_clear(s) == [s EXCEPT !.watch = {}, !.log = {}, !.mount = NoRow]

-----------------------------------------------------------------------------
\* The steps, by what is to be done next.
Steps(s) ==
    LET op == Head(s.todo).op
        x == Head(s.todo).x
        fd == Head(s.todo).fd
        with(r) == {then([s EXCEPT !.r = r], <<>>)}
        done(t) == {then(t, <<>>)}
    IN  CASE op = "FrameSigChld" -> with(set_last_frame(s.r, "SigChld"))
          [] op = "FrameNotify" -> with(set_last_frame(s.r, "Notify"))
          [] op = "FrameMount" -> with(set_last_frame(s.r, "Mount"))
          [] op = "FrameManager" -> with(set_last_frame(s.r, "ManagerOp"))
          [] op = "FrameJob" -> with(set_last_frame(s.r, "JobManager"))
          [] op = "FrameLoad" -> with(set_last_frame(s.r, "Queue"))
          [] op = "FrameEvent" -> with(set_last_frame(s.r, "OtherEvent"))
          [] op = "Unit" -> with(set_last_unit(s.r, x))
          [] op = "Commit" -> with(commit(s.r))
          [] op = "ClearUnit" -> with(clear_unit(s.r))
          [] op = "ClearFrame" -> with(clear_frame(s.r))
          [] op = "Peek" -> sigchld_dispatch(s)
          [] op = "SigchldEvents" -> done(sigchld_events(s, x))
          [] op = "Reap" -> done([s EXCEPT !.zombies = @ \ {x}])
          [] op = "TurnOff" -> done(sigchld_enable(s, FALSE))
          [] op = "ReadSignal" -> done(dispatch_signal(s))
          [] op = "PeekMessage" -> {notify_dispatch(s)}
          [] op = "Drop" -> done([s EXCEPT !.dropped = @ \cup {Head(s.queue)}, !.queue = Tail(@)])
          [] op = "Pop" -> done([s EXCEPT !.queue = Tail(@)])
          [] op = "NotifyMessage" -> done(acts_upon(s, UnitOf(s, x), <<"message", x>>))
          [] op = "Fork" -> done([s EXCEPT !.unborn = @ \ {x}, !.alive = @ \cup {x}])
          [] op = "Watch" -> done(child_watch_pid(s, x, UnitOf(s, x)))
          [] op = "Drain" -> done([s EXCEPT !.ready = FALSE])
          [] op = "Mountinfo" -> dispatch_mountinfo(s)
          [] op = "Load" -> {then(attach_unit(s, x), Do(<<"FrameLoad", "Commit", "ClearFrame">>))}
          [] op = "Start" -> {then(t, <<>>) : t \in unit_start(s, x)}
          [] op = "Stop" -> done(unit_stop(s, x))
          [] op = "Touch" -> done([s EXCEPT !.touched = @ \cup {x}])
          [] op = "EndMonitor" -> with(mount_clear_last_frame(s.r))
          [] op = "DeferOff" -> done([s EXCEPT !.defer = FALSE])
          [] op = "OpenPort" -> {open_fd(s, x)}
          [] op = "ClosePort" -> {close_port(s, x)}
          [] op = "Retaining" -> done(fd_add(s, fd, "Retaining"))
          [] op = "Survive" -> done(fd_cloexec(s, fd, FALSE))
          [] op = "Retained" -> done(fd_add(s, fd, "Retained"))
          [] op = "Owned" -> done(set_fd(s, x, fd))
          [] op = "Removing" -> done(fd_add(s, fd, "Removing"))
          [] op = "Perish" -> done(fd_cloexec(s, fd, TRUE))
          [] op = "Unmark" -> done(fd_del(s, fd))
          [] op = "Close" -> done(set_fd(close(s, fd), x, -1))
          [] op = "OpenNotify" -> {open_socket(s)}
          [] op = "Register" -> done([s EXCEPT !.registered = TRUE])
          [] op = "Restore" -> with(set_enable(s.r, TRUE))
          [] op = "Clear" -> done(entry_clear(s))
          [] op = "Import" -> done(input_rebuild([s EXCEPT !.r = import(last_ignore_set(@, TRUE))]))
          [] op = "Compensate" -> with(commit(s.r))
          [] op = "Map" -> {then(db_map(s), take_all(s))}
          [] op = "Take" -> done(fd_take(s, x, fd))
          [] op = "CloseMarked" -> done(pending_make_consistent(s))
          [] op = "ClearMarks" -> done([s EXCEPT !.pend = NoRow])
          [] op = "Redo" -> done(make_consistent(s))
          [] op = "Attend" -> with(last_ignore_set(s.r, FALSE))

at_rest(s) == s.todo = <<>>

Step == ~at_rest(sys) /\ sys' \in Steps(sys)

\* An event of the loop; it ends the frame it was waited for in.
Event(ready, frame, ops) ==
    /\ at_rest(sys) /\ sys.registered /\ ready
    /\ sys' = [sys EXCEPT !.todo = Do(frame) \o ops \o EndFrame \o Rloop]

SignalsDispatch == Event(sys.sigchld, <<"FrameManager">>, Do(<<"ReadSignal">>) \o EndFrame)
SigchldDispatch == Event(sys.sig_on, <<"FrameSigChld">>, Do(<<"Peek">>))
NotifyDispatch ==
    Event(sys.queue # <<>> /\ sys.fd["notify"] = sys.bound, <<"FrameNotify">>, Do(<<"PeekMessage">>))
MountIo == Event(sys.ready, <<>>, monitor_io \o Do(<<"DeferOff">>))
\* The source is enabled once.
MountDefer ==
    /\ at_rest(sys) /\ sys.registered /\ sys.defer
    /\ sys' = [sys EXCEPT !.defer = FALSE,
                          !.todo = Do(<<"FrameMount", "Mountinfo">>) \o EndFrame \o Rloop]

\* A job of a unit: its process is started, a port is opened or closed, a mount unit is
\* started or stopped though nothing is mounted.
Job(u, ops) == Event(TRUE, <<"FrameJob">>, <<Op("Unit", u)>> \o ops \o EndUnit \o EndFrame)
Spawn(p) == p \in sys.unborn /\ Job(UnitOf(sys, p), <<Op("Fork", p), Op("Watch", p)>>)
OpenPort(o) == sys.fd[o] < 0 /\ Job(o, <<Op("OpenPort", o)>>)
ClosePort(o) == sys.fd[o] > 0 /\ Job(o, <<Op("ClosePort", o)>>)
MountJob(m) ==
    /\ sys.scene.jobs
    /\ m \in DOMAIN sys.mount
    /\ \E op \in {"Start", "Stop"} : Job(m, <<Op("Touch", m), Op(op, m)>>)

Reload ==
    /\ at_rest(sys) /\ sys.registered /\ sys.scene.reloads > 0
    /\ sys' = [sys EXCEPT !.scene.reloads = @ - 1,
                          !.todo = EndFrame \o Do(<<"Clear">>) \o recover \o EndFrame \o Rloop]

\* What happens outside.
Exit(p) ==
    /\ p \in sys.alive
    /\ sys' = [sys EXCEPT !.alive = @ \ {p}, !.zombies = @ \cup {p}, !.sigchld = TRUE]

Send(p) ==
    /\ p \in sys.alive \ (sys.sent \cup sys.scene.quiet) /\ sys.bound > 0
    /\ sys' = [sys EXCEPT !.sent = @ \cup {p}, !.queue = Append(@, p)]

Mount(m) ==
    /\ sys.scene.mounts > 0
    /\ sys' = [sys EXCEPT !.scene.mounts = @ - 1, !.ready = TRUE,
                          !.mounted = IF m \in @ THEN @ \ {m} ELSE @ \cup {m}]

Crash ==
    /\ sys.scene.crashes > 0
    /\ sys' = new_process([sys EXCEPT !.scene.crashes = @ - 1, !.early = @ \/ ~sys.r.enable])

-----------------------------------------------------------------------------
ReentryInit ==
    sys \in {startup([scene |-> scene, r |-> NewReliability, pend |-> NoRow,
                      unborn |-> DOMAIN scene.pids, alive |-> {}, zombies |-> {}, sigchld |-> FALSE,
                      fds |-> NoRow, bound |-> 0, queue |-> <<>>, mounted |-> {}, ready |-> TRUE,
                      fd |-> [o \in scene.ports \cup {"notify"} |-> -1], watch |-> {}, log |-> {},
                      mount |-> NoRow, sig_on |-> FALSE, defer |-> FALSE, registered |-> FALSE,
                      retrig |-> {}, todo |-> <<>>, sent |-> {}, dropped |-> {}, twice |-> FALSE, touched |-> {},
                      early |-> FALSE]) : scene \in Scenes}

ReentryNext ==
    \/ Step
    \/ SignalsDispatch \/ SigchldDispatch \/ NotifyDispatch \/ MountIo \/ MountDefer
    \/ \E p \in DOMAIN sys.scene.pids : Spawn(p) \/ Exit(p) \/ Send(p)
    \/ \E o \in sys.scene.ports : OpenPort(o) \/ ClosePort(o)
    \/ \E m \in sys.scene.points : MountJob(m) \/ Mount(m)
    \/ Reload \/ Crash

\* sysmaster goes on until it waits, and an event that stays ready is dispatched.
ReentryFair ==
    /\ []<>at_rest(sys) \/ []<><<Step>>_sys
    /\ []<>~sys.sigchld \/ []<><<SignalsDispatch>>_sys
    /\ []<>~sys.sig_on \/ []<><<SigchldDispatch>>_sys
    /\ []<>(sys.queue = <<>>) \/ []<><<NotifyDispatch>>_sys

ReentrySpec == ReentryInit /\ [][ReentryNext]_sys /\ ReentryFair

-----------------------------------------------------------------------------
\* Properties

\* No descriptor stays open that nobody knows of, wherever a process ended between
\* opening, marking and saving it (fd_retain, fd_remove, make_consistent).  A process that
\* ended before the first start was complete leaves its notify socket behind.
NoFdLeak ==
    at_rest(sys) /\ ~sys.early => DOMAIN sys.fds \subseteq {sys.fd[o] : o \in Owners(sys)}

\* An exit that was reaped and a message that was taken have reached the unit, though
\* sysmaster may end between any two steps; if not, it ended while it started the process
\* or took the message, and the job of the unit is triggered again (sigchld_dispatch,
\* notify_dispatch, do_compensate_last).
InputsKept ==
    at_rest(sys) =>
        \A p \in DOMAIN sys.scene.pids :
            LET u == UnitOf(sys, p)
                reaped == p \notin sys.unborn \cup sys.alive \cup sys.zombies
                taken == p \in sys.sent /\ p \notin ToSet(sys.queue) \cup sys.dropped
            IN  /\ reaped => <<u, <<"exit", p>>>> \in sys.log \/ <<"JobManager", u>> \in sys.retrig
                /\ taken => \/ <<u, <<"message", p>>>> \in sys.log
                            \/ <<"Notify", u>> \in sys.retrig \/ sys.early

\* No unit acts twice upon an exit or a message, though a zombie is looked at again by the
\* next process.
NoneTwice == ~sys.twice

\* When no change is announced, a mount unit is active just when its point is mounted,
\* unless a job or the start limit has set it since (dispatch_mountinfo).
MountsFollow ==
    at_rest(sys) /\ ~sys.ready /\ ~sys.defer =>
        \A m \in sys.scene.points \ sys.touched :
            (m \in DOMAIN sys.mount /\ sys.mount[m] = "Mounted") <=> m \in sys.mounted

\* Every zombie is reaped and every message taken in the end: no exit gets between looking
\* for zombies and turning the source off, and no crash leaves the source off.
InputsServed ==
    /\ \A p \in UNION {DOMAIN scene.pids : scene \in Scenes} : []<>(p \notin sys.zombies)
    /\ []<>(sys.queue = <<>>)
=============================================================================
