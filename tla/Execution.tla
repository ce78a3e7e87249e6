------------------------------ MODULE Execution ------------------------------
(***************************************************************************)
(* Running and killing the processes of a unit: fork, the set-up of the    *)
(* child (core/bin/unit/execute/spawn.rs), its cgroup (libs/cgroup) and    *)
(* Unit::kill_context.  sysmaster works step by step while the processes   *)
(* of the unit run, fork, exit and wait for each other.                    *)
(*                                                                         *)
(* A table maps the open descriptors of a process to files.  The cgroups   *)
(* are sysmaster's own, the unit's and one below the unit's.               *)
(***************************************************************************)
EXTENDS Naturals, FiniteSets, Sequences, SequencesExt, FiniteSetsExt

CONSTANTS
    Pids,       \* process ids
    ExecScenes  \* [fds, kill_mode, pids]: what a unit passes to its command, its
                \* KillMode, and the processes it may have at once

VARIABLE ex

NoPid == 0

NoTable == [fd \in {} |-> ""]

Free == [st |-> "none", parent |-> NoPid, cg |-> "self", table |-> NoTable, slain |-> FALSE]

\* What sysmaster is doing.  members and hit are kept for the property: the
\* processes in the cgroup since a kill began, and the ones that were signalled.
Rest == [do |-> "none", pid |-> NoPid, sig |-> "none", todo |-> {}, err |-> FALSE,
         members |-> {}, hit |-> {}]

\* main and control: what the unit takes for its processes.
ExecInit ==
    \E scene \in ExecScenes :
        ex = [proc |-> [p \in Pids |-> Free], main |-> NoPid, control |-> NoPid,
              op |-> Rest, fds |-> scene.fds, kill_mode |-> scene.kill_mode, pids |-> scene.pids]

is_live(p) == ex.proc[p].st \in {"setup", "run"}

children(s, p) == {q \in Pids : s.proc[q].parent = p /\ s.proc[q].st # "none"}

(***************************************************************************)
(* The child: which descriptors the command finds.                         *)
(***************************************************************************)
MaxFd == 9

\* sysmaster's own table: the standard ones, what it passes and one more.
own_table(fds) ==
    [fd \in 0..2 \cup ToSet(fds) \cup {MaxFd} |-> IF fd \in ToSet(fds) THEN <<"file", fd>> ELSE <<"own", fd>>]

close_all_fds(table, fds) == [fd \in DOMAIN table \cap (0..2 \cup ToSet(fds)) |-> table[fd]]

\* fcntl(F_DUPFD): the lowest descriptor that is free, from a bound on.
dupfd(table, from) == Min((from..(MaxFd + Cardinality(Pids))) \ DOMAIN table)

\* One descriptor of the list: entry i belongs to descriptor i + 2.
shift_one(f, i) ==
    IF f.fds[i] = i + 2 THEN f
    ELSE LET nfd == dupfd(f.table, i + 2)
             old == f.fds[i]
         IN  [fds |-> [f.fds EXCEPT ![i] = nfd],
              table |-> [fd \in (DOMAIN f.table \cup {nfd}) \ {old} |->
                            IF fd = nfd THEN f.table[old] ELSE f.table[fd]],
              restart |-> IF nfd # i + 2 /\ f.restart = 0 THEN i ELSE f.restart]

shift_pass(f, start) ==
    FoldLeft(shift_one, [f EXCEPT !.restart = 0],
             [k \in 1..(Len(f.fds) + 1 - start) |-> start + k - 1])

\* A mistake: one pass, although a descriptor in the way is moved after it.
shift_fds_once(f) == shift_pass(f, 1)

\* Each pass begins with the first descriptor that was not placed, and places it: what
\* was in its way has moved.  There are no more passes than descriptors, and one.
shift_fds(f) ==
    LET pass[n \in 0..Len(f.fds)] ==
            IF n = 0 THEN shift_pass(f, 1)
            ELSE LET g == pass[n - 1]
                 IN  IF g.restart = 0 THEN g ELSE shift_pass(g, g.restart)
    IN  pass[Len(f.fds)]

\* LISTEN_FDS is the length of the list.  flags_fds clears close-on-exec.
exec_table(fds) ==
    shift_fds([fds |-> fds, table |-> close_all_fds(own_table(fds), fds), restart |-> 0]).table

\* exec_child: the root, the directories, user and group, the working directory,
\* the umask, the environment and the limits are set up in turn.  Whatever fails,
\* the child exits with 0; a command that cannot be executed, with 1.
exec_child(p) ==
    {[p EXCEPT !.st = "zombie"], [p EXCEPT !.st = "run", !.table = exec_table(ex.fds)]}

ExecChild(p) ==
    /\ ex.proc[p].st = "setup" /\ ~ex.proc[p].slain
    /\ \E q \in exec_child(ex.proc[p]) : ex' = [ex EXCEPT !.proc[p] = q]

(***************************************************************************)
(* sysmaster: ExecSpawn::spawn forks and moves the child to the cgroup.    *)
(***************************************************************************)
Spawn(p) ==
    /\ ex.op = Rest /\ ex.proc[p].st = "none" /\ p \in ex.pids
    /\ ex.main = NoPid \/ ex.control = NoPid
    /\ ex' = [ex EXCEPT !.proc[p] = [Free EXCEPT !.st = "setup"],
                        !.op = [Rest EXCEPT !.do = "attach", !.pid = p]]

\* A write to cgroup.procs; a process that has exited stays where it was.
cg_attach(s, p) == IF s.proc[p].st \in {"setup", "run"} THEN [s EXCEPT !.proc[p].cg = "unit"] ELSE s

\* When it fails the child runs on, and the unit does not know of it.
Attach ==
    /\ ex.op.do = "attach"
    /\ ex' \in {[cg_attach(ex, ex.op.pid) EXCEPT
                     !.op = Rest, ![IF ex.main = NoPid THEN "main" ELSE "control"] = ex.op.pid],
                [ex EXCEPT !.op = Rest]}

(***************************************************************************)
(* sysmaster: Unit::kill_context.                                          *)
(***************************************************************************)
\* kill(2) succeeds for a process that was not waited for.
kill_and_cont(s, p, sig) ==
    IF p = NoPid \/ s.proc[p].st = "none" THEN s
    ELSE [s EXCEPT !.op.hit = @ \cup {p}, !.proc[p].slain = @ \/ sig = "SIGKILL"]

cgroup_procs == {p \in Pids : is_live(p) /\ ex.proc[p].cg = "unit"}

\* sig is what to_signal makes of the kill operation.
KillContext(sig) ==
    /\ ex.op = Rest /\ ex.main # NoPid
    /\ LET begun == [ex EXCEPT !.op = [Rest EXCEPT !.do = "list", !.sig = sig,
                                                    !.members = cgroup_procs]]
       IN  ex' = kill_and_cont(kill_and_cont(begun, ex.main, sig), ex.control, sig)

\* cg_kill_process reads cgroup.procs and skips the processes it was given.
pids_to_kill == cgroup_procs \ {ex.main, ex.control}

CgKillList ==
    /\ ex.op.do = "list"
    /\ ex' = IF \/ ex.kill_mode = "ControlGroup"
                \/ ex.kill_mode = "Mixed" /\ ex.op.sig = "SIGKILL"
             THEN [ex EXCEPT !.op.do = "kill", !.op.todo = pids_to_kill]
             ELSE [ex EXCEPT !.op.do = "killed"]

\* The first process that is gone ends it with an error, which is logged.
cg_kill_one(p) ==
    IF ex.proc[p].st = "none" THEN [ex EXCEPT !.op.err = TRUE] ELSE kill_and_cont(ex, p, ex.op.sig)

CgKill(p) ==
    /\ ex.op.do = "kill" /\ p \in ex.op.todo
    /\ LET s == [cg_kill_one(p) EXCEPT !.op.todo = @ \ {p}]
       IN  ex' = [s EXCEPT !.op.do = IF s.op.err \/ s.op.todo = {} THEN "killed" ELSE @]

KillNone == ex.op.do = "kill" /\ ex.op.todo = {} /\ ex' = [ex EXCEPT !.op.do = "killed"]

Return == ex.op.do = "killed" /\ ex' = [ex EXCEPT !.op = Rest]

\* Between two callbacks sysmaster waits for its children.
Sigchld(p) ==
    /\ ex.op = Rest /\ ex.proc[p].st = "zombie" /\ ex.proc[p].parent = NoPid
    /\ ex' = [ex EXCEPT !.proc[p] = Free, !.main = IF @ = p THEN NoPid ELSE @,
                        !.control = IF @ = p THEN NoPid ELSE @]

(***************************************************************************)
(* The processes of the unit.                                              *)
(***************************************************************************)
ForkChild(p, q) ==
    /\ ex.proc[p].st = "run" /\ ~ex.proc[p].slain
    /\ ex.proc[q].st = "none" /\ q \in ex.pids
    /\ ex' = [ex EXCEPT !.proc[q] = [ex.proc[p] EXCEPT !.parent = p]]

\* sysmaster is the reaper of the children that are left behind.
Exit(p) ==
    /\ is_live(p)
    /\ ex' = [ex EXCEPT !.op.members = @ \ {p}, !.proc = [q \in Pids |->
                  CASE q = p -> [ex.proc[p] EXCEPT !.st = "zombie", !.table = NoTable]
                    [] q \in children(ex, p) -> [ex.proc[q] EXCEPT !.parent = NoPid]
                    [] OTHER -> ex.proc[q]]]

WaitChild(p, q) ==
    /\ ex.proc[p].st = "run" /\ ex.proc[q].st = "zombie" /\ ex.proc[q].parent = p
    /\ ex' = [ex EXCEPT !.proc[q] = Free]

\* A process that manages cgroups of its own.
EnterSub(p) ==
    /\ ex.proc[p].st = "run" /\ ex.proc[p].cg = "unit"
    /\ ex' = [ex EXCEPT !.proc[p].cg = "sub"]

ExecNext ==
    \/ \E p \in Pids : ExecChild(p) \/ Spawn(p) \/ CgKill(p) \/ Sigchld(p) \/ Exit(p) \/ EnterSub(p)
    \/ \E p, q \in Pids : ForkChild(p, q) \/ WaitChild(p, q)
    \/ \E sig \in {"SIGTERM", "SIGKILL"} : KillContext(sig)
    \/ Attach \/ CgKillList \/ KillNone \/ Return

ExecSpec == ExecInit /\ [][ExecNext]_ex

(***************************************************************************)
(* What must hold.                                                         *)
(***************************************************************************)

\* A command finds the descriptors it is passed from 3 on and in their order, and
\* no other one of sysmaster's, whatever numbers they had (close_all_fds,
\* shift_fds: moving one may find its place taken by another that moves later).
FdsPassed ==
    \A p \in Pids : ex.proc[p].st = "run" =>
        ex.proc[p].table = [fd \in 0..(2 + Len(ex.fds)) |->
                               IF fd < 3 THEN <<"own", fd>> ELSE <<"file", ex.fds[fd - 2]>>]

\* When kill_context ends, each process that was in the cgroup of the unit all the
\* time was signalled, unless another one vanished between listing and killing.
KillReachesAll ==
    (/\ ex.op.do = "killed" /\ ~ex.op.err
     /\ ex.kill_mode = "ControlGroup" \/ (ex.kill_mode = "Mixed" /\ ex.op.sig = "SIGKILL"))
        => \A p \in ex.op.members \cap cgroup_procs : p \in ex.op.hit
=============================================================================
