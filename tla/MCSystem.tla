------------------------------ MODULE MCSystem ------------------------------
(***************************************************************************)
(* The parts of the system around the jobs and the services on small       *)
(* instances.  One behaviour plays one scene, with the state of one part:  *)
(*   init       init and the sysmasters it supervises                      *)
(*   install    enabling and disabling of units                            *)
(*   seed       the random seed over several boots                         *)
(*   condition  the start of a unit with conditions and asserts            *)
(*   exec       the processes of a unit, spawned and killed                *)
(*   loop       the event loop with its clocks                             *)
(*   manager    the main loop, emergency actions and the start limit       *)
(*   monitor    sysmonitor and the commands it runs                        *)
(***************************************************************************)
EXTENDS Condition, RandomSeed, ManagerLoop, Sysmonitor, TLC

CONSTANTS
    Sysmasters, Orphans, TimeCnt, MaxFaults, MaxBacklog,
    unit_file, Targets, preset_file,
    Pids, ExecScenes,
    LoopScenes, MaxFds, MaxPending

VARIABLES scene, it, links, ex, lp

vars == <<scene, it, links, seed, unit, ex, lp, mg, mon>>

I == INSTANCE Init
S == INSTANCE Install
X == INSTANCE Execution
E == INSTANCE Events

-----------------------------------------------------------------------------
\* Units that are installed together, under another name and by two targets; one of
\* them has a file in /etc over the one in /lib.
Section(aliases, wanted, required, also) ==
    [alias |-> aliases, wanted_by |-> wanted, required_by |-> required, also |-> also, empty |-> FALSE]

MCUnitFile ==
    [lib |-> [a |-> Section({"y"}, {"T"}, {}, {"b"}), b |-> Section({}, {"T"}, {}, {}),
              c |-> Section({"y"}, {}, {"S"}, {"a"})],
     run |-> [x \in {} |-> 0],
     etc |-> [b |-> Section({}, {}, {"S"}, {})]]

MCPreset == (<<"etc", 2>> :> <<[action |-> "enable", units |-> {"a"}]>>)
            @@ (<<"lib", 1>> :> <<[action |-> "disable", units |-> {"a", "b"}]>>)

-----------------------------------------------------------------------------
\* Unit files with two of the keys, and four states of the system.
Keys == ToSet(ConditionKeys) \cup ToSet(AssertKeys)

Value(k) ==
    CASE k \in {"ACPower", "FirstBoot"} -> {<<"true">>, <<"false">>}
      [] k = "KernelCommandLine" -> {<<"!", "ro">>, <<"ro", "=", "x">>}
      [] k = "User" -> {<<"0">>, <<"@system">>, <<"|", "root">>}
      [] k = "Capability" -> {<<"|", "CAP">>}
      [] k = "Security" -> {<<"|", "ima">>}
      [] k = "PathExistsGlob" -> {<<"!", "a", "*">>}
      [] k = "NeedsUpdate" -> {<<"|", "!", "x">>}
      [] k \in {"AssertPathExists", "PathExists"} -> {<<"a">>, <<"|", "!", "a">>, <<"|">>}
      [] OTHER -> {<<"a">>, <<"|", "a">>}

File(k, v, l, w) == [x \in Keys |-> CASE x = k -> v [] x = l -> w [] OTHER -> NoValue]

MCConfigs ==
    UNION {{File(k, v, l, w) : v \in Value(k), w \in Value(l)} :
              <<k, l>> \in {p \in {"PathExists", "AssertPathExists"} \X Keys : p[1] # p[2]}}

Dir(kind, link, full, mode, mount, ro) ==
    [kind |-> kind, link |-> link, full |-> full, mode |-> mode, mount |-> mount, ro |-> ro]

WorldOf(d, cmdline, option, uid) ==
    [path |-> [p \in {<<"a">>, <<"a", "b">>} |-> d],
     mains |-> IF uid = 0 THEN {} ELSE {"offline"},
     caps |-> IF uid = 0 THEN {<<"CAP">>} ELSE {},
     first_boot |-> d.full, first_boot_option |-> option, cmdline |-> cmdline,
     security |-> IF uid = 0 THEN {<<"ima">>} ELSE {},
     uids |-> (<<"0">> :> 0), names |-> (<<"root">> :> 0), uid |-> uid, euid |-> uid]

MCWorlds ==
    {WorldOf(Dir("none", FALSE, FALSE, {}, FALSE, FALSE), <<>>, "none", 0),
     WorldOf(Dir("file", FALSE, TRUE, {8, 7, 5, 2}, FALSE, FALSE),
           <<<<"ro", "ot", "=", "x">>, <<"ro", "=", "x">>>>, "none", 0),
     WorldOf(Dir("file", TRUE, TRUE, {8, 7, 6}, FALSE, TRUE), <<<<"ro">>>>, "true", 1000),
     WorldOf(Dir("dir", FALSE, FALSE, {8, 7, 6}, TRUE, FALSE), <<<<"ro", "=", "x">>>>, "none", 1000)}

-----------------------------------------------------------------------------
\* Up to three descriptors from 3 to 6 in any order, and the two ways to kill a cgroup.
FdLists == {s \in UNION {[1..n -> 3..6] : n \in 1..3} : \A i, j \in DOMAIN s : i # j => s[i] # s[j]}

MCExecScenes ==
    {[fds |-> l, kill_mode |-> "Process", pids |-> {1}] : l \in FdLists}
    \cup {[fds |-> <<>>, kill_mode |-> "Mixed", pids |-> {1, 2}],
          [fds |-> <<3>>, kill_mode |-> "ControlGroup", pids |-> {1, 2}]}

-----------------------------------------------------------------------------
\* Sources of two priorities, on two clocks, of several kinds; two timers of one priority.
Src(kind, priority, period) == [kind |-> kind, priority |-> priority, period |-> period]

SamePriority == [t1 |-> Src("TimerMonotonic", 0, 1), t2 |-> Src("TimerMonotonic", 0, 2)]

MCLoopScenes ==
    {SamePriority,
     [t1 |-> Src("TimerMonotonic", 0, 1), t2 |-> Src("TimerMonotonic", 1, 2)],
     [alive |-> Src("TimerRealtime", 0, 2), t1 |-> Src("TimerMonotonic", 0, 1)],
     [io |-> Src("Io", 0, 0), d |-> Src("Defer", 100, 0), t1 |-> Src("TimerMonotonic", 0, 1)],
     [n1 |-> Src("Inotify", 0, 0), n2 |-> Src("Inotify", 0, 0)]}

MCSameLoopScenes == {SamePriority}

-----------------------------------------------------------------------------
\* A unit with a start limit, and units with an emergency action for every occasion.
Emergency(failure, success, limit, timeout) ==
    [interval |-> 1, burst |-> 1, failure |-> failure, success |-> success, limit |-> limit,
     timeout |-> timeout, pulls |-> TRUE, reports |-> 3, time |-> 0,
     states |-> {"InActive", "Active", "Failed"},
     commands |-> {"ReLoad", "ReExecute", "PowerOff", "Suspend"}]

Limited(burst, reports, time) ==
    [Emergency("none", "none", "none", "none") EXCEPT
        !.burst = burst, !.reports = reports, !.time = time, !.states = {"InActive"}, !.commands = {}]

MCEmergencyConfs ==
    {Limited(1, 4, 5), Limited(2, 10, 9), Emergency("reboot", "poweroff", "exit", "exit-force"),
     Emergency("reboot-force", "poweroff", "poweroff-force", "reboot-immediate")}

-----------------------------------------------------------------------------
\* The parts that a scene does not play are off, or in a state where nothing is due.
InitAtRest == [(CHOOSE s \in I!InitStates : TRUE) EXCEPT
                  !.state = "Unrecover", !.proc = [p \in I!ProcessSet |-> "none"]]

LoopAtRest == [(CHOOSE s \in E!LoopStates : TRUE) EXCEPT !.pc = "panic"]

ManagerAtRest == [(CHOOSE s \in ManagerLoopStates : TRUE) EXCEPT !.phase = "down"]

MCInit ==
    /\ scene \in {"init", "install", "seed", "condition", "exec", "loop", "manager", "monitor"}
    /\ IF scene = "init" THEN I!InitInit ELSE it = InitAtRest
    /\ IF scene = "install" THEN S!InstallInit ELSE links = "off"
    /\ IF scene = "seed" THEN SeedInit ELSE seed = [env |-> "force"]
    /\ IF scene = "condition" THEN ConditionInit ELSE unit = [answer |-> "none"]
    /\ IF scene = "exec" THEN X!ExecInit ELSE ex = "off"
    /\ IF scene = "loop" THEN E!LoopInit ELSE lp = LoopAtRest
    /\ IF scene = "manager" THEN ManagerLoopInit ELSE mg = ManagerAtRest
    /\ IF scene = "monitor" THEN SysmonitorInit ELSE mon = [left |-> {}]

MCNext ==
    \/ scene = "init" /\ I!InitNext /\ UNCHANGED <<scene, links, seed, unit, ex, lp, mg, mon>>
    \/ scene = "install" /\ S!InstallNext /\ UNCHANGED <<scene, it, seed, unit, ex, lp, mg, mon>>
    \/ scene = "seed" /\ SeedNext /\ UNCHANGED <<scene, it, links, unit, ex, lp, mg, mon>>
    \/ scene = "condition" /\ ConditionNext /\ UNCHANGED <<scene, it, links, seed, ex, lp, mg, mon>>
    \/ scene = "exec" /\ X!ExecNext /\ UNCHANGED <<scene, it, links, seed, unit, lp, mg, mon>>
    \/ scene = "loop" /\ E!LoopNext /\ UNCHANGED <<scene, it, links, seed, unit, ex, mg, mon>>
    \/ scene = "manager" /\ ManagerLoopNext /\ UNCHANGED <<scene, it, links, seed, unit, ex, lp, mon>>
    \/ scene = "monitor" /\ SysmonitorNext /\ UNCHANGED <<scene, it, links, seed, unit, ex, lp, mg>>

\* Nothing is due in the parts that are not played.
MCFairness == I!InitFair /\ E!LoopFair /\ ManagerFairness

MCSpec == MCInit /\ [][MCNext]_vars /\ MCFairness

-----------------------------------------------------------------------------
\* The properties of the parts, each in its scene.

\* See Init: init listens where it can hear sysmaster, of which there is one, and once
\* faults and signals cease it is up and heard, if it has not ended.
Supervised == [](scene = "init" => I!Listens /\ I!OneSysmaster) /\ I!Supervised

\* See Install: enable and disable leave the links their unit files ask for.
InstallTakesEffect == [][scene = "install" => S!TakesEffect]_links

\* See Execution: a command finds its descriptors, and kill_context leaves out no process.
CommandsSound == scene = "exec" => X!FdsPassed /\ X!KillReachesAll

\* See Events: events.rs does what EventLoop, which Service is checked with, allows, until
\* it runs out of the timer descriptors that it does not close.
ImplementsLoop == [][scene = "loop" => E!LoopStep \/ lp.fds = MaxFds]_lp

\* See Events: a timer that waits comes due, as long as there are descriptors.
TimerIsDue == E!TimerIsDue

\* See Events: turning one timer off leaves the other ones waiting.
AllAreWaiting == scene = "loop" => E!AllAreWaiting
=============================================================================
