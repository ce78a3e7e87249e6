----------------------------- MODULE MCRecovery -----------------------------
(***************************************************************************)
(* What survives a crash, a reload or a re-execution of sysmaster, on      *)
(* small instances.  One behaviour plays one scene:                        *)
(*   load     the loading of units, with a database                        *)
(*   inputs   signals, messages and mounts that come in meanwhile          *)
(*   jobs     the table of jobs and its records                            *)
(*   socket   a socket, with the descriptors it hands over                 *)
(***************************************************************************)
EXTENDS Naturals, Sequences, TLC

CONSTANTS
    LoadScenes,
    Scenes,
    Unit, Order, Stage, Mode, IgnoreOnIsolate,
    JobTimeoutSec, JobTimeoutAction, MaxCalls, MaxRequests, MaxFaults,
    Source, EventType, Priority, SocketConf, SocketPid

VARIABLES scene, um, sys, jobs, rc, sock

vars == <<scene, um, sys, jobs, rc, sock>>

L == INSTANCE UnitLoad
R == INSTANCE Reentry
J == INSTANCE JobRecovery
S == INSTANCE Socket

-----------------------------------------------------------------------------
\* A target with two services that require each other's company; one whose file is
\* written later; one that wants a unit without a type and is wanted by a link.
File(type, frags, extra) ==
    [type |-> type, frags |-> frags, wants |-> {}, requires |-> {}, extra |-> extra, ok |-> TRUE]

Frag(deps) == <<[default |-> "", deps |-> deps]>>
Extra(rel, n) == [rel |-> rel, name |-> n, must |-> TRUE]
Sysinit == <<Extra("After", "sys"), Extra("Requires", "sys")>>
Bare == File("target", Frag({}), <<>>)

Pair == [T |-> File("target", Frag({<<"Wants", "a">>, <<"Wants", "b">>}), <<>>),
         a |-> File("service", Frag({<<"Requires", "b">>}), Sysinit),
         b |-> File("service", Frag({<<"After", "T">>}), Sysinit),
         sys |-> Bare]

Before == [T |-> File("target", Frag({<<"Wants", "a">>, <<"Requires", "c">>}), <<>>),
           a |-> File("service", Frag({<<"Before", "T">>}), Sysinit),
           c |-> File("service", <<>>, <<>>),
           sys |-> Bare]

Linked == [T |-> File("target", Frag({<<"Wants", "a">>}), <<>>),
           a |-> File("service", Frag({<<"Wants", "i">>}), Sysinit),
           b |-> [File("service", Frag({}), <<Extra("After", "i")>>) EXCEPT !.wants = {"a"}],
           i |-> File("invalid", <<>>, <<>>),
           sys |-> Bare]

LoadScene(files, asked, target, edits, crashes, reloads) ==
    [files |-> files, asked |-> asked, target |-> target, edits |-> edits, crashes |-> crashes,
     reloads |-> reloads, lost |-> {}, edited |-> {}, reloaded |-> FALSE, reread |-> {}]

MCLoadScenes ==
    {LoadScene({Pair}, {"a", "b"}, "sys", 0, 1, 0),
     LoadScene({Pair}, {"a", "b"}, "T", 0, 1, 1),
     LoadScene({Before, [Before EXCEPT !.c = File("service", Frag({}), Sysinit)]}, {"T", "c"}, "sys", 1, 0, 1),
     LoadScene({Linked, [Linked EXCEPT !.a = File("service", Frag({<<"Wants", "b">>}), Sysinit)]},
               {"a", "b"}, "sys", 1, 1, 1),
     LoadScene({Linked}, {"T", "b"}, "sys", 0, 0, 0)}

-----------------------------------------------------------------------------
\* Processes (the quiet ones send no message), a socket's port, mount points.
InputScene(pids, quiet, ports, points, mounts, crashes, reloads, limited) ==
    [pids |-> [p \in pids |-> "u"], quiet |-> quiet, ports |-> ports, points |-> points, mounts |-> mounts,
     crashes |-> crashes, reloads |-> reloads, limit |-> limited, jobs |-> limited]

MCScenes ==
    {InputScene({"p", "q"}, {"p", "q"}, {}, {}, 0, 1, 0, FALSE),
     InputScene({"p"}, {}, {}, {}, 0, 1, 1, FALSE),
     InputScene({}, {}, {"o"}, {}, 0, 2, 1, FALSE),
     InputScene({}, {}, {}, {"m", "n"}, 2, 1, 0, FALSE),
     InputScene({}, {}, {}, {"m"}, 2, 1, 1, TRUE)}

-----------------------------------------------------------------------------
\* Two ordered units that are started, stopped and restarted.
Jobs(f) == [u \in Unit |-> IF u \in DOMAIN f THEN f[u] ELSE {}]
MCStage == {Jobs("a" :> {"Restart"}), Jobs([u \in Unit |-> {"Start"}]), Jobs([u \in Unit |-> {"Stop"}])}
MCOrder == {<<"a", "b">>}

-----------------------------------------------------------------------------
\* Sockets of every kind, with and without commands; one of a sysmaster that is replaced.
Commands(start_pre, start_post, stop_pre, stop_post) ==
    [StartPre |-> start_pre, StartPost |-> start_post, StopPre |-> stop_pre, StopPost |-> stop_post]

Plain == [kind |-> <<"dgram", "fifo">>, cmds |-> Commands(0, 0, 0, 0), accept |-> FALSE, remove_on_stop |-> TRUE,
          symlinks |-> TRUE, chown |-> TRUE, fails |-> TRUE, stops |-> TRUE, restarts |-> 0]

MCSocketConf ==
    {Plain,
     [Plain EXCEPT !.kind = <<"dgram">>, !.cmds = Commands(2, 1, 1, 0), !.fails = FALSE],
     [Plain EXCEPT !.kind = <<"special">>, !.cmds = Commands(0, 2, 0, 1), !.remove_on_stop = FALSE],
     [Plain EXCEPT !.kind = <<"stream">>, !.accept = TRUE, !.stops = FALSE],
     [Plain EXCEPT !.kind = <<"dgram">>, !.fails = FALSE, !.restarts = 1]}

MCEventType == [p \in {1, 2} |-> "Io"]
MCPriority == [p \in {1, 2} |-> 0]

-----------------------------------------------------------------------------
\* The parts that a scene does not play are off, or in a state where nothing is due.
NoInputs == [todo |-> <<>>, sigchld |-> FALSE, sig_on |-> FALSE, queue |-> <<>>, zombies |-> {}]

MCInit ==
    /\ scene \in {"load", "inputs", "jobs", "socket"}
    /\ IF scene = "load" THEN L!UnitLoadInit ELSE um = [stack |-> <<>>, panic |-> ""]
    /\ IF scene = "inputs" THEN R!ReentryInit ELSE sys = NoInputs
    /\ IF scene = "jobs" THEN J!RecoveryInit ELSE jobs = "off" /\ rc = "off"
    /\ IF scene = "socket" THEN S!SocketInit ELSE sock = S!NewSocket(Plain)

MCNext ==
    \/ scene = "load" /\ L!UnitLoadStep /\ UNCHANGED <<scene, sys, jobs, rc, sock>>
    \/ scene = "inputs" /\ R!ReentryNext /\ UNCHANGED <<scene, um, jobs, rc, sock>>
    \/ scene = "jobs" /\ J!RecoveryNext /\ UNCHANGED <<scene, um, sys, sock>>
    \/ scene = "socket" /\ S!SocketStep /\ UNCHANGED <<scene, um, sys, jobs, rc>>

MCFairness == L!LoadGoesOn /\ R!ReentryFair /\ S!SocketFair

MCSpec == MCInit /\ [][MCNext]_vars /\ MCFairness

-----------------------------------------------------------------------------
\* The properties of the parts, each in its scene.

\* See UnitLoad: no assertion of loading and recovering fails, the database holds what
\* memory holds, no unit is left half loaded, every relation is one of known units, and
\* the default order of a target contradicts no other.
LoadSound ==
    scene = "load" => L!LoadNoPanic /\ L!Saved /\ L!RecoverLoads /\ L!DepsKnown /\ L!NoOrderLoop

\* See Reentry: no descriptor stays open that nobody knows of.
NoFdLeak == scene = "inputs" => R!NoFdLeak

\* See Reentry: an exit, a message or a mount that came in reaches its unit, and once.
InputsKept == scene = "inputs" => R!InputsKept /\ R!NoneTwice /\ R!MountsFollow

\* See JobRecovery: the records hold the table, and what is read back is as sound as
\* what was written.
JobsRecovered == scene = "jobs" => J!JobsRecorded /\ J!RecoveredIsSound /\ J!CountsMatch

\* See Socket: state, ports and watches agree, the job manager is answered as it expects,
\* and no panic is possible but the known ones.
SocketSound == scene = "socket" => S!SocketCoherent /\ S!OnlyKnownPanics /\ S!SocketKeepsContract

\* See UnitLoad, Reentry and Socket: loading ends, zombies and messages are taken, and a
\* socket on its way comes to rest.
GoesOn == L!LoadEnds /\ R!InputsServed /\ S!SocketGoesOn

\* See JobRecovery: whenever a job is ready the event that runs it is enabled.
RecoveredIsArmed == scene = "jobs" => J!RecoveredIsArmed
=============================================================================
