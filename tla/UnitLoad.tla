------------------------------ MODULE UnitLoad ------------------------------
(***************************************************************************)
(* Loading units, and recovering what was loaded (core/bin/unit: uload,    *)
(* runtime, datastore, entry; core/bin/manager; the load of coms).         *)
(* The record um holds                                                     *)
(*                                                                         *)
(*   file      what is on disk for a unit: its type, the files found along *)
(*             the search path (frags, with the relations they name and    *)
(*             DefaultDependencies), the links in its .wants and .requires *)
(*             directories, the relations its type adds (extra, in order,  *)
(*             with whether the load fails without), and whether its       *)
(*             settings are accepted (ok)                                  *)
(*   units, load, conf   the units in memory, their load state and file    *)
(*   load_queue, target_dep_queue, deps   of UnitRT and UnitDep            *)
(*   r         what Reliability keeps                                      *)
(*   stack, ret   the calls that are going on, and what the last returned  *)
(*   panic     why sysmaster has panicked, "" as long as it has not        *)
(*   scene     what clients and administrators do, and how often each of   *)
(*             edits, crashes and reloads may still happen; lost are the   *)
(*             units whose load a crash ended and the last words left out, *)
(*             edited those whose file has changed, reloaded is whether    *)
(*             this process has reloaded, and reread are those of both     *)
(*             that it has read again then                                 *)
(*                                                                         *)
(* Loading is re-entrant: a unit that is being loaded adds relations to    *)
(* others, and asking for another dispatches the queue again.  A frame of  *)
(* the stack is a call that is not finished.  A step ends where something  *)
(* is written to disk, so that sysmaster may crash between any two.        *)
(***************************************************************************)
EXTENDS Reliability, UnitRelation, FiniteSets, SequencesExt

\* Records of: files (those there may be, each from units to records), asked (the units
\* that clients start), target (the default target), and the bounds edits, crashes, reloads
\* (lost, edited and reread are {}, reloaded is FALSE).
CONSTANT LoadScenes

VARIABLE um

NoConf == [default |-> FALSE, deps |-> {}]

NewManager(scene, file, r) ==
    [scene |-> scene, file |-> file, units |-> {}, load |-> NoRow, conf |-> NoRow, load_queue |-> <<>>,
     target_dep_queue |-> <<>>, deps |-> {}, r |-> r, stack |-> <<>>, ret |-> "Ok", panic |-> ""]

assert(m, holds, why) == IF m.panic = "" /\ ~holds THEN [m EXCEPT !.panic = why] ELSE m

call(m, frames) == [m EXCEPT !.stack = frames \o Tail(@)]
return(m, ret) == [m EXCEPT !.stack = Tail(@), !.ret = ret]
Frame(op, u) == [op |-> op, u |-> u, todo |-> <<>>]

-----------------------------------------------------------------------------
\* A unit and what it saves (entry/base.rs, load.rs, config.rs, rentry.rs)

\* Every table but the base asserts that the unit is in the base.
save(m, table, u, v) ==
    [assert(m, contains_key(m.r, <<"base", u>>), "base") EXCEPT !.r = insert(@, <<table, u>>, v)]

pps_get(m, u) == get(m.r, <<"pps", u>>, {})
pps_set(m, u, queue) == save(m, "pps", u, pps_get(m, u) \cup {queue})
pps_clear(m, u, queue) == save(m, "pps", u, pps_get(m, u) \ {queue})

set_load_state(m, u, state) == save([m EXCEPT !.load[u] = state], "load", u, state)

\* UnitX::new
new_unit(m, u) ==
    LET base == [m EXCEPT !.r = insert(@, <<"base", u>>, m.file[u].type),
                          !.load = (u :> "Stub") @@ @, !.conf = (u :> NoConf) @@ @]
    IN  save(save(save(base, "pps", u, {}), "conf", u, NoConf), "load", u, "Stub")

set_in_load_queue(m, u, t) == IF t THEN pps_set(m, u, "Load") ELSE pps_clear(m, u, "Load")
set_in_target_dep_queue(m, u, t) ==
    IF t THEN pps_set(m, u, "TargetDeps") ELSE pps_clear(m, u, "TargetDeps")

default_dependencies(m, u) == m.conf[u].default

-----------------------------------------------------------------------------
\* Relations (datastore/deps.rs)

DepsOf(deps, u) == {d \in deps : d[1] = u}

dep_save(m, u) == save(m, "dep", u, DepsOf(m.deps, u))

TwoWays(s, relation, d) == {<<s, relation, d>>, <<d, unit_relation_to_inverse(relation), s>>}

dep_insert(m, s, relation, d) ==
    IF s = d THEN m
    ELSE dep_save(dep_save([m EXCEPT !.deps = @ \cup TwoWays(s, relation, d)
                                                \cup TwoWays(s, "References", d)], s), d)

dep_gets_atom(m, u, atom) ==
    {d[3] : d \in {e \in DepsOf(m.deps, u) : e[2] \in unit_relation_from_unique_atom(atom)}}

dep_is_dep_atom_with(m, u, atom, v) == v \in dep_gets_atom(m, u, atom)

InAnyOrder(s, Op(_, _), Over) == FoldLeft(Op, s, SetToSeq(Over))

\* The subscriber of the table of units takes the relations away.
unit_remove(m, u) ==
    LET others == {d[3] : d \in DepsOf(m.deps, u)}
        gone == [m EXCEPT !.units = @ \ {u}, !.deps = {d \in @ : u \notin {d[1], d[3]}}]
    IN  IF u \notin m.units THEN m
        ELSE IF others = {} THEN gone
        ELSE InAnyOrder(dep_save(gone, u), dep_save, others)

-----------------------------------------------------------------------------
\* The queues (runtime.rs)

push_load_queue(m, u) ==
    IF u \in ToSet(m.load_queue) THEN m
    ELSE [set_in_load_queue(m, u, TRUE) EXCEPT !.load_queue = Append(@, u)]

push_target_dep_queue(m, u) ==
    IF u \in ToSet(m.target_dep_queue) THEN m
    ELSE [set_in_target_dep_queue(m, u, TRUE) EXCEPT !.target_dep_queue = Append(@, u)]

is_default_after(m, u, d) ==
    /\ m.file[d].type = "target" /\ m.load[u] = "Loaded" /\ m.load[d] = "Loaded"
    /\ default_dependencies(m, u) /\ default_dependencies(m, d)
    /\ ~dep_is_dep_atom_with(m, d, "Before", u)

\* At the first relation that needs nothing the others are left.
dispatch_target_dep_unit(m, u, order) ==
    LET first == SelectInSeq(order, LAMBDA d : ~is_default_after(m, u, d))
        served == IF first = 0 THEN order ELSE SubSeq(order, 1, first - 1)
    IN  FoldLeft(LAMBDA x, d : dep_insert(x, d, "After", u),
                 set_in_target_dep_queue(m, u, FALSE), served)

-----------------------------------------------------------------------------
\* Asking for a unit (uload.rs)

\* A name without a known type gives no unit.
try_new_unit(m, u) == m.file[u].type # "invalid"

prepare_unit(m, u) ==
    IF u \in m.units /\ m.load[u] # "NotFound" THEN m
    ELSE IF u \in m.units THEN push_load_queue(m, u)
    ELSE push_load_queue([new_unit(m, u) EXCEPT !.units = @ \cup {u}], u)

push_dep_unit_into_load_queue(m, u) == IF u \in m.units THEN m ELSE prepare_unit(m, u)

load_unit(m) ==
    LET u == Head(m.stack).u
    IN  IF u \notin m.units /\ ~try_new_unit(m, u) THEN return(m, "None")
        ELSE call(prepare_unit(m, u), <<Frame("Dispatch", u)>>)

\* The relations of a file are those of a hash map, in any order; at the first name
\* that gives no unit the others are left.
insert_udconf(m, u, order) ==
    LET first == SelectInSeq(order, LAMBDA d : d[2] \notin m.units /\ ~try_new_unit(m, d[2]))
        known == IF first = 0 THEN order ELSE SubSeq(order, 1, first - 1)
    IN  FoldLeft(LAMBDA x, d : dep_insert(push_dep_unit_into_load_queue(x, d[2]), u, d[1], d[2]),
                 m, known)

-----------------------------------------------------------------------------
\* Loading one unit (uentry.rs, and load of the sub units)

\* Of every setting the first file along the search path counts.
first_with(f, Has(_)) == SelectInSeq(f.frags, Has)

load_fragment_and_dropin(f) ==
    LET default == first_with(f, LAMBDA g : g.default # "")
        named == {g \in UNION {f.frags[i].deps : i \in DOMAIN f.frags} :
                    g \in f.frags[first_with(f, LAMBDA h : \E d \in h.deps : d[1] = g[1])].deps}
        linked(rel, names) == {<<r, n>> : r \in {rel, "After"}, n \in names}
    IN  [default |-> default = 0 \/ f.frags[default].default = "yes",
         deps |-> named \cup linked("Wants", f.wants) \cup linked("Requires", f.requires)]

\* What a type adds when its configuration is read: of a target, an After for every
\* unit it pulls in; of the others, what they name and their default relations.
sub_load(m, u) ==
    LET f == m.file[u]
        default == default_dependencies(m, u)
        after(order) == [i \in DOMAIN order |-> [rel |-> "After", name |-> order[i], must |-> FALSE]]
        pulls == dep_gets_atom(m, u, "AddDefaultTargetDependencyQueue")
        todo == IF f.type # "target" THEN {SelectSeq(f.extra, LAMBDA e : default \/ ~e.must)}
                ELSE IF default THEN {after(order) : order \in SetToSeqs(pulls)}
                ELSE {<<>>}
    IN  {call(m, <<[op |-> "Sub", u |-> u, todo |-> t]>>) : t \in todo}

load_unit_confs(m, u) ==
    LET conf == load_fragment_and_dropin(m.file[u])
        read == save([m EXCEPT !.conf[u] = conf], "conf", u, conf)
    IN  {insert_udconf(read, u, order) : order \in SetToSeqs(conf.deps)}

load(m) ==
    LET u == Head(m.stack).u
        out == set_in_load_queue(m, u, FALSE)
    IN  IF m.file[u].type = "mount" THEN {return(set_load_state(out, u, "Loaded"), "Ok")}
        ELSE IF m.file[u].frags = <<>> THEN {return(set_load_state(out, u, "NotFound"), "Err")}
        ELSE UNION {sub_load(x, u) : x \in load_unit_confs(out, u)}

\* The next relation of a type.  A target passes over a unit that wants no default
\* relations and over one it is to come before, to create no loop.
sub_next(m) ==
    LET f == Head(m.stack)
        u == f.u
        next == Head(f.todo)
        is_target == m.file[u].type = "target"
        passed == [f EXCEPT !.todo = Tail(@)]
        skip == is_target /\ (\/ next.name \notin m.units
                              \/ ~default_dependencies(m, next.name)
                              \/ dep_is_dep_atom_with(m, u, "Before", next.name))
    IN  IF f.todo = <<>>
        THEN IF m.file[u].ok THEN return(set_load_state(m, u, "Loaded"), "Ok") ELSE return(m, "Err")
        ELSE IF skip THEN call(m, <<passed>>)
        ELSE call(m, <<Frame("Ask", u), Frame("Ask", next.name), [f EXCEPT !.op = "Insert"]>>)

\* unit_add_dependency, after both units have been asked for.
unit_add_dependency(m) ==
    LET f == Head(m.stack)
        next == Head(f.todo)
        is_target == m.file[f.u].type = "target"
        passed == [f EXCEPT !.op = "Sub", !.todo = Tail(@)]
    IN  IF m.ret # "None" THEN call(dep_insert(m, f.u, next.rel, next.name), <<passed>>)
        ELSE IF is_target THEN call(m, <<[f EXCEPT !.op = "Sub", !.todo = <<>>]>>)
        ELSE IF next.must THEN return(m, "Err")
        ELSE call(m, <<passed>>)

-----------------------------------------------------------------------------
\* dispatch_load_queue.  Every frame is followed by what is still to be done.

last_frame_set(m, frame, next) ==
    call([m EXCEPT !.r = set_last_frame(@, frame)], next)

load_queue_next(m) ==
    IF m.load_queue = <<>>
    THEN call([m EXCEPT !.r = commit(@)], <<Frame("ClearFrame", ""), Frame("Targets", "")>>)
    ELSE LET u == Head(m.load_queue)
         IN  call([m EXCEPT !.load_queue = Tail(@), !.r = set_last_unit(@, u)],
                  <<Frame("Load", u), Frame("Popped", u), Frame("Loop", "")>>)

\* A unit that cannot be loaded is forgotten.
load_queue_popped(m) ==
    LET u == Head(m.stack).u
        done == IF m.ret # "Ok" THEN unit_remove(m, u)
                ELSE IF m.load[u] = "Loaded" THEN push_target_dep_queue(m, u)
                ELSE m
    IN  call([done EXCEPT !.r = commit(@)], <<Frame("ClearUnit", "")>>)

dispatch_target_dep_queue(m) ==
    IF m.target_dep_queue = <<>>
    THEN call([m EXCEPT !.r = commit(@), !.ret = "Ok"], <<Frame("ClearFrame", "")>>)
    ELSE LET u == Head(m.target_dep_queue)
         IN  call([m EXCEPT !.target_dep_queue = Tail(@), !.r = set_last_unit(@, u)],
                  <<Frame("TargetDep", u), Frame("ClearUnit", ""), Frame("TargetLoop", "")>>)

target_dep(m) ==
    LET u == Head(m.stack).u
        pulled == dep_gets_atom(m, u, "DefaultTargetDependencies")
    IN  {[return(dispatch_target_dep_unit(m, u, order), "Ok") EXCEPT !.r = commit(@)] :
            order \in SetToSeqs(pulled)}

-----------------------------------------------------------------------------
\* Recovery (api.rs, runtime.rs, unit/manager.rs)

\* The last words: a unit that was being loaded is loaded again once the rest is
\* mapped, so that it is not queued as well.
db_compensate(m, reload) ==
    LET frame == last_frame(m.r)
        is_queue == frame \in {"Load", "TargetDeps"} /\ m.r.unit # ""
        told == IF is_queue /\ frame \in pps_get(m, m.r.unit)
                THEN pps_clear(m, m.r.unit, frame) ELSE m
    IN  call([told EXCEPT !.r = commit(@)], <<Frame("Map", reload)>>)

saved(m, table, u, default) == get(m.r, <<table, u>>, default)

\* What every unit has saved, with the queues in any order.
db_map(m) ==
    LET r == m.r
        units == keys(r, "base")
        deps == UNION {r.cache[<<"dep", u>>] : u \in keys(r, "dep")}
        all == deps \cup {<<d[3], unit_relation_to_inverse(d[2]), d[1]>> : d \in deps}
        mapped == [m EXCEPT !.units = units, !.load = [u \in units |-> saved(m, "load", u, "Stub")],
                            !.conf = [u \in units |-> saved(m, "conf", u, NoConf)], !.deps = all]
        known == assert(mapped, keys(r, "pps") \cup keys(r, "dep") \cup {d[3] : d \in deps}
                                  \subseteq units, "unwrap")
        queued(q) == SetToSeqs({u \in keys(r, "pps") : q \in pps_get(m, u)})
    IN  {call([known EXCEPT !.load_queue = lq, !.target_dep_queue = tq], <<Frame("Consistent", "")>>) :
            lq \in queued("Load"), tq \in queued("TargetDeps")}

\* A mistake: what was in work is left as it was found.
make_consistent_mapped(m) == call(m, <<Frame("Recovered", "")>>)

\* do_compensate_last: what was in work is done again, the outcome is not looked at.
make_consistent(m) ==
    LET frame == last_frame(m.r)
        u == m.r.unit
        redo == IF u \notin m.units THEN <<>>
                ELSE IF frame = "Load" THEN <<Frame("Load", u)>>
                ELSE IF frame = "TargetDeps" THEN <<Frame("TargetDep", u)>>
                ELSE <<>>
    IN  call(m, redo \o <<Frame("Recovered", "")>>)

\* The units are loaded again one by one.  Nothing they save is kept.
db_map_reload(m) ==
    {call([m EXCEPT !.r = ignore_set(@, TRUE)],
          [i \in DOMAIN order |-> Frame("Ask", order[i])] \o <<Frame("Mapped", "")>>) :
        order \in SetToSeqs(keys(m.r, "base"))}

\* The manager (manager/mod.rs): a process starts, recovers or starts the default
\* target, and waits for events.
entry_clear(m) ==
    [m EXCEPT !.units = {}, !.load_queue = <<>>, !.target_dep_queue = <<>>, !.deps = {}]

recover(m, reload) ==
    call([m EXCEPT !.r = import(last_ignore_set(@, TRUE))], <<Frame("Compensate", reload)>>)

Rloop == <<Frame("Dispatch", ""), Frame("Wait", "")>>

startup(m) ==
    IF m.r.enable
    THEN [m EXCEPT !.stack = <<Frame("Recover", "")>> \o <<Frame("EndFrame", "")>> \o Rloop]
    ELSE [m EXCEPT !.stack = <<Frame("ManagerOp", ""), Frame("Ask", m.scene.target), Frame("EndFrame", ""),
                               Frame("SetRestore", ""), Frame("EndFrame", "")>> \o Rloop]

\* The steps of a call, by the frame on top of the stack.
Steps(m) ==
    LET f == Head(m.stack)
        with(r, next) == {call([m EXCEPT !.r = r], next)}
    IN  CASE f.op = "Ask" -> {load_unit(m)}
          [] f.op = "Dispatch" -> {last_frame_set(m, "Load", <<Frame("Loop", "")>>)}
          [] f.op = "Loop" -> {load_queue_next(m)}
          [] f.op = "Load" -> load(m)
          [] f.op = "Sub" -> {sub_next(m)}
          [] f.op = "Insert" -> {unit_add_dependency(m)}
          [] f.op = "Popped" -> {load_queue_popped(m)}
          [] f.op = "ClearUnit" -> with(clear_unit(m.r), <<>>)
          [] f.op = "Targets" -> {last_frame_set(m, "TargetDeps", <<Frame("TargetLoop", "")>>)}
          [] f.op = "TargetLoop" -> {dispatch_target_dep_queue(m)}
          [] f.op = "TargetDep" -> target_dep(m)
          [] f.op = "EndFrame" -> with(commit(m.r), <<Frame("ClearFrame", "")>>)
          [] f.op = "ClearFrame" -> with(clear_frame(m.r), <<>>)
          [] f.op = "Wait" -> {last_frame_set(m, "OtherEvent", <<>>)}
          [] f.op = "ManagerOp" -> {last_frame_set(m, "ManagerOp", <<>>)}
          [] f.op = "SetRestore" -> with(set_enable(m.r, TRUE), <<>>)
          [] f.op = "Recover" -> {recover(m, f.u)}
          [] f.op = "Clear" -> {call(entry_clear(m), <<Frame("Recover", "reload")>>)}
          [] f.op = "Compensate" -> {db_compensate(m, f.u)}
          [] f.op = "Map" -> IF f.u = "reload" THEN db_map_reload(m) ELSE db_map(m)
          [] f.op = "Mapped" -> with(ignore_set(m.r, FALSE), <<Frame("Consistent", "")>>)
          [] f.op = "Consistent" -> {make_consistent(m)}
          [] f.op = "Recovered" -> with(last_ignore_set(commit(m.r), FALSE),
                                        <<Frame("ClearUnit", ""), Frame("ClearFrame", "")>>)

-----------------------------------------------------------------------------
UnitLoadInit ==
    um \in UNION {{startup(NewManager(scene, file, NewReliability)) : file \in scene.files} : scene \in LoadScenes}

is_waiting == um.stack = <<>>

Step == ~is_waiting /\ um.panic = "" /\ um' \in Steps(um)

\* A client asks for a unit; the command is an event of the loop.
Request(u) ==
    /\ is_waiting /\ um.panic = ""
    /\ um' = [um EXCEPT !.r = set_last_frame(@, "CmdOp"),
                        !.stack = <<Frame("Ask", u), Frame("EndFrame", ""), Frame("EndFrame", "")>> \o Rloop]

DaemonReload ==
    /\ is_waiting /\ um.panic = "" /\ um.scene.reloads > 0
    /\ um' = [um EXCEPT !.scene.reloads = @ - 1, !.scene.reloaded = TRUE,
                        !.scene.reread = um.scene.edited \cup um.scene.lost,
                        !.stack = <<Frame("EndFrame", ""), Frame("Clear", ""), Frame("EndFrame", "")>> \o Rloop]

\* The units in the middle of their load that the last words do not name: a unit asks for
\* others while it is loaded, and the inner dispatch overwrites what they say.
unsaid(m) ==
    {f.u : f \in {f \in ToSet(m.stack) : f.op = "Popped"}}
        \ (IF last_frame(m.r) = "Load" THEN {m.r.unit} ELSE {})

\* The process ends, and another one takes its place.
Crash ==
    /\ um.panic = "" /\ um.scene.crashes > 0
    /\ um' = startup(NewManager([um.scene EXCEPT !.crashes = @ - 1, !.lost = @ \cup unsaid(um), !.reloaded = FALSE,
                                                 !.reread = {}],
                                um.file, inherit(um.r)))

EditFiles(file) ==
    /\ is_waiting /\ um.panic = "" /\ um.scene.edits > 0 /\ um.file # file
    /\ um' = [um EXCEPT !.file = file, !.scene.edits = @ - 1,
                        !.scene.edited = @ \cup {u \in DOMAIN file : file[u] # um.file[u]}]

UnitLoadStep ==
    \/ Step
    \/ \E u \in um.scene.asked : Request(u)
    \/ DaemonReload
    \/ Crash
    \/ \E file \in um.scene.files : EditFiles(file)

\* Weak fairness of Step, which is enabled until the loop waits.
LoadGoesOn == []<>(is_waiting \/ um.panic # "") \/ []<><<Step>>_um

UnitLoadSpec == UnitLoadInit /\ [][UnitLoadStep]_um /\ LoadGoesOn

-----------------------------------------------------------------------------
\* Properties

at_rest == is_waiting /\ um.panic = ""

\* The order a target gets by default never contradicts one that was asked for: no unit
\* is both before and after another, in whatever order the two are loaded.
NoOrderLoop ==
    at_rest => \A t, u \in um.units :
        ~(<<t, "Before", u>> \in um.deps /\ <<t, "After", u>> \in um.deps)

NamesOf(f) == {d[2] : d \in load_fragment_and_dropin(f).deps} \cup {f.extra[i].name : i \in DOMAIN f.extra}

\* None of the assertions and unwraps of loading and recovering fails, but for one: a
\* reload drops what it saves (db_map of rel/api.rs), the base of a new unit too, so that a
\* file which has been edited to name a unit that was not there before makes the reload
\* fail at an assertion of rentry.rs.
LoadNoPanic ==
    um.panic # "" =>
        /\ um.panic = "base"
        /\ \E u \in um.scene.reread : \E n \in NamesOf(um.file[u]) : ~contains_key(um.r, <<"base", n>>)

\* Relations to the given units; after a reload, without the order.
Among(deps, units) ==
    {d \in deps : d[3] \in units /\ (um.scene.reloaded => d[2] \notin {"Before", "After"})}

\* Whenever the loop waits, the database holds what memory holds, so that a process that
\* is killed then comes back as it was: the units, their load state and settings, no
\* unit in a queue, and the relations of every unit.  A reload saves nothing.  What it has
\* read of an edited file, or of one that a crash had left half loaded, is in memory only,
\* and a crash brings back what was saved before.  So is the order it gives targets by
\* default: dispatch_target_dep_unit leaves the rest at the first relation that needs
\* none, so that it depends on the order of a hash map, and may differ from the one saved.
Saved ==
    at_rest => \A u \in um.units :
        LET known == um.units \ um.scene.reread
            deps == Among(DepsOf(um.deps, u), known)
        IN  /\ <<"base", u>> \in DOMAIN um.r.db
            /\ um.r.db[<<"pps", u>>] = {}
            /\ u \in known => /\ um.r.db[<<"load", u>>] = um.load[u]
                              /\ um.r.db[<<"conf", u>>] = um.conf[u]
                              /\ deps # {} => Among(um.r.db[<<"dep", u>>], known) = deps

\* Files that are there and whose load gives an error.
is_refused(u) ==
    LET f == um.file[u]
    IN  ~f.ok \/ \E i \in DOMAIN f.extra : f.extra[i].must /\ ~try_new_unit(um, f.extra[i].name)

\* A crash in the middle of a load leaves no unit half loaded: the unit in work is loaded
\* again and the others are still queued.  Of loads inside each other only the innermost
\* is in the last words: the units of the outer ones stay behind, and no other.  (A unit
\* whose load gives an error is forgotten, but unit_remove leaves its rows: after a crash
\* it is there again, not loaded.)
RecoverLoads ==
    at_rest => \A u \in um.units : um.load[u] = "Stub" => u \in um.scene.lost \/ is_refused(u)

\* A relation is one between two units that exist.
DepsKnown == at_rest => \A d \in um.deps : {d[1], d[3]} \subseteq um.units

\* Loading ends, though units ask for each other while they are loaded and a load
\* dispatches the queue again (dispatch_load_queue).
LoadEnds == []<>(is_waiting \/ um.panic # "")
=============================================================================
