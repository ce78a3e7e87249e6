--------------------------- MODULE JobTransaction ---------------------------
(***************************************************************************)
(* Transactions of the job engine (core/bin/job/transaction.rs,            *)
(* notify.rs): the jobs a request pulls in through the dependencies of its *)
(* unit, the check of the resulting stage against the table, and the jobs  *)
(* that fall with a failed one.                                            *)
(*                                                                         *)
(* A stage under construction is a record s: the kinds recorded for every  *)
(* unit and the error met so far ("Ok" when there is none).  env is what   *)
(* an operation reads of its surroundings: st, the state of every unit,    *)
(* and ord, the order in which the hash maps of the dependency table list  *)
(* the units.                                                              *)
(***************************************************************************)
EXTENDS JobTable, UnitRelation, SequencesExt

CONSTANTS Deps,              \* the declared triples <<source, relation, dest>>
          LoadState,         \* unit -> its load state
          Perpetual,         \* units that are never stopped
          OnFailureJobMode,  \* unit -> the mode its OnFailure jobs use
          OnSuccessJobMode   \* unit -> the mode its OnSuccess jobs use

\* The table of UnitDepData after UnitDepData::insert of all of Deps: both
\* directions, and no dependency of a unit on itself.
DepTable ==
    [u \in Unit |-> [r \in UnitRelations |->
        {o \in Unit \ {u} : \/ <<u, r, o>> \in Deps
                            \/ <<o, unit_relation_to_inverse(r), u>> \in Deps}]]

gets(u, r) == DepTable[u][r]

dep_gets_atom(u, atom) == UNION {gets(u, r) : r \in unit_relation_from_unique_atom(atom)}

dep_is_dep_atom_with(u, atom, o) == o \in dep_gets_atom(u, atom)

UnitLoadState == {"Stub", "Loaded", "NotFound", "Error", "Merged", "BadSetting", "Masked"}

ASSUME TransactionAssumption ==
    /\ Order = {p \in Unit \X Unit : dep_is_dep_atom_with(p[1], "Before", p[2])}
    /\ LoadState \in [Unit -> UnitLoadState]
    /\ Perpetual \subseteq Unit
    /\ OnFailureJobMode \in [Unit -> JobMode] /\ OnSuccessJobMode \in [Unit -> JobMode]

in_order(units, env) == SelectSeq(env.ord, LAMBDA o : o \in units)

-----------------------------------------------------------------------------
(* Expanding a request into a stage *)

NewStage == [kinds |-> [u \in Unit |-> {}], err |-> "Ok"]

is_load_complete(u) == LoadState[u] \notin {"Stub", "Merged"}

\* job_is_unit_applicable is consulted for Stop only.
trans_expand_check_input(u, kind) ==
    /\ is_load_complete(u)
    /\ kind # "Stop" => LoadState[u] = "Loaded"
    /\ kind = "Stop" => u \notin Perpetual

trans_is_expand(kind, new, mode) ==
    kind # "Nop" /\ new /\ mode \notin {"IgnoreDependencies", "IgnoreRequirements"}

\* What a job on a unit pulls in, in the order of the code; the error of an
\* ignored entry does not reach the caller.
expand_start_atoms ==
    << [atom |-> "PullInStart", kind |-> "Start", ignored |-> FALSE],
       [atom |-> "PullInStartIgnored", kind |-> "Start", ignored |-> TRUE],
       [atom |-> "PullInVerify", kind |-> "Verify", ignored |-> FALSE],
       [atom |-> "PullInStop", kind |-> "Stop", ignored |-> FALSE],
       [atom |-> "PullInStopIgnored", kind |-> "Stop", ignored |-> TRUE] >>

expand_stop_atoms(kind) ==
    << IF kind = "Stop"
       THEN [atom |-> "PropagateStop", kind |-> "Stop", ignored |-> FALSE]
       ELSE [atom |-> "PropagateRestart", kind |-> "TryRestart", ignored |-> FALSE] >>

expand_reload_atoms ==
    << [atom |-> "PropagatesReloadTo", kind |-> "TryReload", ignored |-> TRUE] >>

expand_atoms(kind) ==
    CASE kind = "Start" -> expand_start_atoms
      [] kind = "Stop" -> expand_stop_atoms(kind)
      [] kind = "Reload" -> expand_reload_atoms
      [] kind = "Restart" -> expand_start_atoms \o expand_stop_atoms(kind)
      [] OTHER -> <<>>

RECURSIVE job_trans_expand(_, _, _, _, _)

expand_pull(s, u, pull, mode, env) ==
    FoldLeft(LAMBDA acc, o :
                IF acc.err # "Ok" THEN acc
                ELSE LET r == job_trans_expand(acc, o, pull.kind, mode, env)
                     IN  IF pull.ignored THEN [r EXCEPT !.err = "Ok"] ELSE r,
             s, in_order(dep_gets_atom(u, pull.atom), env))

\* A recorded job stays in the stage when what it pulls in fails.
job_trans_expand(s, u, kind, mode, env) ==
    IF ~trans_expand_check_input(u, kind)
    THEN [s EXCEPT !.err = "Input"]
    ELSE LET k   == job_merge_unit(kind, env.st[u])
             s1  == [s EXCEPT !.kinds[u] = @ \cup {k}]
         IN  IF trans_is_expand(k, k \notin s.kinds[u], mode)
             THEN FoldLeft(LAMBDA acc, pull : expand_pull(acc, u, pull, mode, env),
                           s1, expand_atoms(k))
             ELSE s1

\* is_unit_empty (table.rs) answers whether the stage has an entry for u.
is_unit_empty(s, u) == s.kinds[u] # {}

stop_ignored(s, o, mode, env) ==
    [job_trans_expand(s, o, "Stop", mode, env) EXCEPT !.err = "Ok"]

trans_affect_isolate(s, mode, env) ==
    FoldLeft(LAMBDA acc, o :
                IF o \in IgnoreOnIsolate \/ ~is_unit_empty(acc, o) THEN acc
                ELSE stop_ignored(acc, o, mode, env),
             s, env.ord)

trans_affect_trigger(s, u, mode, env) ==
    FoldLeft(LAMBDA acc, o :
                IF ~is_unit_empty(acc, u) THEN acc ELSE stop_ignored(acc, o, mode, env),
             s, in_order(dep_gets_atom(u, "TriggeredBy"), env))

job_trans_affect(s, u, mode, env) ==
    CASE s.err # "Ok" -> s
      [] mode = "Isolate" -> trans_affect_isolate(s, mode, env)
      [] mode = "Trigger" -> trans_affect_trigger(s, u, mode, env)
      [] OTHER -> s

-----------------------------------------------------------------------------
(* The jobs that fall with a failed one *)

\* trans_fallback ends the triggered Start or Verify of a dependent unit and
\* removes its suspended ones.
is_fallback(t, o) ==
    \/ t[o].trigger.rkind \in {"Start", "Verify"}
    \/ t[o].suspends \cap {"Start", "Verify"} # {}

trans_fallback_suspends(t, o) == t_remove_suspends(t, o)

trans_fallback(t, o) ==
    t_remove_suspends(IF t[o].trigger.rkind \in {"Start", "Verify"}
                      THEN t_finish_trigger(t, o, "Dependency") ELSE t, o)

trans_fallback_atom(rkind) ==
    CASE rkind \in {"Start", "Verify"} -> "PropagateStartFailure"
      [] rkind = "Stop" -> "PropagateStopFailure"
      [] OTHER -> "none"

fallback_from(u, rkind) ==
    IF trans_fallback_atom(rkind) = "none" THEN {}
    ELSE dep_gets_atom(u, trans_fallback_atom(rkind))

\* trans_fallback_body recurses from every job it deletes, and each of those
\* is a Start or a Verify.
RECURSIVE fallback_closure(_, _)

fallback_closure(t, units) ==
    LET next == units \cup {o \in UNION {fallback_from(d, "Start") : d \in units} : is_fallback(t, o)}
    IN  IF next = units THEN units ELSE fallback_closure(t, next)

fallback_units(t, u, rkind) ==
    fallback_closure(t, {o \in fallback_from(u, rkind) : is_fallback(t, o)})

RECURSIVE fallback_each(_, _)

fallback_each(t, units) ==
    IF units = <<>> THEN t ELSE fallback_each(trans_fallback(t, Head(units)), Tail(units))

job_trans_fallback(t, u, rkind, env) ==
    fallback_each(t, in_order(fallback_units(t, u, rkind), env))

-----------------------------------------------------------------------------
(* The jobs other units get when a unit changes without a job (notify.rs), *)
(* as a sequence of requests *)

NotifyTarget(units, kind, mode, env) ==
    [i \in DOMAIN in_order(units, env) |->
        [unit |-> in_order(units, env)[i], kind |-> kind, mode |-> mode]]

not_after(u, atom) == dep_gets_atom(u, atom) \ dep_gets_atom(u, "After")

notify_event_start_pull(u, env) ==
    NotifyTarget(not_after(u, "RetroActiveStartReplace"), "Start", "Replace", env)
        \o NotifyTarget(not_after(u, "RetroActiveStartFail"), "Start", "Fail", env)

notify_event_start(u, env) ==
    NotifyTarget(not_after(u, "RetroActiveStartReplace"), "Start", "Replace", env)
        \o NotifyTarget(not_after(u, "RetroActiveStartFail"), "Start", "Fail", env)
        \o NotifyTarget(dep_gets_atom(u, "RetroActiveStopOnStart"), "Stop", "Replace", env)

notify_event_stop(u, env) ==
    NotifyTarget(dep_gets_atom(u, "RetroActiveStopOnStop"), "Stop", "Replace", env)

job_notify_result(u, atom, mode, env) ==
    NotifyTarget(dep_gets_atom(u, atom), "Start", mode, env)
=============================================================================
