------------------------------ MODULE Condition ------------------------------
(***************************************************************************)
(* What a unit file asks of the system before the unit is started:         *)
(* Condition...= and Assert...= (libs/basic/condition.rs,                  *)
(* core/bin/unit/entry/condition.rs and uentry.rs).  The answers depend on *)
(* the system, which changes while the unit is started, stopped and        *)
(* started again.                                                          *)
(*                                                                         *)
(* A string is a sequence of tokens.  A path has a record of what stat,    *)
(* readdir and statx say of it.  A mode is the set of its bits.            *)
(***************************************************************************)
EXTENDS Naturals, Sequences, SequencesExt

CONSTANTS
    Configs,    \* the unit files: functions from keys to strings
    Worlds,     \* the states of the system
    MaxStarts   \* bound on the starts that are tried

VARIABLE unit

NoValue == <<>>

\* The order in which conditions() adds what the unit file configures.
ConditionKeys ==
    << "ACPower", "Capability", "DirectoryNotEmpty", "FileIsExecutable", "FileNotEmpty",
       "FirstBoot", "KernelCommandLine", "NeedsUpdate", "PathExists", "PathExistsGlob",
       "PathIsDirectory", "PathIsMountPoint", "PathIsReadWrite", "PathIsSymbolicLink",
       "Security", "User" >>

\* AssertPathExists is the only assertion that a unit file can configure.
AssertKeys == << "AssertPathExists" >>

(***************************************************************************)
(* One condition: the tests.  w is the state of the system.                *)
(***************************************************************************)
Missing == [kind |-> "none", link |-> FALSE, full |-> FALSE, mode |-> {}, mount |-> FALSE, ro |-> FALSE]

stat(w, p) == IF p \in DOMAIN w.path THEN w.path[p] ELSE Missing

\* Supplies of type Mains that say "1" or "0"; without any the answer is yes.
on_ac_power(w) == "online" \in w.mains \/ "offline" \notin w.mains

test_ac_power(w, p) == (p = <<"true">>) <=> on_ac_power(w)

test_capability(w, p) == p \in w.caps

test_directory_not_empty(w, p) == stat(w, p).kind = "dir" /\ stat(w, p).full

\* st_mode & 111, a decimal number: bits 0, 1, 2, 3, 5 and 6.
test_file_is_executable(w, p) ==
    stat(w, p).kind = "file" /\ stat(w, p).mode \cap {0, 1, 2, 3, 5, 6} # {}

test_file_not_empty(w, p) == stat(w, p).kind = "file" /\ stat(w, p).full

\* The option is read as a Boolean; a value that does not parse is an error, and
\* only "true" has an effect.
proc_cmdline_get_bool(w) == w.first_boot_option

test_first_boot(w, p) ==
    \/ proc_cmdline_get_bool(w) = "true"
    \/ (p = <<"true">>) <=> w.first_boot

\* The first word that starts with the item.
cmdline_get_item(w, item) ==
    LET found == {i \in DOMAIN w.cmdline : IsPrefix(item, w.cmdline[i])}
    IN  IF found = {} THEN NoValue
        ELSE w.cmdline[CHOOSE i \in found : \A j \in found : i <= j]

test_kernel_command_line(w, p) ==
    LET has_equal == \E i \in DOMAIN p : p[i] = "="
        search_value == IF has_equal
                        THEN SubSeq(p, 1, (CHOOSE i \in DOMAIN p : p[i] = "=" /\ \A j \in 1..(i - 1) : p[j] # "=") - 1)
                        ELSE p
        value == cmdline_get_item(w, search_value)
    IN  value # NoValue /\ (has_equal => p = value)

test_needs_update(w, p) == FALSE

test_path_exists(w, p) == stat(w, p).kind # "none"

\* A pattern is its prefix: the token "*" at the end stands for anything.
test_path_exists_glob(w, p) ==
    \E q \in DOMAIN w.path :
        /\ w.path[q].kind # "none" \/ w.path[q].link
        /\ IF p # <<>> /\ Last(p) = "*" THEN IsPrefix(Front(p), q) ELSE p = q

test_path_is_directory(w, p) == stat(w, p).kind = "dir"

test_path_is_mount_point(w, p) == p = <<"/">> \/ stat(w, p).mount

test_path_is_read_write(w, p) == stat(w, p).kind # "none" /\ ~stat(w, p).ro

test_path_is_symbolic_link(w, p) == stat(w, p).link

test_security(w, p) == p \in w.security

\* A number, "@system" or a name, of the real or the effective user.
test_user(w, p) ==
    CASE p \in DOMAIN w.uids -> w.uids[p] \in {w.uid, w.euid}
      [] p = <<"@system">> -> w.uid <= 999 \/ w.euid <= 999
      [] OTHER -> p \in DOMAIN w.names /\ w.names[p] \in {w.uid, w.euid}

test_type(w, type, p) ==
    CASE type = "ACPower" -> test_ac_power(w, p)
      [] type = "Capability" -> test_capability(w, p)
      [] type = "DirectoryNotEmpty" -> test_directory_not_empty(w, p)
      [] type = "FileIsExecutable" -> test_file_is_executable(w, p)
      [] type = "FileNotEmpty" -> test_file_not_empty(w, p)
      [] type = "FirstBoot" -> test_first_boot(w, p)
      [] type = "KernelCommandLine" -> test_kernel_command_line(w, p)
      [] type = "NeedsUpdate" -> test_needs_update(w, p)
      [] type \in {"PathExists", "AssertPathExists"} -> test_path_exists(w, p)
      [] type = "PathExistsGlob" -> test_path_exists_glob(w, p)
      [] type = "PathIsDirectory" -> test_path_is_directory(w, p)
      [] type = "PathIsMountPoint" -> test_path_is_mount_point(w, p)
      [] type = "PathIsReadWrite" -> test_path_is_read_write(w, p)
      [] type = "PathIsSymbolicLink" -> test_path_is_symbolic_link(w, p)
      [] type = "Security" -> test_security(w, p)
      [] type = "User" -> test_user(w, p)

\* Condition::test: an empty parameter means that the condition is not set.
test(w, c) == c.params = NoValue \/ test_type(w, c.c_type, c.params) # c.revert

(***************************************************************************)
(* The conditions of a unit.                                               *)
(***************************************************************************)
strip_prefix(s, ch) == IF s # <<>> /\ Head(s) = ch THEN Tail(s) ELSE s

new_condition(type, s) ==
    LET rest == strip_prefix(s, "|")
    IN  [c_type |-> type, trigger |-> rest # s, revert |-> strip_prefix(rest, "!") # rest,
         params |-> strip_prefix(rest, "!")]

add_condition(list, type, s) == IF s = NoValue THEN list ELSE Append(list, new_condition(type, s))

\* A mistake: the last of the triggering conditions decides.
condition_vec_test_last(w, list) ==
    LET triggers == SelectSeq(list, LAMBDA c : c.trigger)
    IN  /\ \A i \in DOMAIN list : list[i].trigger \/ test(w, list[i])
        /\ triggers = <<>> \/ test(w, Last(triggers))

\* The loop keeps the result of the triggering conditions until one is true.
condition_vec_test(w, list) ==
    LET Seen == [flag |-> FALSE, ret |-> TRUE]
        Next_(acc, c) == IF c.trigger /\ ~acc.flag
                         THEN [flag |-> test(w, c), ret |-> test(w, c)] ELSE acc
    IN  /\ \A i \in DOMAIN list : list[i].trigger \/ test(w, list[i])
        /\ FoldLeft(Next_, Seen, list).ret

\* The flag init_flag is never set, so that each call adds all of them again.
conditions(u) ==
    LET add(keys, list) == FoldLeft(LAMBDA acc, k : add_condition(acc, k, u.config[k]), list, keys)
    IN  [u EXCEPT !.conditions = add(ConditionKeys, @), !.asserts = add(AssertKeys, @)]

(***************************************************************************)
(* Unit::start up to the call of the unit's own start: the checks in their *)
(* order.  A start goes on when every one of them passes.                  *)
(***************************************************************************)
answer(u, a) == [u EXCEPT !.answer = a]

start(u, w) ==
    LET known == conditions(u)
        again == conditions(known)
    IN  CASE u.active \in {"Active", "Reloading"} -> answer(u, "EAlready")
          [] u.active = "Maintenance" -> answer(u, "EAgain")
          [] u.load_state # "Loaded" -> answer(u, "EInval")
          [] u.active = "Activating" -> answer(u, "go on")
          [] ~condition_vec_test(w, known.conditions) -> answer(known, "condition")
          [] ~condition_vec_test(w, again.asserts) -> answer(again, "assert")
          [] OTHER -> answer(again, "go on")

ConditionInit ==
    \E c \in Configs, w \in Worlds, l \in {"Loaded", "NotFound"} :
        unit = [config |-> c, world |-> w, load_state |-> l, active |-> "InActive",
                conditions |-> <<>>, asserts |-> <<>>, answer |-> "none", starts |-> 0]

Start ==
    /\ unit.starts < MaxStarts
    /\ unit' = [start(unit, unit.world) EXCEPT !.starts = @ + 1]

\* The unit and the system go on by themselves between two starts, in one step for
\* all their changes; an answer is for the last start.
World ==
    unit.answer # "none" /\ \E w \in Worlds, a \in {"InActive", "Active", "Activating", "Maintenance"} :
        unit' = [unit EXCEPT !.world = w, !.active = a, !.answer = "none"]

ConditionNext == Start \/ World

ConditionSpec == ConditionInit /\ [][ConditionNext]_unit

(***************************************************************************)
(* What must hold.                                                         *)
(***************************************************************************)

\* What docs/man/unit.md says of a condition: a file that somebody may execute (141),
\* an option that goes before the file (147), a word that is there by itself or as a
\* key, or a pair that is there as it stands (153).  The others read one fact of the
\* system, and their test is that fact.
is_documented(w, type, p) ==
    CASE type = "FileIsExecutable" -> stat(w, p).kind = "file" /\ stat(w, p).mode \cap {0, 3, 6} # {}
      [] type = "FirstBoot" ->
           (p = <<"true">>) <=> IF w.first_boot_option = "none" THEN w.first_boot
                                ELSE w.first_boot_option = "true"
      [] type = "KernelCommandLine" ->
           \E i \in DOMAIN w.cmdline :
               w.cmdline[i] = p \/ (~Contains(p, "=") /\ IsPrefix(Append(p, "="), w.cmdline[i]))
      [] OTHER -> test_type(w, type, p)

\* Systems on which the code is known to say otherwise: a file that others may read
\* and nobody may execute (test_file_is_executable), the option for the first boot
\* (test_first_boot), a word of the command line that begins like another one
\* (cmdline_get_item).
is_known_to_differ(w, type) ==
    CASE type = "FileIsExecutable" ->
           \E p \in DOMAIN w.path : w.path[p].mode \cap {0, 3, 6} = {} /\ w.path[p].mode \cap {1, 2, 5} # {}
      [] type = "FirstBoot" -> w.first_boot_option # "none"
      [] type = "KernelCommandLine" ->
           \E i, j \in DOMAIN w.cmdline : i # j /\ Head(w.cmdline[i]) = Head(w.cmdline[j])
      [] OTHER -> FALSE

\* The value without its prefixes holds in the system as it is now.
is_met(u, k) ==
    LET c == new_condition(k, u.config[k])
    IN  c.params = NoValue \/ is_documented(u.world, k, c.params) # c.revert

\* What libs/basic/condition.rs says of a list: every usual condition is met,
\* and one of those that start with '|', if there are any.
AllMet(u, keys) ==
    LET set == {k \in keys : u.config[k] # NoValue}
        triggers == {k \in set : Head(u.config[k]) = "|"}
    IN  /\ \A k \in set \ triggers : is_met(u, k)
        /\ triggers = {} \/ \E k \in triggers : is_met(u, k)

\* The answer of start follows from the unit file and the system as they are at
\* that moment, however often the unit was started before: the list of
\* conditions grows with every start and holds them several times (conditions,
\* condition_vec_test).  A condition means what docs/man/unit.md says, in the
\* systems that is_known_to_differ does not name.
StartIsChecked ==
    LET met == AllMet(unit, ToSet(ConditionKeys))
        sure == AllMet(unit, ToSet(AssertKeys))
        differs == \E k \in DOMAIN unit.config :
                       unit.config[k] # NoValue /\ is_known_to_differ(unit.world, k)
    IN  unit.answer \in {"go on", "condition", "assert"} /\ ~differs =>
            /\ unit.answer = "go on" => unit.active = "Activating" \/ (met /\ sure)
            /\ unit.answer = "condition" => ~met
            /\ unit.answer = "assert" => met /\ ~sure
=============================================================================
