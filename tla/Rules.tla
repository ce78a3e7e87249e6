------------------------------- MODULE Rules --------------------------------
(***************************************************************************)
(* The rules of devmaster (exts/devmaster/src/lib/rules): how a token of a *)
(* rule file is accepted and what a worker does with the rules.            *)
(*                                                                         *)
(* A raw token has a key, an attribute or None, an operator and a value.   *)
(* A value is split into a prefix that OPTIONS knows, or "", and the rest. *)
(* What the code asks of a text (is it a number, a valid pattern, a known  *)
(* builtin...) is given by constant sets.  An operator that may fail       *)
(* returns a set: the token it makes, or nothing.                          *)
(***************************************************************************)
EXTENDS Integers, Sequences, SequencesExt

CONSTANTS Glob,          \* texts that glob_to_regex accepts
          Formatted,     \* texts with a % or $ in them
          WellFormatted, \* texts whose substitutions, if any, are known and complete
          Numeric,       \* texts that parse as a number: ids, modes, levels
          Builtin,       \* names of builtin commands
          KnownName,     \* names that users and groups have
          ResolveTime    \* Rules.resolve_name_time: "Never", "Late" or "Early"

None == "none"

OperatorType == {"Match", "Nomatch", "Add", "Remove", "Assign", "AssignFinal"}

op_is_match(op) == op \in {"Match", "Nomatch"}

\* The order of TokenType that comparisons of types rely on.
DeviceMatch == {"MatchAction", "MatchDevpath", "MatchKernel", "MatchDevlink", "MatchName",
                 "MatchEnv", "MatchConst", "MatchTag", "MatchSubsystem", "MatchDriver",
                 "MatchAttr", "MatchSysctl"}
ParentsMatch == {"MatchParentsKernel", "MatchParentsSubsystem", "MatchParentsDriver",
                 "MatchParentsAttr", "MatchParentsTag"}
OtherMatch == {"MatchTest", "MatchProgram", "MatchImportFile", "MatchImportProgram",
                 "MatchImportBuiltin", "MatchImportDb", "MatchImportCmdline",
                 "MatchImportParent", "MatchResult"}
MatchToken == DeviceMatch \cup ParentsMatch \cup OtherMatch

SubstituteType(text) ==
    CASE text = ""          -> "Plain"
      [] text = "["         -> "Subsys"
      [] text \in Formatted -> "Format"
      [] OTHER              -> "Plain"

\* RuleToken::new.  Every type below MatchTest, and MatchResult, has patterns.
new(type, op, attr, value) ==
    LET has_regex == type \in DeviceMatch \cup ParentsMatch \cup {"MatchResult"} IN
    IF has_regex /\ value.rest \notin Glob THEN {}
    ELSE {[type |-> type, op |-> op, attr |-> attr, value |-> value, has_regex |-> has_regex,
           match_type |-> IF type = "MatchSubsystem" /\ value.rest \in {"subsystem", "bus", "class"}
                          THEN "Subsystem" ELSE "Invalid",
           attr_subst_type |-> IF type \in {"MatchAttr", "MatchParentsAttr"}
                               THEN SubstituteType(IF attr = None THEN "" ELSE attr) ELSE "Invalid"]}

\* Every substitution is of a known type, has the attribute its type needs, and a
\* number as the attribute of a result.
check_format(text) == text \in WellFormatted

\* A failed check_value_format is only logged; check_attr_format refuses an empty
\* attribute as well, and no attribute reads as an empty one.
check_attr_format(attr) == attr # None /\ check_format(attr)

Plain(rest) == [prefix |-> "", rest |-> rest]

-----------------------------------------------------------------------------
\* parse_token, key by key

\* The operator an unsupported one is replaced by.
op_instead(op, unsupported, instead) == IF op \in unsupported THEN instead ELSE op

parse_ACTION(raw) == {t \in new("MatchAction", raw.op, None, raw.value) :
                         raw.attr = None /\ op_is_match(raw.op)}

parse_DEVPATH(raw) == {t \in new("MatchDevpath", raw.op, None, raw.value) :
                         raw.attr = None /\ op_is_match(raw.op)}

parse_KERNEL(raw) == {t \in new("MatchKernel", raw.op, raw.attr, raw.value) :
                         raw.attr = None /\ op_is_match(raw.op)}

parse_SYMLINK(raw) ==
    {t \in new(IF op_is_match(raw.op) THEN "MatchDevlink" ELSE "AssignDevlink",
               raw.op, None, raw.value) :
       raw.attr = None /\ raw.op # "Remove"}

parse_NAME(raw) ==
    {t \in new(IF op_is_match(raw.op) THEN "MatchName" ELSE "AssignName",
               op_instead(raw.op, {"Add"}, "Assign"), None, raw.value) :
       /\ raw.attr = None /\ raw.op # "Remove"
       /\ op_is_match(raw.op) \/ raw.value # Plain("%k")}

\* Properties that the kernel or devmaster set themselves.
OwnProperty == {"ACTION", "DEVLINKS", "DEVNAME", "DEVTYPE", "DRIVER", "IFINDEX", "MAJOR", "MINOR",
                "SEQNUM", "SUBSYSTEM", "TAGS"}

parse_ENV_any(raw) ==
    {t \in new(IF op_is_match(raw.op) THEN "MatchEnv" ELSE "AssignEnv",
               op_instead(raw.op, {"AssignFinal"}, "Assign"), raw.attr, raw.value) :
       raw.attr # None /\ raw.op # "Remove"}

parse_ENV(raw) ==
    {t \in new(IF op_is_match(raw.op) THEN "MatchEnv" ELSE "AssignEnv",
               op_instead(raw.op, {"AssignFinal"}, "Assign"), raw.attr, raw.value) :
       /\ raw.attr # None /\ raw.op # "Remove"
       /\ op_is_match(raw.op) \/ raw.attr \notin OwnProperty}

\* The attributes that are refused are the two that mean something.
parse_CONST(raw) == {t \in new("MatchConst", raw.op, raw.attr, raw.value) :
                       raw.attr \notin {None, "arch", "virt"} /\ op_is_match(raw.op)}

parse_TAG(raw) ==
    {t \in new(IF op_is_match(raw.op) THEN "MatchTag" ELSE "AssignTag",
               op_instead(raw.op, {"AssignFinal"}, "Assign"), None, raw.value) :
       raw.attr = None}

parse_SUBSYSTEM(raw) == {t \in new("MatchSubsystem", raw.op, None, raw.value) :
                           raw.attr = None /\ op_is_match(raw.op)}

parse_DRIVER(raw) == {t \in new("MatchDriver", raw.op, None, raw.value) :
                           raw.attr = None /\ op_is_match(raw.op)}

parse_ATTR(raw) ==
    {t \in new(IF op_is_match(raw.op) THEN "MatchAttr" ELSE "AssignAttr",
               op_instead(raw.op, {"Add", "AssignFinal"}, "Assign"), raw.attr, raw.value) :
       check_attr_format(raw.attr) /\ raw.op # "Remove"}

\* The types are those of ATTR.
parse_SYSCTL(raw) ==
    {t \in new(IF op_is_match(raw.op) THEN "MatchAttr" ELSE "AssignAttr",
               op_instead(raw.op, {"Add", "AssignFinal"}, "Assign"), raw.attr, raw.value) :
       check_attr_format(raw.attr) /\ raw.op # "Remove"}

\* The type is that of SUBSYSTEMS.
parse_KERNELS(raw) == {t \in new("MatchParentsSubsystem", raw.op, None, raw.value) :
                            raw.attr = None /\ op_is_match(raw.op)}

parse_SUBSYSTEMS(raw) == {t \in new("MatchParentsSubsystem", raw.op, None, raw.value) :
                            raw.attr = None /\ op_is_match(raw.op)}

parse_DRIVERS(raw) == {t \in new("MatchParentsDriver", raw.op, None, raw.value) :
                            raw.attr = None /\ op_is_match(raw.op)}

parse_ATTRS(raw) == {t \in new("MatchParentsAttr", raw.op, raw.attr, raw.value) :
                            check_attr_format(raw.attr) /\ op_is_match(raw.op)}

parse_TAGS(raw) == {t \in new("MatchParentsTag", raw.op, None, raw.value) :
                            raw.attr = None /\ op_is_match(raw.op)}

parse_TEST(raw) == {t \in new("MatchTest", raw.op, raw.attr, raw.value) :
                            raw.attr \in Numeric \cup {None} /\ op_is_match(raw.op)}

parse_PROGRAM(raw) ==
    {t \in new("MatchProgram", op_instead(raw.op, {"Add", "Assign", "AssignFinal"}, "Match"),
               raw.attr, raw.value) :
       raw.attr = None /\ raw.op # "Remove"}

\* A program with the name of a builtin is taken for the builtin.
import_type(raw) ==
    CASE raw.attr = "file"                                     -> "MatchImportFile"
      [] raw.attr = "program" /\ raw.value.rest \notin Builtin -> "MatchImportProgram"
      [] raw.attr \in {"program", "builtin"}                   -> "MatchImportBuiltin"
      [] raw.attr = "db"                                       -> "MatchImportDb"
      [] raw.attr = "cmdline"                                  -> "MatchImportCmdline"
      [] raw.attr = "parent"                                   -> "MatchImportParent"
      [] OTHER                                                 -> None

parse_IMPORT(raw) ==
    {t \in new(import_type(raw), op_instead(raw.op, OperatorType \ {"Nomatch"}, "Match"),
               raw.attr, raw.value) :
       /\ import_type(raw) # None
       /\ raw.attr = "builtin" => raw.value.rest \in Builtin}

parse_RESULT(raw) == {t \in new("MatchResult", raw.op, raw.attr, raw.value) :
                        raw.attr = None /\ op_is_match(raw.op)}

\* What assigns takes neither a match nor a removal.
op_is_assign(op) == ~op_is_match(op) /\ op # "Remove"

\* The options without a prefix, with the type and the value they stand for.
plain_option(text) ==
    CASE text = "string_escape=none"    -> <<"AssignOptionsStringEscapeNone", "">>
      [] text = "string_escape=replace" -> <<"AssignOptionsStringEscapeReplace", "">>
      [] text = "db_persist"            -> <<"AssignOptionsDbPersist", "">>
      [] text = "watch"                 -> <<"AssignOptionsInotifyWatch", "1">>
      [] text = "nowatch"               -> <<"AssignOptionsInotifyWatch", "0">>
      [] OTHER                          -> <<None, "">>

prefixed_option(value) ==
    CASE value.prefix = "static_node="                             -> <<"AssignOptionsStaticNode", value.rest>>
      [] value.prefix = "link_priority=" /\ value.rest \in Numeric -> <<"AssignOptionsDevlinkPriority", value.rest>>
      [] value.prefix = "log_level=" /\ value.rest = "rest"        -> <<"AssignOptionsLogLevel", "-1">>
      [] value.prefix = "log_level=" /\ value.rest \in Numeric     -> <<"AssignOptionsLogLevel", value.rest>>
      [] OTHER                                                     -> <<None, "">>

parse_OPTIONS(raw) ==
    LET option == IF raw.value.prefix = "" THEN plain_option(raw.value.rest)
                  ELSE prefixed_option(raw.value) IN
    {t \in new(option[1], op_instead(raw.op, {"Add"}, "Assign"), None, Plain(option[2])) :
       raw.attr = None /\ op_is_assign(raw.op) /\ option[1] # None}

\* A name is looked up while the rules load, when a device is processed, or not
\* at all; one that is not known is an error only in the first case.
parse_OWNER(raw) ==
    LET v     == raw.value.rest
        early == ResolveTime = "Early" /\ SubstituteType(v) = "Plain"
        is_id == v \in Numeric \/ early IN
    {t \in new(IF is_id THEN "AssignOwnerId" ELSE "AssignOwner",
               op_instead(raw.op, {"Add"}, "Assign"), None,
               IF v \notin Numeric /\ early THEN Plain("uid") ELSE raw.value) :
       /\ raw.attr = None /\ op_is_assign(raw.op)
       /\ v \in Numeric \/ (IF early THEN v \in KnownName ELSE ResolveTime # "Never")}

parse_GROUP(raw) ==
    LET v     == raw.value.rest
        early == ResolveTime = "Early" /\ SubstituteType(v) = "Plain"
        is_id == v \in Numeric \/ early IN
    {t \in new(IF is_id THEN "AssignGroupId" ELSE "AssignGroup",
               op_instead(raw.op, {"Add"}, "Assign"), None,
               IF v \notin Numeric /\ early THEN Plain("gid") ELSE raw.value) :
       /\ raw.attr = None /\ op_is_assign(raw.op)
       /\ v \in Numeric \/ (IF early THEN v \in KnownName ELSE ResolveTime # "Never")}

parse_MODE(raw) ==
    {t \in new(IF raw.value.rest \in Numeric THEN "AssignModeId" ELSE "AssignMode",
               op_instead(raw.op, {"Add"}, "Assign"), None, raw.value) :
       raw.attr = None /\ op_is_assign(raw.op)}

parse_SECLABEL(raw) ==
    {t \in new("AssignSeclabel", op_instead(raw.op, {"AssignFinal"}, "Assign"),
               raw.attr, raw.value) :
       raw.attr # None /\ op_is_assign(raw.op)}

parse_RUN(raw) ==
    {t \in new(IF raw.attr = "builtin" THEN "AssignRunBuiltin" ELSE "AssignRunProgram", raw.op,
               IF raw.attr = "builtin" THEN raw.attr ELSE None, raw.value) :
       /\ op_is_assign(raw.op)
       /\ raw.attr \in {None, "program", "builtin"}
       /\ raw.attr = "builtin" => raw.value.rest \in Builtin}

parse_GOTO(raw) == {t \in new("Goto", raw.op, None, raw.value) :
                       raw.attr = None /\ raw.op = "Assign"}

parse_LABEL(raw) == {t \in new("Label", raw.op, None, raw.value) :
                       raw.attr = None /\ raw.op = "Assign"}

RuleKey == {"ACTION", "DEVPATH", "KERNEL", "SYMLINK", "NAME", "ENV", "CONST", "TAG", "SUBSYSTEM",
        "DRIVER", "ATTR", "SYSCTL", "KERNELS", "SUBSYSTEMS", "DRIVERS", "ATTRS", "TAGS", "TEST",
        "PROGRAM", "IMPORT", "RESULT", "OPTIONS", "OWNER", "GROUP", "MODE", "SECLABEL", "RUN",
        "GOTO", "LABEL"}

parse_token(raw) ==
    CASE raw.key = "ACTION" -> parse_ACTION(raw)       [] raw.key = "DEVPATH" -> parse_DEVPATH(raw)
      [] raw.key = "KERNEL" -> parse_KERNEL(raw)       [] raw.key = "SYMLINK" -> parse_SYMLINK(raw)
      [] raw.key = "NAME" -> parse_NAME(raw)           [] raw.key = "ENV" -> parse_ENV(raw)
      [] raw.key = "CONST" -> parse_CONST(raw)         [] raw.key = "TAG" -> parse_TAG(raw)
      [] raw.key = "SUBSYSTEM" -> parse_SUBSYSTEM(raw) [] raw.key = "DRIVER" -> parse_DRIVER(raw)
      [] raw.key = "ATTR" -> parse_ATTR(raw)           [] raw.key = "SYSCTL" -> parse_SYSCTL(raw)
      [] raw.key = "KERNELS" -> parse_KERNELS(raw)     [] raw.key = "SUBSYSTEMS" -> parse_SUBSYSTEMS(raw)
      [] raw.key = "DRIVERS" -> parse_DRIVERS(raw)     [] raw.key = "ATTRS" -> parse_ATTRS(raw)
      [] raw.key = "TAGS" -> parse_TAGS(raw)           [] raw.key = "TEST" -> parse_TEST(raw)
      [] raw.key = "PROGRAM" -> parse_PROGRAM(raw)     [] raw.key = "IMPORT" -> parse_IMPORT(raw)
      [] raw.key = "RESULT" -> parse_RESULT(raw)       [] raw.key = "OPTIONS" -> parse_OPTIONS(raw)
      [] raw.key = "OWNER" -> parse_OWNER(raw)         [] raw.key = "GROUP" -> parse_GROUP(raw)
      [] raw.key = "MODE" -> parse_MODE(raw)           [] raw.key = "SECLABEL" -> parse_SECLABEL(raw)
      [] raw.key = "RUN" -> parse_RUN(raw)             [] raw.key = "GOTO" -> parse_GOTO(raw)
      [] raw.key = "LABEL" -> parse_LABEL(raw)         [] OTHER -> {}

-----------------------------------------------------------------------------
\* Loading a file

\* A label or a goto goes to the line itself; add_token appends any other token.
line_of(tokens) ==
    LET of(type) == {tokens[i].value : i \in {j \in DOMAIN tokens : tokens[j].type = type}} IN
    [tokens |-> SelectSeq(tokens, LAMBDA t : t.type \notin {"Goto", "Label"}),
     label |-> of("Label"), goto_label |-> of("Goto")]

\* A line without a token, or with one that is refused, is an error.
load_line(raws) ==
    LET all(made) == IF raws = <<>> \/ \E i \in DOMAIN made : made[i] = {} THEN {}
                     ELSE {line_of([i \in DOMAIN made |-> CHOOSE t \in made[i] : TRUE])} IN
    UNION {all(made) : made \in {[i \in DOMAIN raws |-> parse_token(raws[i])]}}

\* parse_lines takes the lines of the text one by one.  A text line is skipped
\* (empty or a comment), or has tokens and may end in a backslash.  What is
\* continued at the end of the file is never loaded.  A line that cannot be
\* loaded is unwrapped.
parse_line(file, text) ==
    LET full == file.full \o text.raws
        add(made) == IF made = {} THEN [file EXCEPT !.panic = TRUE]
                     ELSE [file EXCEPT !.lines = @ \o SetToSeq(made), !.full = <<>>] IN
    CASE text.skip \/ file.panic -> file
      [] text.more               -> [file EXCEPT !.full = full]
      [] OTHER -> CHOOSE r \in {add(made) : made \in {load_line(full)}} : TRUE

parse_lines(texts) ==
    LET take(file, text) == CHOOSE r \in {parse_line(f, text) : f \in {file}} : TRUE IN
    FoldLeft(take, [lines |-> <<>>, full |-> <<>>, panic |-> FALSE], texts)

\* Directories are read in the order given, the files of each in the order of
\* their names; a directory is a sequence of texts in that order.
parse_rules(dirs) == LET texts == FlattenSeq(dirs) IN [i \in DOMAIN texts |-> parse_lines(texts[i])]

-----------------------------------------------------------------------------
\* Processing a device

\* "yes" or "no", "err" that ends the processing, "panic" for a todo!().  The
\* operator is not looked at.
apply_rule_token(device, token) ==
    CASE token.type = "MatchAction" /\ device.action = "Invalid" -> "err"
      [] token.type = "MatchAction"  -> IF token.value.rest = device.action THEN "yes" ELSE "no"
      [] token.type = "MatchDevpath" -> IF token.value.rest = device.devpath THEN "yes" ELSE "no"
      [] OTHER -> "panic"

\* The tokens of a line up to the first that does not match.  The line to go on
\* with is the next one, since goto_line is never set.
apply_rule_line(device, line) ==
    LET first == SelectInSeq(line.tokens, LAMBDA t : apply_rule_token(device, t) # "yes") IN
    CASE line.tokens = <<>> -> "panic"
      [] first = 0          -> "next"
      [] OTHER -> LET r == apply_rule_token(device, line.tokens[first]) IN
                  IF r = "no" THEN "next" ELSE r

apply_rule_file(device, file) ==
    LET first == SelectInSeq(file.lines, LAMBDA l : apply_rule_line(device, l) # "next") IN
    IF first = 0 THEN "ok" ELSE apply_rule_line(device, file.lines[first])

\* Without any file there is nothing to unwrap.
apply_rules(device, files) ==
    LET first == SelectInSeq(files, LAMBDA f : apply_rule_file(device, f) # "ok") IN
    CASE files = <<>> -> "panic"
      [] first = 0    -> "ok"
      [] OTHER        -> apply_rule_file(device, files[first])

\* execute_rules_on_remove is not implemented; execute_run does nothing.
process_device(device, files) ==
    IF device.action = "remove" THEN "panic" ELSE apply_rules(device, files)

-----------------------------------------------------------------------------
\* Properties

\* A token that parse_token accepts is one the rest of the code can rely on: a
\* match has a matching operator and an assignment an assigning one (the comments of
\* TokenType), a pattern is there where one is compared, an attribute where one is
\* named and one that can be substituted where it is a path, and no rule assigns a
\* property that devmaster sets itself.  What is refused is not looked at: SYMLINK-=
\* is, which rules/mod.rs:188 lists.
AcceptedTokenOK(raw) ==
    \A t \in parse_token(raw) :
        /\ t.type \in MatchToken <=> op_is_match(t.op)
        /\ t.type \in DeviceMatch \cup ParentsMatch => t.has_regex
        /\ t.type \in {"MatchEnv", "AssignEnv", "MatchAttr", "AssignAttr", "MatchParentsAttr",
                       "AssignSeclabel", "MatchConst"} => t.attr # None
        /\ t.type \in {"MatchAttr", "AssignAttr", "MatchParentsAttr"} => check_format(t.attr)
        /\ t.type = "AssignEnv" => t.attr \notin OwnProperty
=============================================================================
