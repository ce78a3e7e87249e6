------------------------------- MODULE Install -------------------------------
(***************************************************************************)
(* Enabling, disabling, masking and presetting unit files (pre_install.rs, *)
(* and mask_unit, unmask_unit of unit/manager.rs).                         *)
(*                                                                         *)
(* The files that are there are a constant: unit_file[d][u] is the Install *)
(* section of unit u in directory d of the search path, one of lib, run    *)
(* and etc.  The state is the symbolic links below etc, links, from places *)
(* to paths: the place <<"", u>> is etc/u, and <<"t.wants", u>> is         *)
(* etc/t.wants/u.  A path is a directory with a name.                      *)
(*                                                                         *)
(* A preset file has a directory and a number as its name.                 *)
(***************************************************************************)
EXTENDS Integers, Sequences, FiniteSets, FiniteSetsExt, SequencesExt

CONSTANTS
    unit_file,      \* [{"lib", "run", "etc"} -> units -> sections]
    Targets,        \* the units whose .wants and .requires directories there may be
    preset_file     \* from <<directory, number>> to sequences of rules

VARIABLE links

search_path == <<"lib", "run", "etc">>
Sections == UNION {{unit_file[d][u] : u \in DOMAIN unit_file[d]} : d \in DOMAIN unit_file}
Names == UNION {DOMAIN unit_file[d] : d \in DOMAIN unit_file} \cup UNION {s.alias : s \in Sections}

DevNull == <<"dev", "null">>

-----------------------------------------------------------------------------
\* The file system

canonicalize(ln, path) ==
    LET c[p \in {path} \cup {ln[q] : q \in DOMAIN ln}] ==
            IF p[1] = "etc" /\ <<"", p[2]>> \in DOMAIN ln THEN c[ln[<<"", p[2]>>]] ELSE p
    IN  c[path]

is_file(path) == path[1] \in DOMAIN unit_file /\ path[2] \in DOMAIN unit_file[path[1]]

\* Path::exists, which follows links.
exists(ln, path) == LET c == canonicalize(ln, path) IN is_file(c) \/ c = DevNull

symlink(ln, source, place) ==
    IF place \in DOMAIN ln \/ (place[1] = "" /\ place[2] \in DOMAIN unit_file["etc"]) THEN ln
    ELSE [p \in DOMAIN ln \cup {place} |-> IF p = place THEN source ELSE ln[p]]

unlink(ln, places) == [p \in DOMAIN ln \ places |-> ln[p]]

-----------------------------------------------------------------------------
\* Discovery

section(path) == unit_file[path[1]][path[2]]

\* unit_file_load: a copy is made of what is a file, so that /dev/null is an error.
loads(ln, path) == is_file(canonicalize(ln, path))

unit_file_load(ln, path) == section(canonicalize(ln, path))

\* Every file along the search path is loaded, one on top of the other; the last gives
\* path and type.
unit_file_search(ln, u) ==
    LET found == SelectSeq(search_path, LAMBDA d : loads(ln, <<d, u>>))
        all(field) == UNION {unit_file_load(ln, <<found[i], u>>)[field] : i \in DOMAIN found}
    IN  [path |-> IF found = <<>> THEN <<"", "">> ELSE <<Last(found), u>>,
         u_type |-> IF found = <<>> THEN "Invalid"
                    ELSE IF unit_file_load(ln, <<Last(found), u>>).empty THEN "Masked" ELSE "Regular",
         alias |-> all("alias"), also |-> all("also"),
         wanted_by |-> all("wanted_by"), required_by |-> all("required_by")]

\* unit_install_discover: the unit and, one after the other, those it says are to be
\* installed also.
unit_install_discover(ln, ctx, us) ==
    LET more(s) == s \cup UNION {unit_file_search(ln, u).also : u \in s \ ctx}
        found[n \in 0..Cardinality(Names)] == IF n = 0 THEN ctx \cup us ELSE more(found[n - 1])
    IN  found[Cardinality(Names)]

-----------------------------------------------------------------------------
\* Links

install_symlinks_alias(ln, source, names) ==
    FoldSet(LAMBDA n, l : symlink(l, source, <<"", n>>), ln, names)

install_symlinks_wants(ln, source, name, suffix, targets) ==
    FoldSet(LAMBDA t, l : symlink(l, source, <<t \o suffix, name>>), ln, targets)

install_symlinks(ln, u, i) ==
    LET named  == install_symlinks_alias(ln, i.path, i.alias)
        wanted == install_symlinks_wants(named, i.path, u, ".wants", i.wanted_by)
    IN  install_symlinks_wants(wanted, i.path, u, ".requires", i.required_by)

\* The contexts are hash maps: units are installed in any order, with what discovery
\* has found before the first link is made.
apply_enable_unit_install(ln, ctx) ==
    LET found == [u \in ctx |-> unit_file_search(ln, u)]
        regular == {u \in ctx : found[u].u_type = "Regular"}
        all(order) == FoldLeft(LAMBDA l, u : install_symlinks(l, u, found[u]), ln, order)
    IN  {all(order) : order \in SetToSeqs(regular)}

collect_disable_install(ctx) == ctx

\* A mistake: only the names of the links are looked at.
remove_symlinks_named(ln, removal) == unlink(ln, {p \in DOMAIN ln : p[2] \in removal})

\* A link goes if its own name or the name it points to is to go.
remove_symlinks(ln, removal) ==
    unlink(ln, {p \in DOMAIN ln : p[2] \in removal \/ ln[p][2] \in removal})

-----------------------------------------------------------------------------
\* Presets

\* Of two files of one name the one in etc counts.
add_preset_file(d) ==
    {f \in DOMAIN preset_file : f[1] = d /\ (d = "etc" \/ <<"etc", f[2]>> \notin DOMAIN preset_file)}

\* They are sorted by their paths, the directory first.
preset_config_files ==
    LET in(d) == SetToSortSeq(add_preset_file(d), LAMBDA f, g : f[2] < g[2])
    IN  in("etc") \o in("lib")

read_presets == FlattenSeq([i \in DOMAIN preset_config_files |-> preset_file[preset_config_files[i]]])

unit_preset_action(u) ==
    LET first == SelectInSeq(read_presets, LAMBDA rule : u \in rule.units)
    IN  IF first = 0 THEN "disable" ELSE read_presets[first].action

\* preset_one_file over every file and link of the search path.  A unit that another
\* has pulled into a context is not looked at again.
preset_one_file(ln, ctx, u) ==
    LET to == IF unit_preset_action(u) = "disable" THEN "disabled" ELSE "enabled"
    IN  IF u \in ctx.enabled \cup ctx.disabled THEN ctx
        ELSE [ctx EXCEPT ![to] = unit_install_discover(ln, @, {u})]

is_unit(n) == n \in Names

preset_all(ln) ==
    LET linked == {p[2] : p \in {q \in DOMAIN ln : q[1] = "" /\ is_unit(q[2])}}
        of(d) == DOMAIN unit_file[d] \cup (IF d = "etc" THEN linked ELSE {})
        in(d) == SetToSeqs(of(d))
        orders == {s \o t \o v : s \in in("lib"), t \in in("run"), v \in in("etc")}
        ctx(order) == FoldLeft(LAMBDA c, u : preset_one_file(ln, c, u),
                               [enabled |-> {}, disabled |-> {}], order)
    IN  UNION {apply_enable_unit_install(ln, c.enabled) : c \in {ctx(o) : o \in orders}}

-----------------------------------------------------------------------------
InstallInit == links = [p \in {} |-> DevNull]

Enable(u) == links' \in apply_enable_unit_install(links, unit_install_discover(links, {}, {u}))

Disable(u) ==
    links' = remove_symlinks(links, collect_disable_install(unit_install_discover(links, {}, {u})))

Mask(u) == links' = symlink(links, DevNull, <<"", u>>)

Unmask(u) ==
    /\ exists(links, <<"etc", u>>) /\ <<"", u>> \in DOMAIN links /\ links[<<"", u>>] = DevNull
    /\ links' = unlink(links, {<<"", u>>})

\* Manager::preset_all, whenever sysmaster starts.
Preset == links' \in preset_all(links)

InstallNext ==
    \/ \E u \in Names : Enable(u) \/ Disable(u) \/ Mask(u) \/ Unmask(u)
    \/ Preset

InstallSpec == InstallInit /\ [][InstallNext]_links

-----------------------------------------------------------------------------
\* Properties

\* The units a target pulls in by its links (build_id_dropin).
wants_of(ln, t) ==
    LET places == {p \in DOMAIN ln : p[1] \in {t \o ".wants", t \o ".requires"}}
    IN  {c[2] : c \in {d \in {canonicalize(ln, ln[p]) : p \in places} : is_file(d)}}

\* The units that have a file of their own; the other names are aliases.
is_unit_file(u) == \E d \in DOMAIN unit_file : u \in DOMAIN unit_file[d]

\* What was enabled, under its own name or an alias, is pulled in by the targets it
\* names in WantedBy and RequiredBy, with every unit it says is to be installed also.
\* Once a file is disabled under its own name no target pulls it in, nor a unit it
\* names in Also, whatever was enabled, masked or preset before, and under whatever
\* names (apply_enable_unit_install, remove_symlinks).  Disabling under an alias is
\* left out: it leaves the links that were made under the file's own name.
TakesEffect ==
    \A u \in Names :
        LET all == unit_install_discover(links, {}, {u})
        IN  /\ Disable(u) =>
                 \A v \in {w \in all : is_unit_file(u) /\ is_unit_file(w)}, t \in Targets :
                   v \notin wants_of(links', t)
            /\ Enable(u) =>
                 \A v \in all :
                   LET i == unit_file_search(links, v)
                   IN  i.u_type = "Regular" =>
                         \A t \in i.wanted_by \cup i.required_by :
                           canonicalize(links', i.path)[2] \in wants_of(links', t)

InstallTakesEffect == [][TakesEffect]_links
=============================================================================
