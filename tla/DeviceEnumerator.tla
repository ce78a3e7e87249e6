-------------------------- MODULE DeviceEnumerator --------------------------
(***************************************************************************)
(* The enumerator of libs/device (device_enumerator.rs, utils.rs): filters *)
(* that invalidate the last scan, the scans, and the order in which the    *)
(* devices found are handed out.  sysfs stands still while it is scanned.  *)
(* en.err is the answer of the last scan, Ok or the error of an entry.     *)
(* The patterns are valid ones; MatchesOf gives the words each matches.    *)
(* A filter on a tag or an attribute ends in a todo!() of the scan and is  *)
(* left out, as is match_initialized, which lets everything through.       *)
(***************************************************************************)
EXTENDS Device

CONSTANTS MatchesOf,     \* the words that match a pattern
          StartsWith,      \* the paths whose text begins with that of a path
          Before,          \* the order of the texts of paths, as pairs
          LateBlock,       \* paths below /block/md or /block/dm-
          Control,         \* pairs of sound devices of one card, its control second
          BusDir,          \* for each bus: its path, its devices, its drivers
          ClassDir,        \* for each class: the devices listed
          ModuleDir        \* the modules

VARIABLES en, given, rescan

enumVars == <<en, given, rescan>>

EnumerationType == {"Devices", "Subsystems", "All"}

new_enumerator ==
    [etype |-> "Devices", by_syspath |-> {}, devices |-> <<>>, up_to_date |-> FALSE,
     sorted |-> FALSE, err |-> Ok, prioritized |-> <<>>, subsystem |-> {}, not_subsystem |-> {},
     property |-> {}, sysname |-> {}, not_sysname |-> {}, parent |-> {}]

-----------------------------------------------------------------------------
\* Filters

set_enumerator_type(e, t) == [e EXCEPT !.up_to_date = @ /\ e.etype = t, !.etype = t]

add_prioritized_subsystem(e, s) == [e EXCEPT !.prioritized = Append(@, s), !.up_to_date = FALSE]

add_match_subsystem(e, p, whether) ==
    IF whether THEN [e EXCEPT !.subsystem = @ \cup {p}, !.up_to_date = FALSE]
    ELSE [e EXCEPT !.not_subsystem = @ \cup {p}, !.up_to_date = FALSE]

add_match_property(e, key, value) ==
    [e EXCEPT !.property = {m \in @ : m[1] # key} \cup {<<key, value>>}, !.up_to_date = FALSE]

add_match_sysname(e, p, whether) ==
    IF whether THEN [e EXCEPT !.sysname = @ \cup {p}, !.up_to_date = FALSE]
    ELSE [e EXCEPT !.not_sysname = @ \cup {p}, !.up_to_date = FALSE]

add_match_parent_incremental(e, path) == [e EXCEPT !.parent = @ \cup {path}, !.up_to_date = FALSE]

add_match_parent(e, path) == add_match_parent_incremental([e EXCEPT !.parent = {}], path)

pattern_match(pattern, word) == word \in MatchesOf[pattern]

set_pattern_match(include, exclude, word) ==
    /\ \A p \in exclude : ~pattern_match(p, word)
    /\ include = {} \/ \E p \in include : pattern_match(p, word)

match_sysname(e, w) == set_pattern_match(e.sysname, e.not_sysname, w)
match_subsystem(e, w) == set_pattern_match(e.subsystem, e.not_subsystem, w)

\* A text that begins with the parent's is enough.
match_parent(e, path) == e.parent = {} \/ \E p \in e.parent : path \in StartsWith[p]

\* One pattern that matches is enough, and only what has been read counts.
match_property(e, dv) ==
    \/ e.property = {}
    \/ \E m \in e.property, k \in Key : \E w \in dv.properties[k] :
         pattern_match(m[1], k) /\ pattern_match(m[2], w)

\* flags: the filters to look at besides those that always are.  The device's
\* subsystem is read, which the properties then hold.
test_matches(sys, e, path, flags) ==
    LET dv  == from_syspath(sys, path)
        sub == IF "subsystem" \in flags THEN get_subsystem(sys, dv) ELSE dv IN
    /\ "sysname" \in flags => match_sysname(e, SysName[path])
    /\ "subsystem" \in flags => sub.err = Ok /\ match_subsystem(e, sub.subsystem)
    /\ "parent" \in flags => match_parent(e, path)
    /\ match_property(e, sub)

AllFlags == {"sysname", "subsystem", "parent"}

-----------------------------------------------------------------------------
\* Order

\* device_compare, as the relation "comes before": the control of a sound card
\* last, late blocks last, then by text.
device_compare(a, b) ==
    IF <<a, b>> \in Control \/ <<b, a>> \in Control THEN <<a, b>> \in Control
    ELSE IF (a \in LateBlock) # (b \in LateBlock) THEN b \in LateBlock
    ELSE <<a, b>> \in Before

sort(S) ==
    LET rank(p) == Cardinality({q \in S : q # p /\ device_compare(q, p)}) IN
    [i \in 1..Cardinality(S) |-> CHOOSE p \in S : rank(p) = i - 1]

-----------------------------------------------------------------------------
\* Scans

\* TRUE, and unsorted, only if the path was there before.
add_device(e, path) ==
    [e |-> [e EXCEPT !.by_syspath = @ \cup {path}, !.sorted = @ /\ path \notin e.by_syspath],
     added |-> path \in e.by_syspath]

\* The devices above a path, as get_parent finds them one after the other.
parents(sys, path) ==
    LET up[p \in Path] ==
          LET found == get_parent(sys, from_syspath(sys, p)) IN
          IF found.err # Ok THEN <<>> ELSE <<found.parent>> \o up[found.parent] IN
    up[path]

add_parent_devices(sys, e, path) ==
    LET add(x, p) ==
          LET a == add_device(x.e, p) IN
          IF x.stop \/ ~test_matches(sys, x.e, p, AllFlags) THEN x
          ELSE [e |-> a.e, stop |-> ~a.added] IN
    FoldLeft(add, [e |-> e, stop |-> FALSE], parents(sys, path)).e

\* An entry that is gone is passed over; one that cannot be made a device for
\* another reason is the error of the scan, which goes on.
scan_dir_and_add_devices(sys, e, entries) ==
    LET add(x, p) ==
          LET err == syspath_error(sys, p) IN
          CASE ~match_sysname(x, SysName[p]) \/ err = "ENODEV" -> x
            [] match_sysname(x, SysName[p]) /\ err \notin {Ok, "ENODEV"} -> [x EXCEPT !.err = err]
            [] OTHER -> IF test_matches(sys, x, p, AllFlags \ {"sysname"})
                        THEN add_parent_devices(sys, add_device(x, p).e, p) ELSE x IN
    FoldLeft(add, e, entries)

\* A directory is scanned if its name, or the subsystem it stands for, matches.
scan_dir(sys, e, dirs) ==
    LET scan(x, d) == IF match_subsystem(x, d[1]) THEN scan_dir_and_add_devices(sys, x, d[2]) ELSE x IN
    FoldLeft(scan, e, dirs)

BusPaths == [i \in DOMAIN BusDir |-> BusDir[i].path]

\* The directories of each kind of scan, with the subsystem each stands for.
scan_devices_all_bus == [i \in DOMAIN BusDir |-> <<BusDir[i].name, BusDir[i].devices>>]

scan_devices_all == [i \in DOMAIN BusDir |-> <<BusDir[i].name, BusDir[i].devices>>] \o ClassDir

scan_subsystems_all ==
    <<<<"module", ModuleDir>>, <<"subsystem", BusPaths>>>>
    \o [i \in DOMAIN BusDir |-> <<"drivers", BusDir[i].drivers>>]

\* The parents that are asked for, and what is below them.
parent_add_child(sys, e, path, flags) ==
    CASE syspath_error(sys, path) # Ok         -> [e EXCEPT !.err = syspath_error(sys, path)]
      [] syspath_error(sys, path) = Ok
         /\ test_matches(sys, e, path, flags)  -> add_device(e, path).e
      [] OTHER                                 -> e

\* The directories below a path.
below(p) == {q \in Path : p \in ToSet(ancestors[q])}

\* Every directory is tried as a device.
parent_crawl_children(sys, e, path) ==
    LET add(x, p) == IF match_sysname(x, SysName[p])
                     THEN parent_add_child(sys, x, p, {"subsystem"}) ELSE x IN
    FoldLeft(add, e, sort(below(path)))

scan_devices_children(sys, e) ==
    LET scan(x, p) == parent_crawl_children(sys, parent_add_child(sys, x, p, AllFlags \ {"parent"}), p) IN
    FoldLeft(scan, e, sort(e.parent))

\* scan_devices, scan_subsystems or scan_devices_and_subsystems, by the type.  Below
\* parents there are only devices.  A scan with an error is up to date as well.
scan(sys, e) ==
    LET x    == [e EXCEPT !.by_syspath = {}, !.devices = <<>>, !.up_to_date = TRUE, !.err = Ok]
        dirs == CASE e.etype = "Devices" -> scan_devices_all
                  [] e.etype = "Subsystems" -> scan_subsystems_all
                  [] OTHER -> scan_devices_all \o scan_subsystems_all IN
    IF e.parent # {} /\ e.etype # "Subsystems" THEN scan_devices_children(sys, x)
    ELSE scan_dir(sys, x, dirs)

-----------------------------------------------------------------------------
\* What is handed out

\* The directories right above a path that were found too, up to the first that
\* was not.
found_above(e, path) ==
    LET above == ancestors[path]
        first == SelectInSeq(above, LAMBDA p : p \notin e.by_syspath) IN
    ToSet(IF first = 0 THEN above ELSE SubSeq(above, 1, first - 1))

\* The devices of one subsystem that are left, with those right above them, in
\* order.  The code takes them one by one and removes what it took.
prioritize(sys, left, s) ==
    LET of == {p \in left : get_subsystem(sys, from_syspath(sys, p)).subsystem = s} IN
    of \cup UNION {found_above([by_syspath |-> left], p) : p \in of}

sort_devices(sys, e) ==
    LET take(x, s) == LET S == prioritize(sys, x.left, s) IN
                      [left |-> x.left \ S, out |-> x.out \o sort(S)]
        all == FoldLeft(take, [left |-> e.by_syspath, out |-> <<>>], e.prioritized) IN
    IF e.sorted THEN e ELSE [e EXCEPT !.devices = all.out \o sort(all.left), !.sorted = TRUE]

\* The first call of next scans and sorts; the others hand out.  After an error of
\* the scan there is nothing to hand out, until the next iteration.
next(sys, e) ==
    LET scanned == IF e.up_to_date THEN [e EXCEPT !.err = Ok] ELSE scan(sys, e) IN
    CHOOSE r \in {IF x.err = Ok THEN sort_devices(sys, x) ELSE x : x \in {scanned}} : TRUE

-----------------------------------------------------------------------------
\* An enumerator and its caller.  given is what the last iteration handed out;
\* rescan: a filter came after the devices were sorted once.

EnumInit == en = new_enumerator /\ given = <<>> /\ rescan = FALSE

Iterate ==
    /\ en' = next(sysfs, en)
    /\ given' = IF en'.err = Ok THEN en'.devices ELSE <<>>
    /\ UNCHANGED rescan

Filter(e) ==
    /\ en' = e /\ e # en
    /\ given' = <<>>
    /\ rescan' = (rescan \/ en.sorted)

-----------------------------------------------------------------------------
\* Properties

\* What a scan is to find.
Listed(e) ==
    LET devs == UNION {ToSet(BusDir[i].devices) : i \in DOMAIN BusDir}
                \cup UNION {ToSet(ClassDir[i][2]) : i \in DOMAIN ClassDir}
        subs == ToSet(ModuleDir) \cup ToSet(BusPaths)
                \cup UNION {ToSet(BusDir[i].drivers) : i \in DOMAIN BusDir} IN
    CASE e.etype = "Subsystems"                    -> subs
      [] e.etype # "Subsystems" /\ e.parent # {}   -> e.parent \cup UNION {below(p) : p \in e.parent}
      [] e.etype = "Devices" /\ e.parent = {}      -> devs
      [] OTHER                                     -> devs \cup subs

\* An enumerator that is iterated, and whose filters came before its devices were
\* sorted once, hands out every device listed in sysfs that its filters let through,
\* nothing they do not, and nothing twice.  It hands out nothing at first, and all of
\* that when iterated again, if an entry that its filters on names let through cannot
\* be made a device: below a parent every directory without an uevent file is one,
\* and most devices have some.
EnumerationComplete ==
    LET ok(p) == /\ syspath_error(sysfs, p) = Ok
                 /\ test_matches(sysfs, en, p, {"sysname", "subsystem", "parent"})
        broken(p) == /\ syspath_error(sysfs, p) \notin {Ok, "ENODEV"}
                     /\ p \in en.parent \/ match_sysname(en, SysName[p]) IN
    en.up_to_date /\ ~rescan =>
        /\ \/ {p \in Listed(en) : ok(p)} \subseteq ToSet(given)
           \/ given = <<>> /\ ~en.sorted /\ \E p \in Listed(en) : broken(p)
        /\ \A p \in ToSet(given) : ok(p)
        /\ IsInjective(given)

\* A device is handed out after the devices above it when no subsystem is
\* preferred, and the devices of the subsystem preferred most come before all others
\* but those right above one of them.
EnumerationOrdered ==
    \A i, j \in DOMAIN given : i < j =>
        LET sub(p) == get_subsystem(sysfs, from_syspath(sysfs, p)).subsystem
            first == Head(en.prioritized) IN
        IF en.prioritized = <<>> THEN given[j] \notin ToSet(ancestors[given[i]])
        ELSE sub(given[j]) = first => \/ sub(given[i]) = first
                                      \/ \E p \in ToSet(given) : sub(p) = first /\ given[i] \in ToSet(ancestors[p])

=============================================================================
