------------------------------- MODULE Device -------------------------------
(***************************************************************************)
(* A device of libs/device (device.rs): what it knows of a node of sysfs,  *)
(* what it caches of it, and when.                                         *)
(*                                                                         *)
(* A device is a record dv.  Its properties are sets of words, {} for one  *)
(* that is not there, since DEVLINKS and TAGS are lists; its fields are    *)
(* words, "" when unset, numbers included ("0" when unset).  dv.err is the *)
(* error of the last call, Ok if none: an operator that calls another goes *)
(* on only after Ok (the ? of the code).  A result is left in dv.ret.      *)
(*                                                                         *)
(* sys is what the kernel and the device database say at the moment:       *)
(*   sys.kind[p]  whether there is a node, and of which kind               *)
(*   sys.db[id]   the lines of a database file, or Missing                 *)
(* What a node says while it is there does not change (Fixed).             *)
(***************************************************************************)
EXTENDS Integers, Sequences, SequencesExt, FiniteSets

CONSTANTS Path,          \* the syspaths
          ParentOf,      \* the directory above each of them, or "/sys"
          Area,          \* "devices", "module", "drivers", "class": where a path is
          SysName,       \* the last component of each path
          BusOf,         \* the component before "drivers" in the path of a driver
          ClassOnly,     \* devices that are listed below /sys/class and have no number
          Number,        \* the words that parse as numbers
          BeforeEq,      \* for the words with a "=" in them: what is before it
          Key,           \* the keys of properties
          KeyOrder,      \* the order in which their lines are read
          Fixed,         \* uevent files, links and attributes (node), and who has which
                         \* number, name, index or place (devs, dev, net, places)
          MaxChange      \* a bound on the changes of sysfs and the database

Ok == "ok"
Missing == <<"missing">>
NoId == <<>>
NoNumber == <<"0", "0">>
Word(w) == IF w = "" THEN {} ELSE {w}

\* The one word of a property.
word_of(value) == IF value = {} THEN "" ELSE CHOOSE w \in value : TRUE

\* The device that a client holds, sysfs with the database, and how often those have
\* changed since the device was made.
VARIABLES dev, sysfs, changes

deviceVars == <<dev, sysfs, changes>>

NoProperty == [k \in Key |-> {}]

new_device ==
    [syspath |-> "", action |-> "Invalid", seqnum |-> "0", devnum |-> NoNumber,
     devtype |-> "", devname |-> "", ifindex |-> "0", diskseq |-> "0", devmode |-> "max",
     subsystem |-> "", driver_subsystem |-> "", driver |-> "", sysname |-> "", device_id |-> NoId,
     usec_initialized |-> "0", devlink_priority |-> "0", database_version |-> "0",
     parent |-> "", properties |-> NoProperty, properties_db |-> NoProperty,
     nulstr |-> NoProperty, all_tags |-> {}, current_tags |-> {}, devlinks |-> {},
     sysattr |-> {}, properties_buf_outdated |-> TRUE, devlinks_outdated |-> TRUE,
     tags_outdated |-> TRUE, uevent_loaded |-> FALSE, subsystem_set |-> FALSE,
     parent_set |-> FALSE, driver_set |-> FALSE, db_loaded |-> FALSE,
     is_initialized |-> FALSE, sealed |-> FALSE, err |-> Ok, ret |-> {}]

\* The ? of the code, and a match on Ok and Err.  (The singleton has dv evaluated
\* once.)
Then(dv, Op(_)) == CHOOSE r \in {IF d.err = Ok THEN Op(d) ELSE d : d \in {dv}} : TRUE

OnErr(dv, Op(_), Else(_)) ==
    CHOOSE r \in {IF d.err = Ok THEN Op(d) ELSE Else([d EXCEPT !.err = Ok]) : d \in {dv}} : TRUE

fail(dv, errno) == [dv EXCEPT !.err = errno, !.ret = {}]
answer(dv, value) == [dv EXCEPT !.ret = value]

\* A getter of a field answers ENOENT for one that is not set.
field(dv, value, unset) == IF value = unset THEN fail(dv, "ENOENT") ELSE answer(dv, {value})

-----------------------------------------------------------------------------
\* Properties, tags and links

add_property_stale(dv, key, value) == [dv EXCEPT !.properties[key] = value]

\* add_property_aux: an empty value removes the property.
add_property_internal(dv, key, value) ==
    [dv EXCEPT !.properties[key] = value, !.properties_buf_outdated = TRUE]

\* Both tables; the second is the one to be kept in the database.
add_property(dv, key, value) ==
    [add_property_internal(dv, key, value) EXCEPT !.properties_db[key] = value]

add_tag(dv, tag, both) ==
    [dv EXCEPT !.all_tags = @ \cup {tag}, !.current_tags = IF both THEN @ \cup {tag} ELSE @,
               !.tags_outdated = TRUE]

add_devlink(dv, link) == [dv EXCEPT !.devlinks = @ \cup {link}, !.devlinks_outdated = TRUE]

update_properties_bufs(dv) ==
    IF dv.properties_buf_outdated
    THEN [dv EXCEPT !.nulstr = dv.properties, !.properties_buf_outdated = FALSE] ELSE dv

get_properties_nulstr(dv) == update_properties_bufs(dv)

-----------------------------------------------------------------------------
\* Setters.  One that parses a number has set the property by the time it fails,
\* but for set_devnum, which parses first.

set_subsystem(dv, s) ==
    [add_property_internal(dv, "SUBSYSTEM", Word(s)) EXCEPT !.subsystem = s, !.subsystem_set = TRUE]

\* The component before "drivers" in the path.
set_drivers_subsystem(dv) ==
    [set_subsystem(dv, "drivers") EXCEPT !.driver_subsystem = BusOf[dv.syspath]]

set_devtype(dv, w) == [add_property_internal(dv, "DEVTYPE", Word(w)) EXCEPT !.devtype = w]

\* A property with a number.
numeric(dv, key, w, Set(_)) ==
    Then(add_property_internal(dv, key, Word(w)),
         LAMBDA d : IF w \in Number THEN Set(d) ELSE fail(d, "EINVAL"))

set_ifindex(dv, w) == numeric(dv, "IFINDEX", w, LAMBDA d : [d EXCEPT !.ifindex = w])

\* "/dev/" is put before a relative name; a name is absolute here.
set_devname(dv, w) == [add_property_internal(dv, "DEVNAME", Word(w)) EXCEPT !.devname = w]

set_devmode(dv, w) == numeric(dv, "DEVMODE", w, LAMBDA d : [d EXCEPT !.devmode = w])

set_devnum(dv, major, minor) ==
    IF major \in Number /\ minor \in Number
    THEN [add_property_internal(add_property_internal(dv, "MAJOR", {major}), "MINOR", {minor})
            EXCEPT !.devnum = <<major, minor>>]
    ELSE fail(dv, "EINVAL")

set_diskseq(dv, w) == numeric(dv, "DISKSEQ", w, LAMBDA d : [d EXCEPT !.diskseq = w])

set_action(dv, a) == [add_property_internal(dv, "ACTION", {a}) EXCEPT !.action = a]

DeviceAction == {"add", "remove", "change", "move", "online", "offline", "bind", "unbind"}

set_action_from_string(dv, a) == IF a \in DeviceAction THEN set_action(dv, a) ELSE fail(dv, "EINVAL")

set_seqnum(dv, w) == [add_property_internal(dv, "SEQNUM", {w}) EXCEPT !.seqnum = w]

set_seqnum_from_string(dv, w) == IF w \in Number THEN set_seqnum(dv, w) ELSE fail(dv, "EINVAL")

set_driver(dv, w) == [add_property_internal(dv, "DRIVER", Word(w)) EXCEPT !.driver = w, !.driver_set = TRUE]

set_usec_initialized(dv, w) ==
    [add_property_internal(dv, "USEC_INITIALIZED", {w}) EXCEPT !.usec_initialized = w]

-----------------------------------------------------------------------------
\* Where a device comes from

\* What is wrong with a path, if verified.
syspath_error(sys, p) ==
    CASE sys.kind[p] = "none"                            -> "ENODEV"
      [] sys.kind[p] = "file" /\ Area[p] = "devices"     -> "ENOTDIR"
      [] sys.kind[p] = "file"                            -> "ENODEV"
      [] sys.kind[p] = "nouevent" /\ Area[p] = "devices" -> "ENOENT"
      [] OTHER                                           -> Ok

set_syspath(sys, dv, p, verify) ==
    IF verify /\ syspath_error(sys, p) # Ok THEN fail(dv, syspath_error(sys, p))
    ELSE [add_property_internal(dv, "DEVPATH", {p}) EXCEPT !.syspath = p]

from_syspath(sys, p) == set_syspath(sys, new_device, p, TRUE)

\* A line is split at every "=": what follows a second one is lost.
second_token(w) == IF w \in DOMAIN BeforeEq THEN BeforeEq[w] ELSE w

second_tokens(value) == {second_token(w) : w \in value}

\* One line of a message.  MAJOR and MINOR are kept for the end, TAGS ignored.  What
\* has no arm of its own (DRIVER, IFINDEX, DISKSEQ and others) becomes a property
\* and sets no field.
nulstr_line(sys, dv, key, line) ==
    LET value == second_tokens(line)
        w     == word_of(value) IN
    CASE value = {}                                 -> dv
      [] key = "DEVPATH"                            -> set_syspath(sys, dv, w, FALSE)
      [] key = "ACTION"                             -> set_action_from_string(dv, w)
      [] key = "SUBSYSTEM"                          -> set_subsystem(dv, w)
      [] key = "DEVTYPE"                            -> set_devtype(dv, w)
      [] key = "DEVNAME"                            -> set_devname(dv, w)
      [] key = "SEQNUM"                             -> set_seqnum_from_string(dv, w)
      [] key \in {"MAJOR", "MINOR", "TAGS", "CURRENT_TAGS"} -> dv
      [] OTHER                                      -> add_property_internal(dv, key, value)

\* The lines of a message in some order, then the number, then the buffer.
from_nulstr(sys, msg) ==
    LET line(dv, key) == Then(dv, LAMBDA d : nulstr_line(sys, d, key, msg[key]))
        number(d) == IF msg["MAJOR"] = {} THEN d
                     ELSE set_devnum(d, word_of(msg["MAJOR"]), word_of(msg["MINOR"])) IN
    Then(Then(FoldLeft(line, new_device, KeyOrder), number), update_properties_bufs)

-----------------------------------------------------------------------------
\* The uevent file of the kernel

uevent_line(dv, key, value) ==
    LET w == word_of(value) IN
    CASE value = {}      -> dv
      [] key = "DEVTYPE" -> set_devtype(dv, w)
      [] key = "IFINDEX" -> set_ifindex(dv, w)
      [] key = "DEVNAME" -> set_devname(dv, w)
      [] key = "DEVMODE" -> set_devmode(dv, w)
      [] key = "DISKSEQ" -> set_diskseq(dv, w)
      [] OTHER           -> dv

\* A file that cannot be opened is no error, unless for another reason than that
\* the device is gone; it is read again at the next call.
read_uevent_file(sys, dv) ==
    LET kind == sys.kind[dv.syspath]
        uevent == Fixed.node[dv.syspath].uevent
        line(d, key) == Then(d, LAMBDA x : uevent_line(x, key, uevent[key]))
        number(d) == IF uevent["MAJOR"] = {} THEN d
                     ELSE set_devnum(d, word_of(uevent["MAJOR"]), word_of(uevent["MINOR"])) IN
    CASE dv.uevent_loaded \/ dv.sealed  -> dv
      [] kind \in {"none", "nouevent"} -> dv
      [] kind = "eio"                  -> fail(dv, "EIO")
      [] OTHER -> Then(Then(FoldLeft(line, dv, KeyOrder), number),
                       LAMBDA d : [d EXCEPT !.uevent_loaded = TRUE])

get_ifindex(sys, dv) == Then(read_uevent_file(sys, dv), LAMBDA d : field(d, d.ifindex, "0"))
get_devtype(sys, dv) == Then(read_uevent_file(sys, dv), LAMBDA d : field(d, d.devtype, ""))
get_devnum(sys, dv) == Then(read_uevent_file(sys, dv), LAMBDA d : field(d, d.devnum, NoNumber))
get_devname(sys, dv) == Then(read_uevent_file(sys, dv), LAMBDA d : field(d, d.devname, ""))
get_diskseq(sys, dv) == Then(read_uevent_file(sys, dv), LAMBDA d : field(d, d.diskseq, "0"))

get_syspath(dv) == field(dv, dv.syspath, "")
get_devpath(dv) == field(dv, dv.syspath, "")
get_action(dv) == field(dv, dv.action, "Invalid")
get_seqnum(dv) == field(dv, dv.seqnum, "0")

set_sysname_and_sysnum(dv) == [dv EXCEPT !.sysname = SysName[dv.syspath]]

get_sysname(dv) ==
    Then(IF dv.sysname = "" THEN set_sysname_and_sysnum(dv) ELSE dv, LAMBDA d : answer(d, {d.sysname}))

\* The number at the end of the name, "" if it has none, is part of the name here.
get_sysnum(dv) == get_sysname(dv)

read_subsystem(sys, dv) ==
    LET link == Fixed.node[dv.syspath].subsystem IN
    CASE link # ""                      -> set_subsystem(dv, link)
      [] Area[dv.syspath] = "module"    -> set_subsystem(dv, "module")
      [] Area[dv.syspath] = "drivers"   -> set_drivers_subsystem(dv)
      [] Area[dv.syspath] = "class"     -> set_subsystem(dv, "subsystem")
      [] OTHER                          -> [dv EXCEPT !.subsystem_set = TRUE]

get_subsystem(sys, dv) ==
    Then(IF dv.subsystem_set THEN dv ELSE read_subsystem(sys, dv), LAMBDA d : field(d, d.subsystem, ""))

get_driver(sys, dv) ==
    Then(IF dv.driver_set THEN dv ELSE set_driver(dv, Fixed.node[dv.syspath].driver),
         LAMBDA d : field(d, d.driver, ""))

-----------------------------------------------------------------------------
\* The device's id, its database file and what is in it

number_id(dv) == <<IF dv.subsystem = "block" THEN "b" ELSE "c", dv.devnum[1], dv.devnum[2]>>

name_id(dv) ==
    IF dv.subsystem = "drivers" THEN <<"+drivers", dv.driver_subsystem, dv.sysname>>
    ELSE <<"+", dv.subsystem, dv.sysname>>

keep_id(dv, id) == answer([dv EXCEPT !.device_id = id], {id})

\* An id, once made, is kept.  The errors of get_devnum and get_ifindex only
\* decide which kind of id it is.
get_device_id(sys, dv) ==
    IF dv.device_id # NoId THEN answer(dv, {dv.device_id})
    ELSE Then(get_subsystem(sys, dv), LAMBDA s :
           OnErr(get_devnum(sys, s), LAMBDA d : keep_id(d, number_id(d)), LAMBDA n :
             OnErr(get_ifindex(sys, n), LAMBDA d : keep_id(d, <<"n", d.ifindex>>), LAMBDA i :
               Then(get_sysname(i), LAMBDA d : keep_id(d, name_id(d))))))

\* A line of the database: its kind and one or two words.
handle_db_line(dv, line) ==
    CASE line[1] = "G" -> add_tag(dv, line[2], FALSE)
      [] line[1] = "Q" -> add_tag(dv, line[2], TRUE)
      [] line[1] = "S" -> add_devlink(dv, line[2])
      [] line[1] = "E" -> IF Len(line) # 3 THEN fail(dv, "EINVAL")
                          ELSE add_property_internal(dv, line[2], Word(line[3]))
      [] line[1] = "I" -> IF line[2] \in Number THEN set_usec_initialized(dv, line[2])
                          ELSE fail(dv, "EINVAL")
      [] line[1] = "L" -> IF line[2] \in Number THEN [dv EXCEPT !.devlink_priority = line[2]]
                          ELSE fail(dv, "EINVAL")
      [] line[1] = "V" -> IF line[2] \in Number THEN [dv EXCEPT !.database_version = line[2]]
                          ELSE fail(dv, "EINVAL")
      [] OTHER         -> dv

\* The device counts as loaded and initialized before its lines are handled.
read_db_internal_filename(sys, dv, id) ==
    LET line(d, l) == Then(d, LAMBDA x : handle_db_line(x, l)) IN
    IF sys.db[id] = Missing THEN dv
    ELSE FoldLeft(line, [dv EXCEPT !.is_initialized = TRUE, !.db_loaded = TRUE], sys.db[id])

read_db_internal(sys, dv, force) ==
    IF dv.db_loaded \/ (~force /\ dv.sealed) THEN dv
    ELSE Then(get_device_id(sys, dv), LAMBDA d : read_db_internal_filename(sys, d, d.device_id))

read_db(sys, dv) == read_db_internal(sys, dv, FALSE)

\* An error ENOENT is turned into an answer.
absent(dv, value) == IF dv.err = "ENOENT" THEN answer([dv EXCEPT !.err = Ok], value) ELSE dv

get_is_initialized(sys, dv) ==
    LET said(d) == IF d.err = Ok THEN answer(d, {IF d.is_initialized THEN "true" ELSE "false"})
                   ELSE absent(d, {"false"}) IN
    CHOOSE r \in {said(d) : d \in {read_db(sys, dv)}} : TRUE

has_tag(sys, dv, tag) ==
    Then(read_db(sys, dv), LAMBDA d : answer(d, d.all_tags \cap {tag}))

has_current_tag(sys, dv, tag) ==
    Then(read_db(sys, dv), LAMBDA d : answer(d, d.current_tags \cap {tag}))

\* The lists become properties.  Without a link the mark stays.
prepare_devlinks(dv) ==
    IF dv.devlinks_outdated /\ dv.devlinks # {}
    THEN [add_property_internal(dv, "DEVLINKS", dv.devlinks) EXCEPT !.devlinks_outdated = FALSE]
    ELSE dv

prepare_tags(dv) ==
    LET all(d) == IF d.all_tags = {} THEN d ELSE add_property_internal(d, "TAGS", d.all_tags)
        cur(d) == IF d.current_tags = {} THEN d
                  ELSE add_property_internal(d, "CURRENT_TAGS", d.current_tags) IN
    IF dv.tags_outdated THEN [cur(all(dv)) EXCEPT !.tags_outdated = FALSE] ELSE dv

properties_prepare(sys, dv) ==
    Then(Then(read_uevent_file(sys, dv), LAMBDA d : read_db(sys, d)),
         LAMBDA d : prepare_tags(prepare_devlinks(d)))

get_property_value(sys, dv, key) ==
    Then(properties_prepare(sys, dv),
         LAMBDA d : IF d.properties[key] = {} THEN fail(d, "ENOENT") ELSE answer(d, d.properties[key]))

-----------------------------------------------------------------------------
\* Attributes.  The cache is a set of pairs.

remove_cached_sysattr_value(dv, attr) == [dv EXCEPT !.sysattr = {c \in @ : c[1] # attr}]

cache_sysattr_value(dv, attr, value) ==
    LET d == remove_cached_sysattr_value(dv, attr) IN
    IF value = "" THEN d ELSE [d EXCEPT !.sysattr = @ \cup {<<attr, value>>}]

get_cached_sysattr_value(dv, attr) == {c[2] : c \in {x \in dv.sysattr : x[1] = attr}}

\* A value that is cached is not read again.  attrs[a] is a value, or the reason why
\* there is none.
get_sysattr_value(sys, dv, attr) ==
    LET read == Fixed.node[dv.syspath].attrs[attr] IN
    CASE get_cached_sysattr_value(dv, attr) # {} -> answer(dv, get_cached_sysattr_value(dv, attr))
      [] read.err = "ENOENT" -> fail(remove_cached_sysattr_value(dv, attr), "ENOENT")
      [] read.err = "EIO"    -> fail(dv, "EIO")
      [] OTHER               -> answer(cache_sysattr_value(dv, attr, read.value), {read.value})

\* No value only drops what is cached.  written is the error of the write.
set_sysattr_value(dv, attr, value, written) ==
    CASE value = {}                       -> remove_cached_sysattr_value(dv, attr)
      [] value # {} /\ written = "open"   -> fail(dv, "EACCES")
      [] value # {} /\ written = "write"  -> fail(remove_cached_sysattr_value(dv, attr), "EIO")
      [] attr = "uevent"                  -> dv
      [] OTHER                            -> cache_sysattr_value(dv, attr, word_of(value))

trigger(dv, action, written) == set_sysattr_value(dv, "uevent", {action}, written)

-----------------------------------------------------------------------------
\* Other ways to a device

\* The directories above a path, nearest first.
ancestors[p \in Path] ==
    IF ParentOf[p] = "/sys" THEN <<>> ELSE <<ParentOf[p]>> \o ancestors[ParentOf[p]]

\* The nearest directory that is a device; one that is none for another reason
\* than ENODEV ends the search.
new_from_child(sys, dv) ==
    LET above == ancestors[dv.syspath]
        first == SelectInSeq(above, LAMBDA p : syspath_error(sys, p) # "ENODEV") IN
    IF first = 0 THEN fail(new_device, "ENODEV") ELSE from_syspath(sys, above[first])

\* ENODEV is kept as the answer that there is none.
keep_parent(dv, found) ==
    IF found.err \notin {Ok, "ENODEV"} THEN fail(dv, found.err)
    ELSE field([dv EXCEPT !.parent = found.syspath, !.parent_set = TRUE], found.syspath, "")

get_parent(sys, dv) ==
    IF dv.parent_set THEN field(dv, dv.parent, "")
    ELSE CHOOSE r \in {keep_parent(dv, found) : found \in {new_from_child(sys, dv)}} : TRUE

\* devs gives the path of a device number of a type; what is found must be what
\* was looked for.
from_mode_and_devnum(sys, type, devnum) ==
    LET p == Fixed.devs[<<type, devnum>>]
        number(d) == IF d.devnum # devnum THEN fail(d, "EINVAL") ELSE get_subsystem(sys, d)
        kind(d)   == IF (d.subsystem = "block") # (type = "b") THEN fail(d, "EINVAL") ELSE d IN
    CASE type \notin {"b", "c"} -> fail(new_device, "ENOTTY")
      [] devnum[1] = "0" \/ p = "" -> fail(new_device, "ENODEV")
      [] OTHER -> Then(Then(Then(from_syspath(sys, p), LAMBDA d : get_devnum(sys, d)), number), kind)

from_devnum(sys, type, devnum) ==
    IF type \notin {"b", "c"} THEN fail(new_device, "EINVAL") ELSE from_mode_and_devnum(sys, type, devnum)

\* The number a node of /dev stands for.
from_devname(sys, name) ==
    IF Fixed.dev[name] = Missing THEN fail(new_device, "ENODEV")
    ELSE from_mode_and_devnum(sys, Fixed.dev[name][1], Fixed.dev[name][2])

from_ifindex(sys, ifindex) ==
    LET p == Fixed.net[ifindex]
        no_such(d)  == IF d.err = "ENOENT" THEN fail(d, "ENXIO") ELSE d
        index(x) == CHOOSE r \in {no_such(d) : d \in {get_ifindex(sys, x)}} : TRUE IN
    IF p = "" THEN fail(new_device, "ENXIO")
    ELSE Then(Then(from_syspath(sys, p), index),
              LAMBDA d : IF d.ifindex # ifindex THEN fail(d, "ENXIO") ELSE d)

\* places gives the paths to try, in their order.
from_subsystem_sysname(sys, subsystem, sysname) ==
    LET places == Fixed.places[<<subsystem, sysname>>]
        first  == SelectInSeq(places, LAMBDA p : syspath_error(sys, p) # "ENODEV") IN
    IF first = 0 THEN fail(new_device, "ENODEV") ELSE from_syspath(sys, places[first])

from_device_id(sys, id) ==
    CASE id[1] \in {"b", "c"}  -> from_devnum(sys, id[1], <<id[2], id[3]>>)
      [] id[1] = "n"           -> IF id[2] \in Number THEN from_ifindex(sys, id[2])
                                  ELSE fail(new_device, "EINVAL")
      [] id[1] = "+"           -> from_subsystem_sysname(sys, id[2], id[3])
      [] id[1] = "+drivers"    -> from_subsystem_sysname(sys, "drivers", id[3])
      [] OTHER                 -> fail(new_device, "EINVAL")

\* The node is opened and must be the device's; a disk that is initialized is
\* compared by its sequence number too, unless it says not to.
open_checks(sys, dv, node) ==
    CASE node = Missing                                   -> fail(dv, "ENOENT")
      [] node # Missing /\ node[2] # dv.devnum            -> fail(dv, "ENXIO")
      [] node # Missing /\ (dv.subsystem = "block") # (node[1] = "b") -> fail(dv, "ENXIO")
      [] OTHER                                            -> dv

\* ID_IGNORE_DISKSEQ that is not there is taken as not to compare.
open_diskseq(sys, dv, node) ==
    LET opened(d)  == answer(d, {node})
        compare(d) == IF d.diskseq # node[3] THEN fail(d, "ENXIO") ELSE opened(d)
        seq(d)     == CHOOSE r \in {IF s.err = Ok THEN compare(s) ELSE absent(s, {node})
                                     : s \in {get_diskseq(sys, d)}} : TRUE
        ign(d)     == CASE d.err # Ok -> absent(d, {node})
                        [] d.ret = {"true"} -> opened(d)
                        [] d.ret = {"false"} -> seq(d)
                        [] OTHER -> fail(d, "EINVAL")
        ini(d)     == IF d.ret = {"false"} THEN opened(d)
                      ELSE CHOOSE r \in {ign(i) : i \in {get_property_value(sys, d, "ID_IGNORE_DISKSEQ")}} : TRUE IN
    Then(get_is_initialized(sys, dv), ini)

\* A device without a name or a number cannot be opened; one without a subsystem
\* can.
no_exec(dv) == IF dv.err = "ENOENT" THEN fail(dv, "ENOEXEC") ELSE dv

open_node(sys, dv) ==
    Then(open_checks(sys, dv, Fixed.dev[dv.devname]), LAMBDA d : open_diskseq(sys, d, Fixed.dev[d.devname]))

open(sys, dv) ==
    LET num(d) == CHOOSE r \in {no_exec(x) : x \in {get_devnum(sys, d)}} : TRUE
        sub(d) == CHOOSE r \in {absent(x, {}) : x \in {get_subsystem(sys, d)}} : TRUE IN
    Then(Then(Then(CHOOSE r \in {no_exec(x) : x \in {get_devname(sys, dv)}} : TRUE, num), sub),
         LAMBDA d : open_node(sys, d))

-----------------------------------------------------------------------------
\* A client that holds a device, while the kernel and udev go on

\* The caller has its answer.
forget(dv) == [dv EXCEPT !.err = Ok, !.ret = {}]

Calls(s, dv) ==
    LET d == forget(dv)
        after == <<get_devnum(s, d), get_devtype(s, d), get_sysname(d), get_sysnum(d), get_action(d),
                   get_seqnum(d), get_syspath(d), get_devpath(d), get_subsystem(s, d), get_driver(s, d),
                   has_tag(s, d, "old"), has_current_tag(s, d, "old"),
                   get_device_id(s, d), get_property_value(s, d, "TAGS"), get_properties_nulstr(d),
                   get_sysattr_value(s, d, "size"), get_parent(s, d), open(s, d),
                   add_property(d, "ID_IGNORE_DISKSEQ", {"true"}),
                   set_sysattr_value(d, "size", {"9"}, Ok), set_sysattr_value(d, "size", {"9"}, "write"),
                   trigger(d, "change", Ok)>> IN
    {forget(after[i]) : i \in DOMAIN after}

Receive(msg) ==
    /\ dev' = from_nulstr(sysfs, msg) /\ dev'.err = Ok
    /\ changes' = 0 /\ UNCHANGED sysfs

Make(p) ==
    /\ dev' = from_syspath(sysfs, p) /\ dev'.err = Ok
    /\ changes' = 0 /\ UNCHANGED sysfs

Call ==
    /\ dev.syspath # ""
    /\ dev' \in Calls(sysfs, dev)
    /\ UNCHANGED <<sysfs, changes>>

\* A node comes, goes or loses its uevent file.
KernelChanges(p, kind) ==
    /\ sysfs' = [sysfs EXCEPT !.kind[p] = kind]
    /\ changes < MaxChange /\ changes' = changes + 1
    /\ UNCHANGED dev

DatabaseChanges(id, lines) ==
    /\ sysfs' = [sysfs EXCEPT !.db[id] = lines]
    /\ changes < MaxChange /\ changes' = changes + 1
    /\ UNCHANGED dev

-----------------------------------------------------------------------------
\* Properties

Loaded == dev.syspath # ""

\* The buffer that is broadcast is that of the properties unless it is marked as
\* outdated, every field agrees with its property (the driver's once it is read: that
\* of a message is only a property), and the lists of tags and links with theirs
\* unless they are marked: whatever was read in which order, also when
\* a line of a file was refused half way.
DeviceCoherent ==
    /\ ~dev.properties_buf_outdated => dev.nulstr = dev.properties
    /\ dev.properties["DEVTYPE"] = Word(dev.devtype)
    /\ dev.properties["DEVNAME"] = Word(dev.devname)
    /\ dev.properties["SUBSYSTEM"] = Word(dev.subsystem)
    /\ dev.driver_set => dev.properties["DRIVER"] = Word(dev.driver)
    /\ dev.properties["MAJOR"] = IF dev.devnum = NoNumber THEN {} ELSE {dev.devnum[1]}
    /\ dev.ifindex # "0" => dev.properties["IFINDEX"] = {dev.ifindex}
    /\ dev.current_tags \subseteq dev.all_tags
    /\ ~dev.tags_outdated => /\ dev.properties["TAGS"] = dev.all_tags
                             /\ dev.properties["CURRENT_TAGS"] = dev.current_tags
    /\ ~dev.devlinks_outdated => dev.properties["DEVLINKS"] = dev.devlinks

\* What send_device broadcasts, receive_device reads back, also with a property a rule
\* has added: the same properties, each up to a "=" in it (split), but for the tags,
\* which from_nulstr drops.  The fields that come back are those of the device number
\* and the path: no driver, index or sequence number of a disk.
RoundTrip ==
    Loaded => \A d \in {dev, add_property(dev, "ID_LABEL", {"a=b"})} :
        LET sent == get_properties_nulstr(d).nulstr
            back == from_nulstr(sysfs, sent) IN
        /\ back.err = Ok
        /\ back.properties = [k \in Key |-> IF k \in {"TAGS", "CURRENT_TAGS"} THEN {}
                                            ELSE second_tokens(sent[k])]
        /\ back.syspath = dev.syspath /\ back.devnum = dev.devnum

\* The id under which a device's database is kept leads back to the device, as long
\* as nothing changed: but for a device of a class without a number, which
\* from_subsystem_sysname looks for below /sys/class/<class>/devices.  So does the
\* name of its node.
IdFindsDevice ==
    LET is_found(found) == found.err = Ok /\ found.syspath = dev.syspath IN
    changes = 0 =>
        /\ dev.device_id # NoId /\ dev.syspath \notin ClassOnly => is_found(from_device_id(sysfs, dev.device_id))
        /\ dev.devname # "" => is_found(from_devname(sysfs, dev.devname))
=============================================================================
