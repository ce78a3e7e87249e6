----------------------------- MODULE MCDevices ------------------------------
(***************************************************************************)
(* devmaster and its devices on small instances, one scene at a time:      *)
(*   queue       devmaster with its workers, on a set of rules             *)
(*   rule        one token of a rule file                                  *)
(*   device      one device object while sysfs and the database change     *)
(*   enumerator  an enumerator with its filters                            *)
(***************************************************************************)
EXTENDS Devmaster, Rules, DeviceEnumerator

CONSTANT MaxFilter

VARIABLES scene, raw

allVars == <<vars, deviceVars, enumVars, scene, raw>>

-----------------------------------------------------------------------------
\* A sysfs: a PCI device with a driver, a disk with a partition and a network
\* interface below it; a LED of a class; a module.

MCPath == {"/devices", "pci", "net", "eth0", "sda", "sda1", "led", "/bus", "/bus/pci", "drivers",
           "e1000", "/module", "loop"}

MCParentOf == [p \in MCPath |->
    CASE p \in {"/devices", "/bus", "/module"} -> "/sys"
      [] p = "pci" -> "/devices"         [] p \in {"net", "sda", "led"} -> "pci"
      [] p = "eth0" -> "net"             [] p = "sda1" -> "sda"
      [] p = "/bus/pci" -> "/bus"        [] p = "drivers" -> "/bus/pci"
      [] p = "e1000" -> "drivers"        [] OTHER -> "/module"]

MCArea == [p \in MCPath |->
    CASE p \in {"/bus", "/module"} -> "other"
      [] p = "/bus/pci" -> "class"
      [] p \in {"drivers", "e1000"} -> "drivers"
      [] p = "loop" -> "module"
      [] OTHER -> "devices"]

MCSysName == [p \in MCPath |-> IF p = "/bus/pci" THEN "pci" ELSE p]
MCBusOf   == [p \in MCPath |-> "pci"]

MCKeyOrder == <<"ACTION", "DEVPATH", "SUBSYSTEM", "DEVTYPE", "MAJOR", "MINOR", "DEVNAME", "SEQNUM",
                "IFINDEX", "DISKSEQ", "DEVMODE", "DRIVER", "DEVLINKS", "TAGS", "CURRENT_TAGS",
                "USEC_INITIALIZED", "ID_IGNORE_DISKSEQ", "ID_LABEL">>

MCKey == ToSet(MCKeyOrder)

Props(pairs) == [k \in MCKey |-> {w[2] : w \in {x \in pairs : x[1] = k}}]

Node(uevent, subsystem, driver) ==
    [uevent |-> Props(uevent), subsystem |-> subsystem, driver |-> driver,
     attrs |-> [size |-> [err |-> Ok, value |-> "7"]]]

Nodes == [p \in MCPath |->
    CASE p = "pci"  -> Node({}, "pci", "e1000")
      [] p = "eth0" -> Node({<<"IFINDEX", "2">>}, "net", "")
      [] p = "sda"  -> Node({<<"MAJOR", "8">>, <<"MINOR", "0">>, <<"DEVNAME", "/dev/sda">>,
                             <<"DEVTYPE", "disk">>, <<"DISKSEQ", "5">>}, "block", "")
      [] p = "sda1" -> Node({<<"MAJOR", "8">>, <<"MINOR", "1">>, <<"DEVNAME", "/dev/sda1">>}, "block", "")
      [] p = "led"  -> Node({}, "leds", "")
      [] OTHER      -> Node({}, "", "")]

Kinds == [p \in MCPath |->
    CASE p \in {"pci", "eth0", "sda", "sda1", "led"} -> "dev"
      [] p \in {"/devices", "net"} -> "nouevent"
      [] OTHER -> "dir"]

Ids == {<<"b", "8", "0">>, <<"b", "8", "1">>, <<"n", "2">>, <<"+", "pci", "pci">>, <<"+", "block", "sda">>,
        <<"+", "net", "eth0">>, <<"+", "leds", "led">>, <<"+drivers", "pci", "e1000">>,
        <<"+", "module", "loop">>, <<"+", "subsystem", "pci">>, <<"+", "block", "sda1">>,
        <<"+drivers", "pci", "drivers">>}

Database == {<<<<"I", "1">>, <<"G", "old">>, <<"Q", "seat">>, <<"S", "/dev/disk">>, <<"E", "ID_IGNORE_DISKSEQ", "false">>>>,
             <<<<"Q", "seat">>, <<"V", "one">>, <<"S", "/dev/disk">>>>}

\* Where a device is looked for by subsystem and name.
Places == [x \in {<<id[2], id[3]>> : id \in {i \in Ids : i[1] = "+"}}
                  \cup {<<"drivers", "e1000">>, <<"drivers", "drivers">>} |->
    CASE x[1] = "subsystem" -> <<"/bus/pci">>
      [] x[1] = "leds" -> <<>>
      [] x[1] \in {"block", "net"} -> <<>>
      [] OTHER -> <<x[2]>>]

Sysfs0 == [kind |-> Kinds, db |-> [id \in Ids |-> Missing]]

MCFixed == [node |-> Nodes,
           devs |-> [x \in {"b", "c"} \X ({"8"} \X {"0", "1"}) |->
                       IF x = <<"b", <<"8", "0">>>> THEN "sda"
                       ELSE IF x = <<"b", <<"8", "1">>>> THEN "sda1" ELSE ""],
           dev |-> [n \in {"", "/dev/sda", "/dev/sda1"} |->
                      CASE n = "/dev/sda" -> <<"b", <<"8", "0">>, "5">>
                        [] n = "/dev/sda1" -> <<"b", <<"8", "1">>, "0">>
                        [] OTHER -> Missing],
           net |-> [i \in {"2"} |-> "eth0"],
           places |-> Places]

Messages == {Props({<<"DEVPATH", "sda">>, <<"ACTION", "add">>, <<"SUBSYSTEM", "block">>, <<"SEQNUM", "1">>,
                    <<"MAJOR", "8">>, <<"MINOR", "0">>, <<"TAGS", "old">>}),
             Props({<<"DEVPATH", "pci">>, <<"ACTION", "bind">>, <<"SUBSYSTEM", "pci">>, <<"SEQNUM", "2">>,
                    <<"DRIVER", "e1000">>, <<"ID_LABEL", "a=b">>}),
             Props({<<"DEVPATH", "eth0">>, <<"ACTION", "remove">>, <<"SUBSYSTEM", "net">>, <<"IFINDEX", "2">>})}

MCClassOnly == {"led"}
MCBeforeEq  == [w \in {"a=b"} |-> "a"]
MCNumber    == {"0", "1", "2", "5", "7", "8", "9"}

-----------------------------------------------------------------------------
\* The enumerator's view of it

Words == MCPath \cup MCKey \cup {"block", "leds", "module", "subsystem", "disk"}
MCMatchesOf == [p \in {"*", "sd*", "block", "net", "pci", "SUBSYSTEM"} |->
    CASE p = "*" -> Words \cup {"net", "pci", "drivers"}
      [] p = "sd*" -> {"sda", "sda1"}
      [] OTHER -> {p}]

\* "sda1" begins with "sda" and is below it; "pci" is a prefix of all below it.
MCStartsWith == [p \in MCPath |-> {p} \cup {q \in MCPath : p \in ToSet(ancestors[q])}]
MCTextOrder  == <<"/bus", "/bus/pci", "drivers", "e1000", "/devices", "pci", "led", "net", "eth0", "sda",
                  "sda1", "/module", "loop">>
MCBefore     == {<<MCTextOrder[x[1]], MCTextOrder[x[2]]>> : x \in {y \in (1..13) \X (1..13) : y[1] < y[2]}}
MCBusDir     == <<[name |-> "pci", path |-> "/bus/pci", devices |-> <<"pci">>, drivers |-> <<"e1000">>]>>
MCClassDir   == <<<<"block", <<"sda1", "sda">>>>, <<"net", <<"eth0">>>>, <<"leds", <<"led">>>>>>
MCModuleDir  == <<"loop">>

Filters(e) ==
    {set_enumerator_type(e, t) : t \in EnumerationType}
    \cup {add_match_subsystem(e, p, w) : p \in {"block", "net"}, w \in BOOLEAN}
    \cup {add_match_sysname(e, "sd*", w) : w \in BOOLEAN}
    \cup {add_match_property(e, "SUBSYSTEM", "block")}
    \cup {add_match_parent(e, "pci"), add_match_parent_incremental(e, "sda")}
    \cup {add_prioritized_subsystem(e, s) : s \in {"block", "net"}}

-----------------------------------------------------------------------------
\* Rules

RawAttr == {None, "ACTION", "x", "7", "file", "program", "builtin", "parent", "arch", "$nobody"}

MCGlob      == {"add", "change", "pci", "sda", "x", "%k", "7", "bus", "db_persist", "watch", "nowatch", "rest",
                "string_escape=none", "string_escape=replace", "kmod", "root", "$id"}
MCFormatted == {"%k", "$id", "$nobody"}
MCWellFormatted == RawAttr \ {"$nobody"}
MCNumeric   == {"7"}
MCBuiltin   == {"kmod"}
MCKnownName == {"root"}

Texts   == {"add", "x", "%k", "$id", "7", "bus", "kmod", "root", "[", "watch", "db_persist", "rest"}
RawValue == {Plain(v) : v \in Texts}
            \cup {[prefix |-> p, rest |-> v] : p \in {"static_node=", "link_priority=", "log_level="}, v \in {"7", "x", "rest"}}
RawToken == [key : RuleKey \cup {"OTHER"}, attr : RawAttr, op : OperatorType, value : RawValue]

Match(key, v) == [key |-> key, attr |-> None, op |-> "Match", value |-> Plain(v)]
Text(raws)    == [skip |-> FALSE, more |-> FALSE, raws |-> raws]
Comment       == [skip |-> TRUE, more |-> FALSE, raws |-> <<>>]

\* One file: devices that are added are let through, for "sda" a name is assigned.
MCRules == parse_rules(<<<<>>,
    <<<<Comment, [Text(<<Match("ACTION", "add")>>) EXCEPT !.more = TRUE], Text(<<Match("DEVPATH", "pci")>>),
        Text(<<Match("DEVPATH", "sda"), [Match("NAME", "x") EXCEPT !.op = "Assign"]>>)>>>>>>)

MCDeviceOf == <<[action |-> "add", devpath |-> "pci"], [action |-> "change", devpath |-> "sda"],
                [action |-> "add", devpath |-> "eth0"], [action |-> "Invalid", devpath |-> "eth0"]>>

ASSUME PanicsAssumption ==
    \E files \in {MCRules} :
        Panics = {s \in 1..MaxSeqnum : process_device(MCDeviceOf[s], files) = "panic"}

-----------------------------------------------------------------------------
NoRaw == [key |-> "OTHER", attr |-> None, op |-> "Match", value |-> Plain("x")]

MCInit ==
    /\ Init
    /\ dev = new_device /\ sysfs = Sysfs0 /\ changes = 0
    /\ EnumInit
    /\ \/ scene \in {"queue", "device", "enumerator"} /\ raw = NoRaw
       \/ scene = "rule" /\ raw \in RawToken

QueueStep ==
    /\ scene = "queue"
    /\ Next
    /\ UNCHANGED <<deviceVars, enumVars, scene, raw>>

\* A device may vanish or lose its uevent file, and its database be written.
DeviceStep ==
    /\ scene = "device"
    /\ \/ dev = new_device /\ \E p \in {"eth0", "sda", "led", "e1000", "loop", "/bus/pci"} : Make(p)
       \/ dev = new_device /\ \E m \in Messages : Receive(m)
       \/ Call
       \/ \E kind \in {"none", "nouevent", "eio"} :
            /\ Loaded /\ Area[dev.syspath] = "devices" /\ KernelChanges(dev.syspath, kind)
       \/ Loaded /\ dev.device_id # NoId /\ \E lines \in Database : DatabaseChanges(dev.device_id, lines)
    /\ UNCHANGED <<vars, enumVars, scene, raw>>

FilterCount ==
    Cardinality(en.subsystem) + Cardinality(en.not_subsystem) + Cardinality(en.sysname)
    + Cardinality(en.not_sysname) + Cardinality(en.property) + Cardinality(en.parent) + Len(en.prioritized)

EnumeratorStep ==
    /\ scene = "enumerator"
    /\ \/ Iterate
       \/ FilterCount < MaxFilter /\ \E e \in Filters(en) : Filter(e)
    /\ UNCHANGED <<vars, deviceVars, scene, raw>>

MCNext == QueueStep \/ DeviceStep \/ EnumeratorStep

QueueFairness ==
    /\ WF_allVars(scene = "queue" /\ MainStep /\ UNCHANGED <<deviceVars, enumVars, scene, raw>>)
    /\ \A w \in Worker :
         WF_allVars(scene = "queue" /\ WorkerStep(w) /\ UNCHANGED <<deviceVars, enumVars, scene, raw>>)

MCSpec == MCInit /\ [][MCNext]_allVars /\ QueueFairness

\* See Rules!AcceptedTokenOK: what parse_token accepts of any token.
TokenOK == AcceptedTokenOK(raw)

\* A device object agrees with itself, survives the trip over the socket and is
\* found by its own identifier (device.rs).
DeviceSound == DeviceCoherent /\ RoundTrip /\ IdFindsDevice

\* An enumeration finds what its filters ask for, each parent before its
\* children (device_enumerator.rs).
EnumerationSound == EnumerationComplete /\ EnumerationOrdered
=============================================================================
