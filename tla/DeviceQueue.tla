---------------------------- MODULE DeviceQueue -----------------------------
(***************************************************************************)
(* What devmaster promises of the device events it takes in, whatever its  *)
(* workers do: an event waits once, the oldest event that waits is taken   *)
(* up first, and an event is done with only after it was taken up.  Events *)
(* are not told apart by their device: several of one may be active.       *)
(***************************************************************************)
EXTENDS Integers

CONSTANT Seqnum

VARIABLES waiting, active

queueVars == <<waiting, active>>

Init == waiting = {} /\ active = {}

Insert(s) ==
    /\ s \notin waiting \cup active
    /\ waiting' = waiting \cup {s}
    /\ UNCHANGED active

Take(s) ==
    /\ s \in waiting
    /\ \A o \in waiting : s <= o
    /\ waiting' = waiting \ {s}
    /\ active' = active \cup {s}

Finish(s) ==
    /\ s \in active
    /\ active' = active \ {s}
    /\ UNCHANGED waiting

Next == \E s \in Seqnum : Insert(s) \/ Take(s) \/ Finish(s)

Spec == Init /\ [][Next]_queueVars
=============================================================================
