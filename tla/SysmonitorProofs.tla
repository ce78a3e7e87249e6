-------------------------- MODULE SysmonitorProofs --------------------------
(***************************************************************************)
(* Which commands sysmonitor may leave behind, for any set of pids: one    *)
(* that command_wait has not waited for still holds its pid, so that the   *)
(* SIGTERM of process_exit finds somebody and the kill is reached.         *)
(***************************************************************************)
EXTENDS Sysmonitor, TLAPS

At == {"pscnt", "zombie", "process_fd", "check", "check again", "alarm", "alarm recover",
       "recover", "sleep", "exited"}

MonType ==
  [conf : [timeout : BOOLEAN, stop : BOOLEAN], at : At, step : {"spawn", "wait", "stop", "term"},
   child : ChildPids \cup {NoPid}, reaped : BOOLEAN,
   pid : [ChildPids -> {"free", "child", "zombie", "other"}],
   left : SUBSET (At \X ChildPids), sleeps : Nat]

\* Between spawn and return a command has a child, which keeps its pid until it is
\* reaped; only one that has a stop command is stopped.
Child(s) ==
  IF s.step = "spawn" THEN s.child = NoPid /\ ~s.reaped
  ELSE /\ s.child \in ChildPids
       /\ s.at \in Checks \cup {"alarm", "alarm recover", "recover"}
       /\ ~s.reaped => s.pid[s.child] \in {"child", "zombie"}
       /\ s.step = "wait" => ~s.reaped
       /\ s.step \in {"stop", "term"} => stop_command(s)

MayBeLeft(s, at) ==
  /\ s.conf.stop => at \notin Checks \cup {"recover"}
  /\ ~s.conf.timeout => at \in Checks

Left(s) == \A l \in s.left : MayBeLeft(s, l[1])

Sound(s) == s \in MonType /\ Child(s) /\ Left(s)

-----------------------------------------------------------------------------
LEMMA AfterType ==
  ASSUME NEW s \in MonType, NEW r
  PROVE  after(s, r) \in At
  BY DEF after, after_check, At

\* A command may return that has no child to leave, has reaped it, or may leave it.
LEMMA Returned ==
  ASSUME NEW s \in MonType, Left(s), NEW r,
         s.reaped \/ s.child = NoPid \/ MayBeLeft(s, s.at)
  PROVE  Sound(return_with(s, r))
<1> DEFINE gone == {<<s.at, p>> : p \in {q \in {s.child} \ {NoPid} : ~s.reaped}}
           left == s.left \cup gone
           at == after(s, r)
           t == return_with(s, r)
<1>1. at \in At
  BY AfterType
<1>2. gone \subseteq At \X ChildPids
  BY DEF MonType
<1>3. \A l \in gone : MayBeLeft(s, l[1])
  OBVIOUS
<1>4. left \in SUBSET (At \X ChildPids) /\ \A l \in left : MayBeLeft(s, l[1])
  BY <1>2, <1>3 DEF MonType, Left
<1>5. t = [s EXCEPT !.at = at, !.step = "spawn", !.child = NoPid, !.left = left,
                    !.reaped = FALSE]
  BY DEF return_with, MonType
<1> HIDE DEF gone, left, at, t
<1>6. /\ t \in MonType /\ t.conf = s.conf /\ t.step = "spawn" /\ t.child = NoPid
      /\ t.left = left /\ t.reaped = FALSE
  BY <1>1, <1>4, <1>5 DEF MonType
<1>7. Child(t)
  BY <1>6 DEF Child
<1>8. Left(t)
  BY <1>4, <1>6 DEF Left, MayBeLeft
<1>9. QED
  BY <1>6, <1>7, <1>8 DEF Sound, t

\* reap ends what the command is waited for.
LEMMA Reaped ==
  ASSUME NEW s \in MonType, Left(s), s.child \in ChildPids
  PROVE  /\ reap(s) \in MonType /\ Left(reap(s)) /\ reap(s).reaped
         /\ reap(s).child = s.child /\ reap(s).conf = s.conf /\ reap(s).at = s.at
         /\ reap(s).step = s.step
<1> DEFINE t == reap(s)
<1>1. t \in MonType /\ t.reaped /\ t.child = s.child /\ t.conf = s.conf /\ t.at = s.at
      /\ t.left = s.left /\ t.step = s.step
  BY DEF reap, MonType
<1>2. Left(t)
  BY <1>1 DEF Left, MayBeLeft
<1>3. QED
  BY <1>1, <1>2

-----------------------------------------------------------------------------
(* The steps *)

LEMMA SpawnOK ==
  ASSUME Sound(mon), Spawn
  PROVE  Sound(mon')
<1>0. /\ mon \in MonType /\ Left(mon) /\ mon.step = "spawn" /\ mon.child = NoPid /\ ~mon.reaped
      /\ mon.at \in Checks \cup {"alarm", "alarm recover", "recover"}
  BY DEF Sound, Child, Spawn, MonType, At, Checks
<1>1. CASE mon' = return_with(mon, "error")
  BY <1>0, <1>1, Returned
<1>2. ASSUME NEW p \in ChildPids,
             mon' = [mon EXCEPT !.child = p, !.pid[p] = "child", !.step = "wait"]
      PROVE  Sound(mon')
  <2>1. /\ mon' \in MonType /\ mon'.child = p /\ mon'.pid[p] = "child" /\ mon'.step = "wait"
        /\ mon'.conf = mon.conf /\ mon'.left = mon.left /\ mon'.reaped = mon.reaped
        /\ mon'.at = mon.at
    BY <1>0, <1>2 DEF MonType
  <2>2. Child(mon')
    BY <1>0, <2>1 DEF Child
  <2>3. Left(mon')
    BY <1>0, <2>1 DEF Left, MayBeLeft
  <2>4. QED
    BY <2>1, <2>2, <2>3 DEF Sound
<1>3. QED
  BY <1>1, <1>2 DEF Spawn

LEMMA WaitedOK ==
  ASSUME Sound(mon), Waited
  PROVE  Sound(mon')
<1> DEFINE t == IF is_zombie(mon) THEN reap(mon) ELSE mon
<1>0. /\ mon \in MonType /\ Left(mon) /\ mon.step = "wait" /\ ~mon.reaped
      /\ mon.child \in ChildPids /\ mon.pid[mon.child] \in {"child", "zombie"}
      /\ mon.at \in Checks \cup {"alarm", "alarm recover", "recover"}
  BY DEF Sound, Child, Waited
<1>1. /\ t \in MonType /\ Left(t) /\ t.child = mon.child /\ t.conf = mon.conf /\ t.at = mon.at
      /\ t.reaped \/ t = mon
      /\ is_zombie(mon) => t.reaped
  BY <1>0, Reaped
<1>2. \/ has_timeout(mon) /\ stop_command(mon) /\ mon' = [t EXCEPT !.step = "stop"]
      \/ has_timeout(mon) /\ ~stop_command(mon) /\ mon' = return_with(t, "false")
      \/ is_zombie(mon) /\ \E r \in {"true", "false"} : mon' = return_with(t, r)
  BY DEF Waited
<1> HIDE DEF t
<1>3. CASE stop_command(mon) /\ mon' = [t EXCEPT !.step = "stop"]
  <2>1. /\ mon' \in MonType /\ mon'.step = "stop" /\ mon'.child = t.child /\ mon'.conf = t.conf
        /\ mon'.at = t.at /\ mon'.left = t.left /\ mon'.reaped = t.reaped /\ mon'.pid = t.pid
    BY <1>1, <1>3 DEF MonType
  <2>2. Child(mon')
    BY <1>0, <1>1, <1>3, <2>1 DEF Child, stop_command
  <2>3. Left(mon')
    BY <1>1, <2>1 DEF Left, MayBeLeft
  <2>4. QED
    BY <2>1, <2>2, <2>3 DEF Sound
<1>4. CASE has_timeout(mon) /\ ~stop_command(mon) /\ mon' = return_with(t, "false")
  <2>1. MayBeLeft(t, t.at)
    BY <1>1, <1>4 DEF MayBeLeft, has_timeout, stop_command
  <2>2. QED
    BY <1>1, <1>4, <2>1, Returned
<1>5. CASE is_zombie(mon) /\ \E r \in {"true", "false"} : mon' = return_with(t, r)
  BY <1>1, <1>5, Returned
<1>6. QED
  BY <1>2, <1>3, <1>4, <1>5

LEMMA StopOK ==
  ASSUME Sound(mon), process_exit \/ KillChild
  PROVE  Sound(mon')
<1>0. /\ mon \in MonType /\ Left(mon) /\ mon.child \in ChildPids /\ stop_command(mon)
      /\ mon.at \in Checks \cup {"alarm", "alarm recover", "recover"}
      /\ ~mon.reaped => mon.pid[mon.child] \in {"child", "zombie"}
  BY DEF Sound, Child, process_exit, KillChild
<1>1. CASE process_exit /\ mon.pid[mon.child] = "free"
  <2>1. mon' = return_with(mon, "error") /\ mon.reaped
    BY <1>0, <1>1 DEF process_exit
  <2>2. QED
    BY <1>0, <2>1, Returned
<1>2. CASE process_exit /\ mon.pid[mon.child] # "free"
  <2>1. mon' = [mon EXCEPT !.step = "term"]
    BY <1>2 DEF process_exit
  <2>2. /\ mon' \in MonType /\ mon'.step = "term" /\ mon'.child = mon.child
        /\ mon'.conf = mon.conf /\ mon'.at = mon.at /\ mon'.left = mon.left
        /\ mon'.reaped = mon.reaped /\ mon'.pid = mon.pid
    BY <1>0, <2>1 DEF MonType
  <2>3. Child(mon')
    BY <1>0, <2>2 DEF Child, stop_command
  <2>4. Left(mon')
    BY <1>0, <2>2 DEF Left, MayBeLeft
  <2>5. QED
    BY <2>2, <2>3, <2>4 DEF Sound
<1>3. CASE KillChild
  <2>1. \/ mon.reaped /\ mon' = return_with(mon, "error")
        \/ \E r \in {"error", "false"} : mon' = return_with(reap(mon), r)
    BY <1>3 DEF KillChild, kill_child
  <2>2. QED
    BY <1>0, <2>1, Reaped, Returned, ZenonT(60)
<1>4. QED
  BY <1>1, <1>2, <1>3

\* The pids: nobody takes or frees the pid of a child that is not reaped.
LEMMA PidsOK ==
  ASSUME Sound(mon), NEW p \in ChildPids, NEW x \in {"free", "zombie", "other"},
         mon' = [mon EXCEPT !.pid[p] = x],
         x = "zombie" \/ mon.pid[p] \notin {"child", "zombie"}
  PROVE  Sound(mon')
<1>1. /\ mon' \in MonType /\ mon'.step = mon.step /\ mon'.child = mon.child
      /\ mon'.conf = mon.conf /\ mon'.at = mon.at /\ mon'.left = mon.left
      /\ mon'.reaped = mon.reaped
      /\ mon'.pid = [mon.pid EXCEPT ![p] = x]
      /\ mon.pid \in [ChildPids -> {"free", "child", "zombie", "other"}]
  BY DEF Sound, MonType
<1>2. Child(mon')
  <2>1. \A c \in ChildPids : mon.pid[c] \in {"child", "zombie"} =>
                               mon'.pid[c] \in {"child", "zombie"}
    BY <1>1
  <2>2. CASE mon.step = "spawn"
    BY <1>1, <2>2 DEF Sound, Child
  <2>3. CASE mon.step # "spawn"
    BY <1>1, <2>1, <2>3 DEF Sound, Child, stop_command
  <2>4. QED
    BY <2>2, <2>3
<1>3. Left(mon')
  BY <1>1 DEF Sound, Left, MayBeLeft
<1>4. QED
  BY <1>1, <1>2, <1>3 DEF Sound

LEMMA MonitorOK ==
  ASSUME Sound(mon), MonitorFirst \/ Slept
  PROVE  Sound(mon')
<1>0. mon \in MonType /\ mon.sleeps \in Nat
  BY DEF Sound, MonType
<1>1. \E at \in At, n \in Nat : mon' = [mon EXCEPT !.at = at, !.sleeps = n]
  <2>1. CASE MonitorFirst
    <3>0. \A i \in DOMAIN FirstMonitors :
            (IF i < 3 THEN FirstMonitors[i + 1] ELSE "check") \in At
      <4>1. DOMAIN FirstMonitors = {1, 2, 3}
        BY DEF FirstMonitors
      <4>2. /\ FirstMonitors[2] = "zombie" /\ FirstMonitors[3] = "process_fd"
            /\ 1 + 1 = 2 /\ 2 + 1 = 3 /\ 1 < 3 /\ 2 < 3 /\ ~(3 < 3)
        BY DEF FirstMonitors
      <4>3. QED
        BY <4>1, <4>2 DEF At
    <3>1. PICK at \in At : mon' = [mon EXCEPT !.at = at]
      BY <2>1, <3>0 DEF MonitorFirst, At
    <3>2. mon' = [mon EXCEPT !.at = at, !.sleeps = mon.sleeps]
      BY <1>0, <3>1 DEF MonType
    <3>3. QED
      BY <1>0, <3>2
  <2>2. CASE Slept
    <3>1. mon.sleeps + 1 \in Nat /\ "check" \in At
          /\ mon' = [mon EXCEPT !.at = "check", !.sleeps = mon.sleeps + 1]
      BY <1>0, <2>2 DEF Slept, At
    <3>2. QED
      BY <3>1
  <2>3. QED
    BY <2>1, <2>2
<1>2. mon.step = "spawn"
  <2>1. \A i \in DOMAIN FirstMonitors : FirstMonitors[i] \in {"pscnt", "zombie", "process_fd"}
    BY DEF FirstMonitors
  <2>2. mon.at \in {"pscnt", "zombie", "process_fd", "sleep"}
    BY <2>1 DEF MonitorFirst, Slept
  <2>3. QED
    BY <2>2 DEF Sound, Child, Checks
<1>3. /\ mon' \in MonType /\ mon'.step = mon.step /\ mon'.child = mon.child
      /\ mon'.conf = mon.conf /\ mon'.left = mon.left /\ mon'.reaped = mon.reaped
  BY <1>0, <1>1, ZenonT(60) DEF MonType
<1>4. Child(mon')
  BY <1>2, <1>3 DEF Sound, Child
<1>5. Left(mon')
  BY <1>3 DEF Sound, Left, MayBeLeft
<1>6. QED
  BY <1>3, <1>4, <1>5 DEF Sound

\* With a stop command no check and no recovery is left running, and without a TIMEOUT
\* only a check is: command_wait reaps all others.
THEOREM MonitorLeavesNone == SysmonitorSpec => []NoneLeft
<1>1. SysmonitorInit => Sound(mon)
  <2> SUFFICES ASSUME SysmonitorInit PROVE Sound(mon)
    OBVIOUS
  <2>1. mon \in MonType /\ mon.step = "spawn" /\ mon.child = NoPid /\ ~mon.reaped /\ mon.left = {}
    BY DEF SysmonitorInit, MonType, At
  <2>2. QED
    BY <2>1 DEF Sound, Child, Left
<1>2. Sound(mon) /\ [SysmonitorNext]_mon => Sound(mon)'
  <2> SUFFICES ASSUME Sound(mon), [SysmonitorNext]_mon PROVE Sound(mon')
    OBVIOUS
  <2>1. CASE ChildEnds \/ OtherTakes \/ OtherEnds
    <3>1. \E p \in ChildPids, x \in {"free", "zombie", "other"} :
            /\ mon' = [mon EXCEPT !.pid[p] = x]
            /\ x = "zombie" \/ mon.pid[p] \notin {"child", "zombie"}
      BY <2>1 DEF ChildEnds, OtherTakes, OtherEnds
    <3>2. QED
      BY <3>1, PidsOK
  <2>2. CASE UNCHANGED mon
    BY <2>2
  <2>3. QED
    BY <2>1, <2>2, SpawnOK, WaitedOK, StopOK, MonitorOK DEF SysmonitorNext
<1>3. Sound(mon) => NoneLeft
  BY DEF Sound, Left, MayBeLeft, NoneLeft
<1>4. QED
  BY <1>1, <1>2, <1>3, PTL DEF SysmonitorSpec
=============================================================================
