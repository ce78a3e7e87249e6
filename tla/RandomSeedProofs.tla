-------------------------- MODULE RandomSeedProofs --------------------------
(***************************************************************************)
(* No saved seed is credited on two boots, for any number of saves and     *)
(* boots and however often the power is lost.                              *)
(*                                                                         *)
(* The attribute may be on the disk and not in the file, and the bytes of  *)
(* two saves may be mixed there.  What is invariant is about the two       *)
(* together: as long as either has the attribute, no byte of either was    *)
(* credited; and where the program is tells whether they may have it.      *)
(***************************************************************************)
EXTENDS RandomSeed, TLAPS

Saves == 1..MaxSaves
File == [data : SUBSET Saves, mark : BOOLEAN]

LoadPc == {"read", "credit", "remove", "sync", "entropy"}
SavePc == {"getrandom", "write", "savesync", "setxattr"}

Prog ==
    [pc : {"idle"} \cup LoadPc \cup SavePc, buf : SUBSET Saves,
     lets_credit : {"NoWay", "YesForced", "YesPlease"}, worked : BOOLEAN]

SeedType ==
    [file : File, disk : File, pool : BOOLEAN,
     prog : Prog, phase : {"boot", "loaded", "saved", "failed"}, boots : Nat, saves : 0..MaxSaves,
     weak : SUBSET Saves, credited : [Saves -> Nat], kept : BOOLEAN, unsynced : BOOLEAN,
     env : Credit, first_boot : BOOLEAN]

\* Crediting is not forced, and the attribute could be removed.
Asked(s) == s.env # "force" /\ ~s.kept

Bytes(s) == s.file.data \cup s.disk.data
Marked(s) == s.file.mark \/ s.disk.mark

Fresh(s, D) == \A n \in D : s.credited[n] = 0
Strong(s, D) == ~s.unsynced => D \cap s.weak = {}

\* A program runs in the phase it belongs to.
Phases(s) ==
    /\ s.prog.pc \in LoadPc => s.phase = "boot"
    /\ s.prog.pc \in SavePc => s.phase = "loaded"
    /\ s.prog.pc = "getrandom" => s.saves < MaxSaves

\* What has a number that is not yet given was neither written nor credited.
Numbered(s) ==
    /\ \A n \in Bytes(s) \cup s.prog.buf \cup s.weak : n <= s.saves
    /\ \A n \in Saves : n > s.saves => s.credited[n] = 0

\* The attribute, in the file or on the disk.
MarkInv(s) ==
    Marked(s) => /\ Fresh(s, Bytes(s)) /\ Strong(s, Bytes(s))
                 /\ s.file.data # {} /\ s.disk.data # {}

\* While it loads: the file is on the disk, until the attribute is removed, and what
\* may be credited was not before.
LoadInv(s) ==
    /\ s.phase = "boot" /\ s.prog.pc \in {"idle", "read", "credit", "remove"} => s.file = s.disk
    /\ s.prog.pc \in {"credit", "remove", "sync", "entropy"} => s.prog.buf = s.file.data
    /\ s.prog.pc \in {"sync", "entropy"} => ~s.file.mark
    /\ s.prog.pc = "entropy" /\ ~s.unsynced => ~s.disk.mark
    /\ s.prog.lets_credit # "NoWay" =>
          /\ s.prog.lets_credit = "YesPlease" /\ s.prog.pc \in {"remove", "sync", "entropy"}
          /\ Fresh(s, s.prog.buf) /\ Strong(s, s.prog.buf)
          /\ s.prog.pc = "remove" => s.file.mark
          /\ s.prog.pc = "entropy" => ~s.disk.mark

\* While it saves: only a removal that was not synchronised leaves the attribute.
SaveInv(s) ==
    /\ s.phase = "loaded" => ~s.file.mark /\ (~s.unsynced => ~s.disk.mark)
    /\ s.prog.pc \in {"write", "savesync", "setxattr"} =>
          /\ s.prog.buf = {s.saves} /\ s.credited[s.saves] = 0 /\ s.saves > 0
          /\ s.prog.worked => s.saves \notin s.weak
    /\ s.prog.pc \in {"savesync", "setxattr"} => s.file.data = s.prog.buf
    /\ s.prog.pc = "setxattr" => s.disk = s.file /\ s.prog.worked

Once(s) == \A n \in Saves : /\ s.credited[n] <= 1
                            /\ n \in s.weak /\ ~s.unsynced => s.credited[n] = 0

SeedInv(s) ==
    /\ s \in SeedType /\ Phases(s)
    /\ Asked(s) => Numbered(s) /\ MarkInv(s) /\ LoadInv(s) /\ SaveInv(s) /\ Once(s)

Inv == SeedInv(seed)

-----------------------------------------------------------------------------
(* The operations, one after the other *)

\* What goto, exit and fail change.
LEMMA Goto ==
    ASSUME NEW s \in SeedType, NEW pc \in {"idle"} \cup LoadPc \cup SavePc
    PROVE  /\ goto(s, pc) \in SeedType /\ goto(s, pc).prog = [s.prog EXCEPT !.pc = pc]
           /\ goto(s, pc).prog.pc = pc /\ goto(s, pc).prog.buf = s.prog.buf
           /\ goto(s, pc).prog.worked = s.prog.worked
           /\ goto(s, pc).prog.lets_credit = s.prog.lets_credit
           /\ goto(s, pc).file = s.file /\ goto(s, pc).disk = s.disk
           /\ goto(s, pc).phase = s.phase /\ goto(s, pc).saves = s.saves
           /\ goto(s, pc).weak = s.weak /\ goto(s, pc).credited = s.credited
           /\ goto(s, pc).kept = s.kept /\ goto(s, pc).unsynced = s.unsynced
           /\ goto(s, pc).env = s.env
  BY DEF goto, SeedType, Prog

LEMMA Exit ==
    ASSUME NEW s \in SeedType, NEW phase \in {"boot", "loaded", "saved", "failed"}
    PROVE  /\ exit(s, phase) \in SeedType /\ exit(s, phase).prog = Idle
           /\ exit(s, phase).file = s.file /\ exit(s, phase).disk = s.disk
           /\ exit(s, phase).phase = phase /\ exit(s, phase).saves = s.saves
           /\ exit(s, phase).weak = s.weak /\ exit(s, phase).credited = s.credited
           /\ exit(s, phase).kept = s.kept /\ exit(s, phase).unsynced = s.unsynced
           /\ exit(s, phase).env = s.env
  BY DEF exit, SeedType, Prog, Idle, LoadPc, SavePc

\* A program that fails does so at any time.
LEMMA FailOK ==
    ASSUME NEW s, SeedInv(s)
    PROVE  SeedInv(fail(s))
<1> DEFINE t == fail(s)
<1>1. /\ t \in SeedType /\ t.prog = Idle /\ t.file = s.file /\ t.disk = s.disk
      /\ t.phase = "failed" /\ t.saves = s.saves /\ t.weak = s.weak /\ t.credited = s.credited
      /\ t.kept = s.kept /\ t.unsynced = s.unsynced /\ t.env = s.env
  BY Exit DEF fail, SeedInv
<1> HIDE DEF t
<1>2. t.prog.pc = "idle" /\ t.prog.buf = {} /\ t.prog.lets_credit = "NoWay"
  BY <1>1 DEF Idle
<1>3. Phases(t)
  BY <1>1, <1>2 DEF Phases, LoadPc, SavePc
<1>4. ASSUME Asked(t)
      PROVE  Numbered(t) /\ MarkInv(t) /\ LoadInv(t) /\ SaveInv(t) /\ Once(t)
  <2>1. Numbered(s) /\ MarkInv(s) /\ LoadInv(s) /\ SaveInv(s) /\ Once(s)
    BY <1>1, <1>4 DEF SeedInv, Asked
  <2>2. Numbered(t)
    BY <1>1, <1>2, <2>1 DEF Numbered, Bytes
  <2>3. MarkInv(t) /\ Once(t)
    BY <1>1, <1>2, <2>1 DEF MarkInv, Marked, Fresh, Strong, Bytes, Once
  <2>4. LoadInv(t) /\ SaveInv(t)
    BY <1>1, <1>2 DEF LoadInv, SaveInv
  <2>5. QED
    BY <2>2, <2>3, <2>4
<1>5. QED
  BY <1>1, <1>3, <1>4 DEF SeedInv, t

\* A step that leaves the file, the disk and what was credited alone.
LEMMA SameFiles ==
    ASSUME NEW s, SeedInv(s), NEW t \in SeedType, Asked(s), Asked(t),
           t.file = s.file, t.disk = s.disk, t.saves = s.saves, t.weak = s.weak,
           t.credited = s.credited, t.unsynced = s.unsynced
    PROVE  /\ MarkInv(t) /\ Once(t)
           /\ t.prog.buf \subseteq Bytes(s) \cup s.prog.buf => Numbered(t)
<1>1. Numbered(s) /\ MarkInv(s) /\ Once(s)
  BY DEF SeedInv
<1>2. MarkInv(t) /\ Once(t)
  BY <1>1 DEF MarkInv, Marked, Fresh, Strong, Bytes, Once
<1>3. QED
  BY <1>1, <1>2 DEF Numbered, Bytes

LEMMA OpenLoadOK ==
    ASSUME NEW s, SeedInv(s), s.prog.pc = "idle", s.phase = "boot",
           NEW t, t = IF s.file.data = {} THEN exit(s, "loaded") ELSE goto(s, "read")
    PROVE  SeedInv(t)
<1>0. s \in SeedType
  BY DEF SeedInv
<1>1. CASE s.file.data = {}
  <2>1. /\ t \in SeedType /\ t.prog = Idle /\ t.file = s.file /\ t.disk = s.disk
        /\ t.phase = "loaded" /\ t.saves = s.saves /\ t.weak = s.weak /\ t.credited = s.credited
        /\ t.kept = s.kept /\ t.unsynced = s.unsynced /\ t.env = s.env
    BY <1>0, <1>1, Exit
  <2>2. t.prog.pc = "idle" /\ t.prog.buf = {} /\ t.prog.lets_credit = "NoWay"
    BY <2>1 DEF Idle
  <2>3. Phases(t)
    BY <2>1, <2>2 DEF Phases, LoadPc, SavePc
  <2>4. ASSUME Asked(t)
        PROVE  Numbered(t) /\ MarkInv(t) /\ LoadInv(t) /\ SaveInv(t) /\ Once(t)
    <3>1. Asked(s) /\ MarkInv(s) /\ LoadInv(s)
      BY <2>1, <2>4 DEF SeedInv, Asked
    <3>2. LoadInv(t)
      BY <2>1, <2>2 DEF LoadInv
    <3>3. SaveInv(t)
      BY <1>1, <2>1, <2>2, <3>1 DEF SaveInv, MarkInv, Marked
    <3>4. QED
      BY <2>1, <2>2, <2>4, <3>1, <3>2, <3>3, SameFiles
  <2>5. QED
    BY <2>1, <2>3, <2>4 DEF SeedInv
<1>2. CASE s.file.data # {}
  <2>1. /\ t \in SeedType /\ t.prog.pc = "read" /\ t.prog.buf = s.prog.buf
        /\ t.prog.lets_credit = s.prog.lets_credit
        /\ t.file = s.file /\ t.disk = s.disk
        /\ t.phase = "boot" /\ t.saves = s.saves /\ t.weak = s.weak /\ t.credited = s.credited
        /\ t.kept = s.kept /\ t.unsynced = s.unsynced /\ t.env = s.env
    <3>1. t = goto(s, "read")
      BY <1>2
    <3>2. QED
      BY <1>0, <3>1 DEF goto, SeedType, Prog, LoadPc
  <2>2. Phases(t)
    BY <2>1 DEF Phases, LoadPc, SavePc
  <2>3. ASSUME Asked(t)
        PROVE  Numbered(t) /\ MarkInv(t) /\ LoadInv(t) /\ SaveInv(t) /\ Once(t)
    <3>1. Asked(s) /\ LoadInv(s)
      BY <2>1, <2>3 DEF SeedInv, Asked
    <3>2. LoadInv(t)
      BY <2>1, <3>1 DEF LoadInv
    <3>3. SaveInv(t)
      BY <2>1 DEF SaveInv
    <3>4. QED
      BY <2>1, <2>3, <3>1, <3>2, <3>3, SameFiles
  <2>4. QED
    BY <2>1, <2>2, <2>3 DEF SeedInv
<1>3. QED
  BY <1>1, <1>2

LEMMA LoadReadOK ==
    ASSUME NEW s, SeedInv(s), s.prog.pc = "read", NEW t, t = loop_read(s)
    PROVE  SeedInv(t)
<1>0. s \in SeedType /\ s.phase = "boot"
  BY DEF SeedInv, Phases, LoadPc
<1>1. /\ t \in SeedType /\ t.prog.pc = "credit" /\ t.prog.buf = s.file.data
      /\ t.prog.lets_credit = s.prog.lets_credit
      /\ t.file = s.file /\ t.disk = s.disk
      /\ t.phase = s.phase /\ t.saves = s.saves /\ t.weak = s.weak /\ t.credited = s.credited
      /\ t.kept = s.kept /\ t.unsynced = s.unsynced /\ t.env = s.env
  BY <1>0 DEF loop_read, goto, SeedType, Prog, File, LoadPc
<1>2. Phases(t)
  BY <1>0, <1>1 DEF Phases, SavePc
<1>3. ASSUME Asked(t)
      PROVE  Numbered(t) /\ MarkInv(t) /\ LoadInv(t) /\ SaveInv(t) /\ Once(t)
  <2>1. Asked(s) /\ LoadInv(s)
    BY <1>1, <1>3 DEF SeedInv, Asked
  <2>2. LoadInv(t)
    BY <1>0, <1>1, <2>1 DEF LoadInv
  <2>3. SaveInv(t)
    BY <1>0, <1>1 DEF SaveInv
  <2>4. t.prog.buf \subseteq Bytes(s)
    BY <1>1 DEF Bytes
  <2>5. QED
    BY <1>1, <1>3, <2>1, <2>2, <2>3, <2>4, SameFiles
<1>4. QED
  BY <1>1, <1>2, <1>3 DEF SeedInv

LEMMA LoadCreditOK ==
    ASSUME NEW s, SeedInv(s), s.prog.pc = "credit",
           NEW t, t = [goto(s, "remove") EXCEPT !.prog.lets_credit = may_credit(s)]
    PROVE  SeedInv(t)
<1> DEFINE c == may_credit(s)
<1>0. s \in SeedType /\ s.phase = "boot"
  BY DEF SeedInv, Phases, LoadPc
<1>1. /\ c \in {"NoWay", "YesForced", "YesPlease"} /\ (c = "YesForced" => s.env = "force")
      /\ (c = "YesPlease" => s.file.mark)
  <2>1. s.env \in Credit
    BY <1>0 DEF SeedType, Prog
  <2>2. QED
    BY <2>1 DEF may_credit, getxattr, parse_boolean, Credit
<1> HIDE DEF c
<1>2. /\ t \in SeedType /\ t.prog.pc = "remove" /\ t.prog.buf = s.prog.buf
      /\ t.prog.lets_credit = c
      /\ t.file = s.file /\ t.disk = s.disk
      /\ t.phase = s.phase /\ t.saves = s.saves /\ t.weak = s.weak /\ t.credited = s.credited
      /\ t.kept = s.kept /\ t.unsynced = s.unsynced /\ t.env = s.env
  <2> DEFINE g == goto(s, "remove")
  <2>1. t = [g EXCEPT !.prog.lets_credit = c]
    BY DEF c
  <2>2. /\ g \in SeedType /\ g.prog.pc = "remove" /\ g.prog.buf = s.prog.buf
        /\ g.file = s.file /\ g.disk = s.disk
        /\ g.phase = s.phase /\ g.saves = s.saves /\ g.weak = s.weak /\ g.credited = s.credited
        /\ g.kept = s.kept /\ g.unsynced = s.unsynced /\ g.env = s.env
    <3>1. "remove" \in LoadPc
      BY DEF LoadPc
    <3>2. QED
      BY <1>0, <3>1, Goto, ZenonT(60)
  <2> HIDE DEF g
  <2>3. QED
    BY <1>1, <2>1, <2>2 DEF SeedType, Prog
<1>3. Phases(t)
  BY <1>0, <1>2 DEF Phases, SavePc
<1>4. ASSUME Asked(t)
      PROVE  Numbered(t) /\ MarkInv(t) /\ LoadInv(t) /\ SaveInv(t) /\ Once(t)
  <2>1. Asked(s) /\ LoadInv(s) /\ MarkInv(s)
    BY <1>2, <1>4 DEF SeedInv, Asked
  <2>2. LoadInv(t)
    <3>1. c # "NoWay" => c = "YesPlease" /\ s.file.mark
      BY <1>1, <2>1 DEF Asked
    <3>2. c # "NoWay" => Fresh(t, t.prog.buf) /\ Strong(t, t.prog.buf)
      BY <1>2, <2>1, <3>1 DEF LoadInv, MarkInv, Marked, Bytes, Fresh, Strong
    <3>3. QED
      BY <1>0, <1>2, <2>1, <3>1, <3>2 DEF LoadInv
  <2>3. SaveInv(t)
    BY <1>0, <1>2 DEF SaveInv
  <2>4. QED
    BY <1>2, <1>4, <2>1, <2>2, <2>3, SameFiles
<1>5. QED
  BY <1>2, <1>3, <1>4 DEF SeedInv

\* The attribute is removed from the file, not yet from the disk.
LEMMA RemovedOK ==
    ASSUME NEW s, SeedInv(s), s.prog.pc = "remove", s.file.mark,
           NEW t, t = [goto(s, "sync") EXCEPT !.file.mark = FALSE]
    PROVE  SeedInv(t)
<1>0. s \in SeedType /\ s.phase = "boot"
  BY DEF SeedInv, Phases, LoadPc
<1>1. /\ t \in SeedType /\ t.prog.pc = "sync" /\ t.prog.buf = s.prog.buf
      /\ t.prog.lets_credit = s.prog.lets_credit
      /\ t.file.data = s.file.data /\ t.file.mark = FALSE /\ t.disk = s.disk
      /\ t.phase = s.phase /\ t.saves = s.saves /\ t.weak = s.weak /\ t.credited = s.credited
      /\ t.kept = s.kept /\ t.unsynced = s.unsynced /\ t.env = s.env
  BY <1>0, ZenonT(60) DEF goto, SeedType, Prog, File, LoadPc
<1>2. Phases(t)
  BY <1>0, <1>1 DEF Phases, SavePc
<1>3. ASSUME Asked(t)
      PROVE  Numbered(t) /\ MarkInv(t) /\ LoadInv(t) /\ SaveInv(t) /\ Once(t)
  <2>1. Numbered(s) /\ MarkInv(s) /\ LoadInv(s) /\ Once(s)
    BY <1>1, <1>3 DEF SeedInv, Asked
  <2>2. Numbered(t)
    BY <1>1, <2>1 DEF Numbered, Bytes
  <2>3. MarkInv(t)
    BY <1>1, <2>1, ZenonT(60) DEF MarkInv, Marked, Fresh, Strong, Bytes
  <2>4. Once(t)
    BY <1>1, <2>1 DEF Once
  <2>5. LoadInv(t)
    BY <1>0, <1>1, <2>1 DEF LoadInv, Fresh, Strong
  <2>6. SaveInv(t)
    BY <1>0, <1>1 DEF SaveInv
  <2>7. QED
    BY <2>2, <2>3, <2>4, <2>5, <2>6
<1>4. QED
  BY <1>1, <1>2, <1>3 DEF SeedInv

\* Without the attribute nothing is credited, and the disk does not have it either.
LEMMA NotMarkedOK ==
    ASSUME NEW s, SeedInv(s), s.prog.pc = "remove", ~s.file.mark,
           NEW t, t = goto(s, "entropy")
    PROVE  SeedInv(t)
<1>0. s \in SeedType /\ s.phase = "boot"
  BY DEF SeedInv, Phases, LoadPc
<1>1. /\ t \in SeedType /\ t.prog.pc = "entropy" /\ t.prog.buf = s.prog.buf
      /\ t.prog.lets_credit = s.prog.lets_credit
      /\ t.file = s.file /\ t.disk = s.disk
      /\ t.phase = s.phase /\ t.saves = s.saves /\ t.weak = s.weak /\ t.credited = s.credited
      /\ t.kept = s.kept /\ t.unsynced = s.unsynced /\ t.env = s.env
  BY <1>0 DEF goto, SeedType, Prog, LoadPc
<1>2. Phases(t)
  BY <1>0, <1>1 DEF Phases, SavePc
<1>3. ASSUME Asked(t)
      PROVE  Numbered(t) /\ MarkInv(t) /\ LoadInv(t) /\ SaveInv(t) /\ Once(t)
  <2>1. Asked(s) /\ LoadInv(s)
    BY <1>1, <1>3 DEF SeedInv, Asked
  <2>2. LoadInv(t)
    BY <1>0, <1>1, <2>1 DEF LoadInv
  <2>3. SaveInv(t)
    BY <1>0, <1>1 DEF SaveInv
  <2>4. QED
    BY <1>1, <1>3, <2>1, <2>2, <2>3, SameFiles
<1>4. QED
  BY <1>1, <1>2, <1>3 DEF SeedInv

LEMMA KeptOK ==
    ASSUME NEW s, SeedInv(s), s.prog.pc = "remove",
           NEW t, t = [goto(s, "entropy") EXCEPT !.kept = TRUE]
    PROVE  SeedInv(t)
<1>0. s \in SeedType /\ s.phase = "boot"
  BY DEF SeedInv, Phases, LoadPc
<1>1. t \in SeedType /\ t.prog.pc = "entropy" /\ t.phase = s.phase /\ t.kept
  BY <1>0 DEF goto, SeedType, Prog, LoadPc
<1>2. QED
  BY <1>0, <1>1 DEF SeedInv, Phases, SavePc, Asked

\* The removal is on the disk; what is there was not credited before.
LEMMA SyncedOK ==
    ASSUME NEW s, SeedInv(s), s.prog.pc = "sync", NEW t, t = goto(fsync_full(s), "entropy")
    PROVE  SeedInv(t)
<1>0. s \in SeedType /\ s.phase = "boot"
  BY DEF SeedInv, Phases, LoadPc
<1>1. /\ t \in SeedType /\ t.prog.pc = "entropy" /\ t.prog.buf = s.prog.buf
      /\ t.prog.lets_credit = s.prog.lets_credit
      /\ t.file = s.file /\ t.disk = s.file
      /\ t.phase = s.phase /\ t.saves = s.saves /\ t.weak = s.weak /\ t.credited = s.credited
      /\ t.kept = s.kept /\ t.unsynced = s.unsynced /\ t.env = s.env
  BY <1>0 DEF goto, fsync_full, SeedType, Prog, LoadPc
<1>2. Phases(t)
  BY <1>0, <1>1 DEF Phases, SavePc
<1>3. ASSUME Asked(t)
      PROVE  Numbered(t) /\ MarkInv(t) /\ LoadInv(t) /\ SaveInv(t) /\ Once(t)
  <2>1. Numbered(s) /\ LoadInv(s) /\ Once(s)
    BY <1>1, <1>3 DEF SeedInv, Asked
  <2>2. Numbered(t)
    BY <1>1, <2>1 DEF Numbered, Bytes
  <2>3. ~t.file.mark /\ ~t.disk.mark
    BY <1>1, <2>1 DEF LoadInv
  <2>4. MarkInv(t) /\ Once(t)
    BY <1>1, <2>1, <2>3 DEF MarkInv, Marked, Once
  <2>5. LoadInv(t)
    BY <1>0, <1>1, <2>1, <2>3 DEF LoadInv, Fresh, Strong
  <2>6. SaveInv(t)
    BY <1>0, <1>1 DEF SaveInv
  <2>7. QED
    BY <2>2, <2>4, <2>5, <2>6
<1>4. QED
  BY <1>1, <1>2, <1>3 DEF SeedInv

\* The removal may get lost: then this load credits nothing.
LEMMA UnsyncedOK ==
    ASSUME NEW s, SeedInv(s), s.prog.pc = "sync",
           NEW t, t = [goto(s, "entropy") EXCEPT !.unsynced = TRUE,
                          !.prog.lets_credit = IF @ = "YesPlease" THEN "NoWay" ELSE @]
    PROVE  SeedInv(t)
<1>0. s \in SeedType /\ s.phase = "boot"
  BY DEF SeedInv, Phases, LoadPc
<1>1. /\ t \in SeedType /\ t.prog.pc = "entropy" /\ t.prog.buf = s.prog.buf
      /\ t.prog.lets_credit = (IF s.prog.lets_credit = "YesPlease" THEN "NoWay"
                               ELSE s.prog.lets_credit)
      /\ t.file = s.file /\ t.disk = s.disk
      /\ t.phase = s.phase /\ t.saves = s.saves /\ t.weak = s.weak /\ t.credited = s.credited
      /\ t.kept = s.kept /\ t.unsynced = TRUE /\ t.env = s.env
  BY <1>0 DEF goto, SeedType, Prog, LoadPc
<1>2. Phases(t)
  BY <1>0, <1>1 DEF Phases, SavePc
<1>3. ASSUME Asked(t)
      PROVE  Numbered(t) /\ MarkInv(t) /\ LoadInv(t) /\ SaveInv(t) /\ Once(t)
  <2>1. Numbered(s) /\ MarkInv(s) /\ LoadInv(s) /\ Once(s)
    BY <1>1, <1>3 DEF SeedInv, Asked
  <2>2. Numbered(t)
    BY <1>1, <2>1 DEF Numbered, Bytes
  <2>3. MarkInv(t) /\ Once(t)
    BY <1>1, <2>1 DEF MarkInv, Marked, Fresh, Strong, Bytes, Once
  <2>4. t.prog.lets_credit = "NoWay"
    BY <1>1, <2>1 DEF LoadInv
  <2>5. LoadInv(t)
    BY <1>0, <1>1, <2>1, <2>4 DEF LoadInv
  <2>6. SaveInv(t)
    BY <1>0, <1>1 DEF SaveInv
  <2>7. QED
    BY <2>2, <2>3, <2>5, <2>6
<1>4. QED
  BY <1>1, <1>2, <1>3 DEF SeedInv

\* What is credited is not marked any more, and was not credited before.
LEMMA LoadEntropyOK ==
    ASSUME NEW s, SeedInv(s), s.prog.pc = "entropy",
           NEW credit, credit = (s.prog.lets_credit \in {"YesForced", "YesPlease"}),
           NEW t, t = exit(random_write_entropy(s, credit), "loaded")
    PROVE  SeedInv(t)
<1> DEFINE add(n) == IF n \in s.prog.buf THEN 1 ELSE 0
           w == random_write_entropy(s, credit)
           sum == [n \in DOMAIN s.credited |-> s.credited[n] + add(n)]
<1>0. s \in SeedType /\ s.phase = "boot"
  BY DEF SeedInv, Phases, LoadPc
<1>1. /\ s.credited \in [Saves -> Nat] /\ sum \in [Saves -> Nat]
      /\ \A n \in Saves : sum[n] = s.credited[n] + add(n)
  BY <1>0 DEF SeedType, Prog
<1>2. /\ w \in SeedType /\ w.file = s.file /\ w.disk = s.disk /\ w.saves = s.saves
      /\ w.weak = s.weak /\ w.credited = (IF credit THEN sum ELSE s.credited)
      /\ w.kept = s.kept /\ w.unsynced = s.unsynced /\ w.env = s.env
  <2>1. CASE credit
    <3>1. w = [s EXCEPT !.pool = TRUE, !.credited = sum]
      BY <2>1 DEF random_write_entropy
    <3> HIDE DEF w, sum
    <3>2. QED
      BY <1>0, <1>1, <2>1, <3>1 DEF SeedType, Prog
  <2>2. CASE ~credit
    BY <1>0, <2>2 DEF random_write_entropy
  <2>3. QED
    BY <2>1, <2>2
<1> HIDE DEF w, sum
<1>3. /\ t \in SeedType /\ t.prog = Idle /\ t.file = s.file /\ t.disk = s.disk
      /\ t.phase = "loaded" /\ t.saves = s.saves /\ t.weak = s.weak
      /\ t.credited = (IF credit THEN sum ELSE s.credited)
      /\ t.kept = s.kept /\ t.unsynced = s.unsynced /\ t.env = s.env
  <2>1. t = exit(w, "loaded")
    BY DEF w
  <2>2. QED
    BY <1>2, <2>1, Exit
<1>4. t.prog.pc = "idle" /\ t.prog.buf = {} /\ t.prog.lets_credit = "NoWay"
  BY <1>3 DEF Idle
<1>5. Phases(t)
  BY <1>3, <1>4 DEF Phases, LoadPc, SavePc
<1>6. ASSUME Asked(t)
      PROVE  Numbered(t) /\ MarkInv(t) /\ LoadInv(t) /\ SaveInv(t) /\ Once(t)
  <2>1. Asked(s) /\ Numbered(s) /\ MarkInv(s) /\ LoadInv(s) /\ Once(s)
    BY <1>3, <1>6 DEF SeedInv, Asked
  <2>2. LoadInv(t)
    BY <1>3, <1>4 DEF LoadInv
  <2>3. SaveInv(t)
    BY <1>3, <1>4, <2>1 DEF SaveInv, LoadInv
  <2>4. CASE ~credit
    BY <1>3, <1>4, <1>6, <2>1, <2>2, <2>3, <2>4, SameFiles
  <2>5. CASE credit
    <3>1. /\ Fresh(s, s.prog.buf) /\ Strong(s, s.prog.buf)
          /\ ~s.file.mark /\ ~s.disk.mark
      BY <2>1, <2>5 DEF LoadInv
    <3>2. MarkInv(t)
      BY <1>3, <3>1 DEF MarkInv, Marked
    <3>3. s.saves \in Nat /\ Saves \subseteq Nat /\ s.prog.buf \subseteq Saves
      BY <1>0 DEF SeedType, Prog, Saves
    <3>4. Numbered(t)
      <4>1. \A n \in Bytes(t) \cup t.prog.buf \cup t.weak : n <= t.saves
        BY <1>3, <1>4, <2>1 DEF Numbered, Bytes
      <4>2. \A n \in Saves : n > s.saves => n \notin s.prog.buf
        BY <2>1, <3>3 DEF Numbered
      <4>3. \A n \in Saves : n > t.saves => t.credited[n] = 0
        BY <1>1, <1>3, <2>1, <2>5, <4>2 DEF Numbered
      <4>4. QED
        BY <1>4, <4>1, <4>3 DEF Numbered
    <3>5. Once(t)
      <4> SUFFICES ASSUME NEW n \in Saves
                   PROVE  /\ t.credited[n] <= 1
                          /\ n \in t.weak /\ ~t.unsynced => t.credited[n] = 0
        BY DEF Once
      <4>1. /\ s.credited[n] \in Nat /\ s.credited[n] <= 1
            /\ n \in s.weak /\ ~s.unsynced => s.credited[n] = 0
        BY <1>1, <2>1 DEF Once
      <4>2. CASE n \in s.prog.buf
        <5>1. s.credited[n] = 0 /\ t.credited[n] = 1
          BY <1>1, <1>3, <2>5, <3>1, <4>2 DEF Fresh
        <5>2. n \in s.weak => s.unsynced
          BY <3>1, <4>2 DEF Strong
        <5>3. QED
          BY <1>3, <5>1, <5>2
      <4>3. CASE n \notin s.prog.buf
        BY <1>1, <1>3, <2>5, <4>1, <4>3
      <4>4. QED
        BY <4>2, <4>3
    <3>6. QED
      BY <2>2, <2>3, <3>2, <3>4, <3>5
  <2>6. QED
    BY <2>4, <2>5
<1>7. QED
  BY <1>3, <1>5, <1>6 DEF SeedInv

LEMMA OpenSaveOK ==
    ASSUME NEW s, SeedInv(s), s.prog.pc = "idle", s.phase = "loaded", s.saves < MaxSaves,
           NEW t, t = goto(s, "getrandom")
    PROVE  SeedInv(t)
<1>0. s \in SeedType
  BY DEF SeedInv
<1>1. /\ t \in SeedType /\ t.prog.pc = "getrandom" /\ t.prog.buf = s.prog.buf
      /\ t.prog.lets_credit = s.prog.lets_credit
      /\ t.file = s.file /\ t.disk = s.disk
      /\ t.phase = s.phase /\ t.saves = s.saves /\ t.weak = s.weak /\ t.credited = s.credited
      /\ t.kept = s.kept /\ t.unsynced = s.unsynced /\ t.env = s.env
  BY <1>0 DEF goto, SeedType, Prog, SavePc
<1>2. Phases(t)
  BY <1>1 DEF Phases, LoadPc
<1>3. ASSUME Asked(t)
      PROVE  Numbered(t) /\ MarkInv(t) /\ LoadInv(t) /\ SaveInv(t) /\ Once(t)
  <2>1. Asked(s) /\ LoadInv(s) /\ SaveInv(s)
    BY <1>1, <1>3 DEF SeedInv, Asked
  <2>2. LoadInv(t) /\ SaveInv(t)
    BY <1>1, <2>1 DEF LoadInv, SaveInv
  <2>3. QED
    BY <1>1, <1>3, <2>1, <2>2, SameFiles
<1>4. QED
  BY <1>1, <1>2, <1>3 DEF SeedInv

\* A new seed has a new number; one made before the pool was ready is not marked.
LEMMA SaveGetOK ==
    ASSUME NEW s, SeedInv(s), s.prog.pc = "getrandom", NEW worked \in get_random(s),
           NEW m \in Nat, m - 1 = s.saves,
           NEW p \in Prog, p.pc = "write", p.buf = {m}, p.worked = worked,
           p.lets_credit = s.prog.lets_credit,
           NEW weak \in SUBSET Saves, weak \subseteq s.weak \cup {m}, s.weak \subseteq weak,
           s.pool => weak = s.weak,
           NEW t, t = [s EXCEPT !.prog = p, !.saves = m, !.weak = weak]
    PROVE  SeedInv(t)
<1>0. s \in SeedType /\ s.phase = "loaded" /\ s.saves < MaxSaves
  BY DEF SeedInv, Phases, SavePc
<1>1. /\ m \in Saves /\ m \in 0..MaxSaves /\ s.saves \in Nat
      /\ worked \in BOOLEAN /\ (worked => s.pool)
  <2>1. s.saves \in 0..MaxSaves
    BY <1>0 DEF SeedType
  <2>2. m \in Saves /\ m \in 0..MaxSaves /\ s.saves \in Nat
    BY <1>0, <2>1, SeedAssumption DEF Saves
  <2>3. worked \in BOOLEAN /\ (worked => s.pool)
    BY DEF get_random
  <2>4. QED
    BY <2>2, <2>3
<1>3. /\ t \in SeedType /\ t.prog = p
      /\ t.file = s.file /\ t.disk = s.disk
      /\ t.phase = s.phase /\ t.saves = m /\ t.weak = weak /\ t.credited = s.credited
      /\ t.kept = s.kept /\ t.unsynced = s.unsynced /\ t.env = s.env
  BY <1>0, <1>1 DEF SeedType
<1>4. Phases(t)
  BY <1>0, <1>3 DEF Phases, LoadPc
<1>5. ASSUME Asked(t)
      PROVE  Numbered(t) /\ MarkInv(t) /\ LoadInv(t) /\ SaveInv(t) /\ Once(t)
  <2>1. Numbered(s) /\ MarkInv(s) /\ LoadInv(s) /\ SaveInv(s) /\ Once(s)
    BY <1>3, <1>5 DEF SeedInv, Asked
  <2>2. /\ \A n \in Bytes(s) \cup s.weak : n \in Nat /\ n <= s.saves
        /\ Bytes(t) = Bytes(s) /\ Bytes(s) \subseteq Saves /\ Saves \subseteq Nat
    BY <1>0, <1>3, <2>1 DEF Numbered, Bytes, SeedType, Prog, File, Saves
  <2>3. m \notin Bytes(s) /\ m \notin s.weak /\ s.credited[m] = 0
    BY <1>1, <2>1, <2>2 DEF Numbered
  <2>4. Numbered(t)
    <3>1. \A n \in Bytes(t) \cup t.prog.buf \cup t.weak : n <= t.saves
      BY <1>1, <1>3, <2>2
    <3>2. \A n \in Saves : n > t.saves => t.credited[n] = 0
      BY <1>1, <1>3, <2>1, <2>2 DEF Numbered
    <3>3. QED
      BY <3>1, <3>2 DEF Numbered
  <2>5. MarkInv(t)
    BY <1>3, <2>1, <2>2, <2>3 DEF MarkInv, Marked, Fresh, Strong
  <2>6. LoadInv(t)
    BY <1>0, <1>3, <2>1 DEF LoadInv
  <2>7. SaveInv(t)
    BY <1>0, <1>1, <1>3, <2>1, <2>3 DEF SaveInv
  <2>8. Once(t)
    BY <1>1, <1>3, <2>1, <2>3 DEF Once
  <2>9. QED
    BY <2>4, <2>5, <2>6, <2>7, <2>8
<1>6. QED
  BY <1>3, <1>4, <1>5 DEF SeedInv

\* The bytes of the old seed and of the new one may be on the disk, with the attribute
\* only where its removal was not synchronised.
LEMMA WrittenOK ==
    ASSUME NEW s, SeedInv(s), s.prog.pc = "write",
           NEW t, t = [goto(s, "savesync") EXCEPT !.file.data = s.prog.buf]
    PROVE  SeedInv(t)
<1>0. s \in SeedType /\ s.phase = "loaded"
  BY DEF SeedInv, Phases, SavePc
<1>1. /\ t \in SeedType /\ t.prog.pc = "savesync" /\ t.prog.buf = s.prog.buf
      /\ t.prog.lets_credit = s.prog.lets_credit /\ t.prog.worked = s.prog.worked
      /\ t.file.data = s.prog.buf /\ t.file.mark = s.file.mark /\ t.disk = s.disk
      /\ t.phase = s.phase /\ t.saves = s.saves /\ t.weak = s.weak /\ t.credited = s.credited
      /\ t.kept = s.kept /\ t.unsynced = s.unsynced /\ t.env = s.env
  BY <1>0 DEF goto, SeedType, Prog, File, SavePc
<1>2. Phases(t)
  BY <1>0, <1>1 DEF Phases, LoadPc
<1>3. ASSUME Asked(t)
      PROVE  Numbered(t) /\ MarkInv(t) /\ LoadInv(t) /\ SaveInv(t) /\ Once(t)
  <2>1. Numbered(s) /\ MarkInv(s) /\ LoadInv(s) /\ SaveInv(s) /\ Once(s)
    BY <1>1, <1>3 DEF SeedInv, Asked
  <2>2. Numbered(t)
    BY <1>1, <2>1 DEF Numbered, Bytes
  <2>3. MarkInv(t)
    <3>1. s.prog.buf = {s.saves} /\ s.credited[s.saves] = 0
      BY <2>1 DEF SaveInv
    <3>2. Marked(t) => s.disk.mark /\ t.unsynced
      BY <1>0, <1>1, <2>1 DEF Marked, SaveInv
    <3>3. s.disk.mark => Fresh(s, s.disk.data) /\ s.disk.data # {}
      BY <2>1 DEF MarkInv, Marked, Fresh, Bytes
    <3>4. QED
      BY <1>1, <3>1, <3>2, <3>3 DEF MarkInv, Fresh, Strong, Bytes
  <2>4. LoadInv(t)
    BY <1>0, <1>1, <2>1 DEF LoadInv
  <2>5. SaveInv(t) /\ Once(t)
    BY <1>0, <1>1, <2>1 DEF SaveInv, Once
  <2>6. QED
    BY <2>2, <2>3, <2>4, <2>5
<1>4. QED
  BY <1>1, <1>2, <1>3 DEF SeedInv

\* A write that is cut short leaves both.
LEMMA CutOK ==
    ASSUME NEW s, SeedInv(s), s.prog.pc = "write",
           NEW g \in SeedType, g.prog = Idle, g.file = s.file, g.disk = s.disk,
           g.phase = "failed", g.saves = s.saves, g.weak = s.weak, g.credited = s.credited,
           g.kept = s.kept, g.unsynced = s.unsynced, g.env = s.env,
           NEW both \in SUBSET Saves, \A n : n \in both <=> n \in s.file.data \cup s.prog.buf,
           NEW t, t = [g EXCEPT !.file.data = both]
    PROVE  SeedInv(t)
<1>0. s \in SeedType /\ s.phase = "loaded"
  BY DEF SeedInv, Phases, SavePc
<1>1. /\ t \in SeedType /\ t.prog = Idle
      /\ t.file.data = both /\ t.file.mark = s.file.mark /\ t.disk = s.disk
      /\ t.phase = "failed" /\ t.saves = s.saves /\ t.weak = s.weak /\ t.credited = s.credited
      /\ t.kept = s.kept /\ t.unsynced = s.unsynced /\ t.env = s.env
  BY DEF SeedType, File
<1>2. t.prog.pc = "idle" /\ t.prog.buf = {} /\ t.prog.lets_credit = "NoWay"
  BY <1>1 DEF Idle
<1>3. Phases(t)
  BY <1>1, <1>2 DEF Phases, LoadPc, SavePc
<1>4. ASSUME Asked(t)
      PROVE  Numbered(t) /\ MarkInv(t) /\ LoadInv(t) /\ SaveInv(t) /\ Once(t)
  <2>1. Numbered(s) /\ MarkInv(s) /\ LoadInv(s) /\ SaveInv(s) /\ Once(s)
    BY <1>1, <1>4 DEF SeedInv, Asked
  <2>2. Numbered(t)
    BY <1>1, <1>2, <2>1 DEF Numbered, Bytes
  <2>3. MarkInv(t)
    <3>1. s.prog.buf = {s.saves} /\ s.credited[s.saves] = 0
      BY <2>1 DEF SaveInv
    <3>2. Marked(t) => s.disk.mark /\ t.unsynced
      BY <1>0, <1>1, <2>1 DEF Marked, SaveInv
    <3>3. s.disk.mark => Fresh(s, Bytes(s)) /\ s.disk.data # {}
      BY <2>1 DEF MarkInv, Marked
    <3>4. QED
      BY <1>1, <3>1, <3>2, <3>3 DEF MarkInv, Fresh, Strong, Bytes
  <2>4. LoadInv(t) /\ SaveInv(t) /\ Once(t)
    BY <1>1, <1>2, <2>1 DEF LoadInv, SaveInv, Once
  <2>5. QED
    BY <2>2, <2>3, <2>4
<1>5. QED
  BY <1>1, <1>3, <1>4 DEF SeedInv

\* The new seed is on the disk before the attribute is set.
LEMMA SaveSyncOK ==
    ASSUME NEW s, SeedInv(s), s.prog.pc = "savesync",
           NEW t, t = IF setxattr(s) THEN goto(fsync_full(s), "setxattr")
                                     ELSE exit(fsync_full(s), "saved")
    PROVE  SeedInv(t)
<1>0. s \in SeedType /\ s.phase = "loaded"
  BY DEF SeedInv, Phases, SavePc
<1> DEFINE f == fsync_full(s)
<1>1. /\ f \in SeedType /\ f.prog = s.prog /\ f.file = s.file /\ f.disk = s.file
      /\ f.phase = s.phase /\ f.saves = s.saves /\ f.weak = s.weak /\ f.credited = s.credited
      /\ f.kept = s.kept /\ f.unsynced = s.unsynced /\ f.env = s.env
  BY <1>0 DEF fsync_full, SeedType
<1> HIDE DEF f
<1>2. ASSUME Asked(s)
      PROVE  /\ Numbered(s) /\ LoadInv(s) /\ SaveInv(s) /\ Once(s)
             /\ ~s.file.mark /\ s.file.data = s.prog.buf
  BY <1>0, <1>2 DEF SeedInv, SaveInv
<1>3. CASE setxattr(s)
  <2>1. /\ t \in SeedType /\ t.prog.pc = "setxattr" /\ t.prog.buf = s.prog.buf
        /\ t.prog.lets_credit = s.prog.lets_credit /\ t.prog.worked = s.prog.worked
        /\ t.file = s.file /\ t.disk = s.file
        /\ t.phase = s.phase /\ t.saves = s.saves /\ t.weak = s.weak /\ t.credited = s.credited
        /\ t.kept = s.kept /\ t.unsynced = s.unsynced /\ t.env = s.env
    <3>1. t = goto(f, "setxattr")
      BY <1>3 DEF f
    <3>2. QED
      BY <1>1, <3>1 DEF goto, SeedType, Prog, SavePc
  <2>2. Phases(t)
    BY <1>0, <2>1 DEF Phases, LoadPc
  <2>3. ASSUME Asked(t)
        PROVE  Numbered(t) /\ MarkInv(t) /\ LoadInv(t) /\ SaveInv(t) /\ Once(t)
    <3>1. Asked(s)
      BY <2>1, <2>3 DEF Asked
    <3>2. Numbered(t) /\ MarkInv(t) /\ Once(t)
      BY <1>2, <2>1, <3>1 DEF Numbered, Bytes, MarkInv, Marked, Once
    <3>3. LoadInv(t) /\ SaveInv(t)
      BY <1>0, <1>2, <1>3, <2>1, <3>1 DEF LoadInv, SaveInv, setxattr
    <3>4. QED
      BY <3>2, <3>3
  <2>4. QED
    BY <2>1, <2>2, <2>3 DEF SeedInv
<1>4. CASE ~setxattr(s)
  <2>1. /\ t \in SeedType /\ t.prog = Idle /\ t.file = s.file /\ t.disk = s.file
        /\ t.phase = "saved" /\ t.saves = s.saves /\ t.weak = s.weak /\ t.credited = s.credited
        /\ t.kept = s.kept /\ t.unsynced = s.unsynced /\ t.env = s.env
    <3>1. t = exit(f, "saved")
      BY <1>4 DEF f
    <3>2. QED
      BY <1>1, <3>1, Exit
  <2>2. t.prog.pc = "idle" /\ t.prog.buf = {} /\ t.prog.lets_credit = "NoWay"
    BY <2>1 DEF Idle
  <2>3. Phases(t)
    BY <2>1, <2>2 DEF Phases, LoadPc, SavePc
  <2>4. ASSUME Asked(t)
        PROVE  Numbered(t) /\ MarkInv(t) /\ LoadInv(t) /\ SaveInv(t) /\ Once(t)
    <3>1. Asked(s)
      BY <2>1, <2>4 DEF Asked
    <3>2. Numbered(t) /\ MarkInv(t) /\ Once(t)
      BY <1>2, <2>1, <2>2, <3>1 DEF Numbered, Bytes, MarkInv, Marked, Once
    <3>3. LoadInv(t) /\ SaveInv(t)
      BY <2>1, <2>2 DEF LoadInv, SaveInv
    <3>4. QED
      BY <3>2, <3>3
  <2>5. QED
    BY <2>1, <2>3, <2>4 DEF SeedInv
<1>5. QED
  BY <1>3, <1>4

LEMMA SaveMarkOK ==
    ASSUME NEW s, SeedInv(s), s.prog.pc = "setxattr", NEW m \in BOOLEAN, s.file.mark => m,
           NEW t, t = [exit(s, "saved") EXCEPT !.file.mark = m]
    PROVE  SeedInv(t)
<1>0. s \in SeedType
  BY DEF SeedInv
<1>1. /\ t \in SeedType /\ t.prog = Idle
      /\ t.file.data = s.file.data /\ t.file.mark = m /\ t.disk = s.disk
      /\ t.phase = "saved" /\ t.saves = s.saves /\ t.weak = s.weak /\ t.credited = s.credited
      /\ t.kept = s.kept /\ t.unsynced = s.unsynced /\ t.env = s.env
  <2> DEFINE g == exit(s, "saved")
  <2>1. /\ g \in SeedType /\ g.prog = Idle /\ g.file = s.file /\ g.disk = s.disk
        /\ g.phase = "saved" /\ g.saves = s.saves /\ g.weak = s.weak /\ g.credited = s.credited
        /\ g.kept = s.kept /\ g.unsynced = s.unsynced /\ g.env = s.env
    BY <1>0, Exit
  <2> HIDE DEF g
  <2>2. t = [g EXCEPT !.file.mark = m]
    BY DEF g
  <2>3. QED
    BY <2>1, <2>2 DEF SeedType, File
<1>2. t.prog.pc = "idle" /\ t.prog.buf = {} /\ t.prog.lets_credit = "NoWay"
  BY <1>1 DEF Idle
<1>3. Phases(t)
  BY <1>1, <1>2 DEF Phases, LoadPc, SavePc
<1>4. ASSUME Asked(t)
      PROVE  Numbered(t) /\ MarkInv(t) /\ LoadInv(t) /\ SaveInv(t) /\ Once(t)
  <2>1. Numbered(s) /\ SaveInv(s) /\ Once(s)
    BY <1>1, <1>4 DEF SeedInv, Asked
  <2>2. /\ s.file.data = {s.saves} /\ s.disk.data = {s.saves}
        /\ s.credited[s.saves] = 0 /\ s.saves \notin s.weak
    BY <2>1 DEF SaveInv
  <2>3. Numbered(t)
    BY <1>1, <1>2, <2>1 DEF Numbered, Bytes
  <2>4. MarkInv(t)
    BY <1>1, <2>2 DEF MarkInv, Fresh, Strong, Bytes
  <2>5. LoadInv(t) /\ SaveInv(t) /\ Once(t)
    BY <1>1, <1>2, <2>1 DEF LoadInv, SaveInv, Once
  <2>6. QED
    BY <2>3, <2>4, <2>5
<1>5. QED
  BY <1>1, <1>3, <1>4 DEF SeedInv

-----------------------------------------------------------------------------
(* The kernel *)

LEMMA PoolReadyOK ==
    ASSUME NEW s, SeedInv(s), NEW t, t = [s EXCEPT !.pool = TRUE]
    PROVE  SeedInv(t)
<1>0. s \in SeedType
  BY DEF SeedInv
<1>1. /\ t \in SeedType /\ t.prog = s.prog /\ t.file = s.file /\ t.disk = s.disk
      /\ t.phase = s.phase /\ t.saves = s.saves /\ t.weak = s.weak /\ t.credited = s.credited
      /\ t.kept = s.kept /\ t.unsynced = s.unsynced /\ t.env = s.env
  BY <1>0 DEF SeedType
<1>2. Phases(t)
  BY <1>1 DEF SeedInv, Phases
<1>3. ASSUME Asked(t)
      PROVE  Numbered(t) /\ MarkInv(t) /\ LoadInv(t) /\ SaveInv(t) /\ Once(t)
  <2>1. Asked(s) /\ LoadInv(s) /\ SaveInv(s)
    BY <1>1, <1>3 DEF SeedInv, Asked
  <2>2. LoadInv(t) /\ SaveInv(t)
    BY <1>1, <2>1 DEF LoadInv, SaveInv, Fresh, Strong
  <2>3. QED
    BY <1>1, <1>3, <2>1, <2>2, SameFiles
<1>4. QED
  BY <1>1, <1>2, <1>3 DEF SeedInv

\* Some of the file reaches the disk: no more than was in either.
LEMMA WriteBackOK ==
    ASSUME NEW s, SeedInv(s), s.disk # s.file,
           NEW data \in {s.file.data, s.disk.data, s.file.data \cup s.disk.data},
           NEW mark \in {s.file.mark, s.disk.mark},
           NEW t, t = [s EXCEPT !.disk = [data |-> data, mark |-> mark]]
    PROVE  SeedInv(t)
<1> DEFINE d == [data |-> data, mark |-> mark]
<1>0. s \in SeedType
  BY DEF SeedInv
<1>1. d \in File /\ d.data = data /\ d.mark = mark
  BY <1>0 DEF SeedType, File
<1>2. /\ t \in SeedType /\ t.prog = s.prog /\ t.file = s.file /\ t.disk = d
      /\ t.phase = s.phase /\ t.saves = s.saves /\ t.weak = s.weak /\ t.credited = s.credited
      /\ t.kept = s.kept /\ t.unsynced = s.unsynced /\ t.env = s.env
  <2>1. t = [s EXCEPT !.disk = d]
    OBVIOUS
  <2> HIDE DEF d
  <2>2. QED
    BY <1>0, <1>1, <2>1 DEF SeedType
<1>3. Phases(t)
  BY <1>2 DEF SeedInv, Phases
<1> HIDE DEF d
<1>4. ASSUME Asked(t)
      PROVE  Numbered(t) /\ MarkInv(t) /\ LoadInv(t) /\ SaveInv(t) /\ Once(t)
  <2>1. Numbered(s) /\ MarkInv(s) /\ LoadInv(s) /\ SaveInv(s) /\ Once(s)
    BY <1>2, <1>4 DEF SeedInv, Asked
  <2>2. Bytes(t) \subseteq Bytes(s) /\ (Marked(t) => Marked(s))
    BY <1>1, <1>2 DEF Bytes, Marked
  <2>3. Numbered(t)
    BY <1>2, <2>1, <2>2 DEF Numbered
  <2>4. MarkInv(t)
    BY <1>1, <1>2, <2>1, <2>2 DEF MarkInv, Fresh, Strong
  <2>5. LoadInv(t)
    BY <1>1, <1>2, <2>1 DEF LoadInv, Fresh, Strong
  <2>6. SaveInv(t) /\ Once(t)
    BY <1>1, <1>2, <2>1 DEF SaveInv, Once
  <2>7. QED
    BY <2>3, <2>4, <2>5, <2>6
<1>5. QED
  BY <1>2, <1>3, <1>4 DEF SeedInv

\* What the next boot finds is what the disk has.
LEMMA PowerLossOK ==
    ASSUME NEW s, SeedInv(s), NEW b \in Nat, NEW p \in Prog, p = Idle,
           NEW t, t = [s EXCEPT !.file = s.disk, !.pool = FALSE, !.prog = p,
                                !.phase = "boot", !.boots = b]
    PROVE  SeedInv(t)
<1>0. s \in SeedType
  BY DEF SeedInv
<1>1. /\ t \in SeedType /\ t.prog = Idle /\ t.file = s.disk /\ t.disk = s.disk
      /\ t.phase = "boot" /\ t.saves = s.saves /\ t.weak = s.weak /\ t.credited = s.credited
      /\ t.kept = s.kept /\ t.unsynced = s.unsynced /\ t.env = s.env
  BY <1>0 DEF SeedType
<1>2. t.prog.pc = "idle" /\ t.prog.buf = {} /\ t.prog.lets_credit = "NoWay"
  BY <1>1 DEF Idle
<1>3. Phases(t)
  BY <1>1, <1>2 DEF Phases, LoadPc, SavePc
<1>4. ASSUME Asked(t)
      PROVE  Numbered(t) /\ MarkInv(t) /\ LoadInv(t) /\ SaveInv(t) /\ Once(t)
  <2>1. Numbered(s) /\ MarkInv(s) /\ Once(s)
    BY <1>1, <1>4 DEF SeedInv, Asked
  <2>2. Bytes(t) \subseteq Bytes(s) /\ (Marked(t) => Marked(s))
    BY <1>1 DEF Bytes, Marked
  <2>3. Numbered(t)
    BY <1>1, <1>2, <2>1, <2>2 DEF Numbered
  <2>4. MarkInv(t)
    BY <1>1, <2>1, <2>2 DEF MarkInv, Fresh, Strong
  <2>5. LoadInv(t) /\ SaveInv(t) /\ Once(t)
    BY <1>1, <1>2, <2>1 DEF LoadInv, SaveInv, Once
  <2>6. QED
    BY <2>3, <2>4, <2>5
<1>5. QED
  BY <1>1, <1>3, <1>4 DEF SeedInv

-----------------------------------------------------------------------------
(* The theorem *)

LEMMA SeedInitOK == SeedInit => Inv
<1> SUFFICES ASSUME NEW env \in Credit, NEW first \in BOOLEAN,
                    seed = [file |-> Empty, disk |-> Empty, pool |-> FALSE, prog |-> Idle,
                            phase |-> "boot", boots |-> 1, saves |-> 0, weak |-> {},
                            credited |-> [n \in 1..MaxSaves |-> 0], kept |-> FALSE,
                            unsynced |-> FALSE, env |-> env, first_boot |-> first]
             PROVE  SeedInv(seed)
  BY DEF SeedInit, Inv
<1>1. Empty \in File /\ Idle \in Prog /\ 0 \in 0..MaxSaves
  BY SeedAssumption DEF Empty, File, Idle, Prog
<1> DEFINE none == [n \in 1..MaxSaves |-> 0]
<1>2. none \in [Saves -> Nat] /\ \A n \in Saves : none[n] = 0
  BY DEF Saves
<1>3. seed.credited = none
  OBVIOUS
<1> HIDE DEF none
<1>4. seed \in SeedType
  BY <1>1, <1>2 DEF SeedType, none
<1>5. /\ seed.file = Empty /\ seed.disk = Empty /\ seed.prog = Idle /\ seed.phase = "boot"
      /\ seed.saves = 0 /\ seed.weak = {}
  OBVIOUS
<1>6. /\ seed.prog.pc = "idle" /\ seed.prog.buf = {} /\ seed.prog.lets_credit = "NoWay"
      /\ seed.file.data = {} /\ seed.disk.data = {} /\ ~seed.file.mark /\ ~seed.disk.mark
  BY <1>5 DEF Idle, Empty
<1>7. Phases(seed)
  BY <1>5, <1>6 DEF Phases, LoadPc, SavePc
<1>8. Numbered(seed) /\ MarkInv(seed) /\ Once(seed)
  BY <1>2, <1>3, <1>5, <1>6 DEF Numbered, Bytes, MarkInv, Marked, Once
<1>9. LoadInv(seed) /\ SaveInv(seed)
  BY <1>5, <1>6 DEF LoadInv, SaveInv
<1>10. QED
  BY <1>4, <1>7, <1>8, <1>9 DEF SeedInv

LEMMA LoadStepOK ==
    ASSUME Inv, OpenLoad \/ LoadRead \/ LoadCredit \/ LoadRemove \/ LoadSync \/ LoadEntropy
    PROVE  Inv'
<1>0. SeedInv(seed) /\ SeedInv(fail(seed))
  BY FailOK DEF Inv
<1>1. CASE OpenLoad
  BY <1>0, <1>1, OpenLoadOK DEF OpenLoad, at, Inv
<1>2. CASE LoadRead
  BY <1>0, <1>2, LoadReadOK DEF LoadRead, at, Inv
<1>3. CASE LoadCredit
  BY <1>0, <1>3, LoadCreditOK DEF LoadCredit, at, Inv
<1>4. CASE LoadRemove
  BY <1>0, <1>4, RemovedOK, KeptOK, NotMarkedOK DEF LoadRemove, at, Inv
<1>5. CASE LoadSync
  BY <1>0, <1>5, SyncedOK, UnsyncedOK DEF LoadSync, load_sync, at, Inv
<1>6. CASE LoadEntropy
  <2>1. PICK credit : /\ credit = (seed.prog.lets_credit \in {"YesForced", "YesPlease"})
                      /\ seed' \in {exit(random_write_entropy(seed, credit), "loaded"), fail(seed)}
    BY <1>6 DEF LoadEntropy
  <2>2. seed.prog.pc = "entropy"
    BY <1>6 DEF LoadEntropy, at
  <2>3. QED
    BY <1>0, <2>1, <2>2, LoadEntropyOK DEF Inv
<1>7. QED
  BY <1>1, <1>2, <1>3, <1>4, <1>5, <1>6

LEMMA SaveStepOK ==
    ASSUME Inv, OpenSave \/ SaveGet \/ SaveWrite \/ SaveSync \/ SaveMark
    PROVE  Inv'
<1>0. SeedInv(seed) /\ SeedInv(fail(seed)) /\ seed \in SeedType
  BY FailOK DEF Inv, SeedInv
<1>1. CASE OpenSave
  BY <1>0, <1>1, OpenSaveOK DEF OpenSave, at, Inv
<1>2. CASE SaveGet
  <2> DEFINE m == seed.saves + 1
             weak == seed.weak \cup (IF seed.pool THEN {} ELSE {m})
  <2>1. PICK worked \in get_random(seed) :
           seed' = [seed EXCEPT
                       !.prog = [@ EXCEPT !.pc = "write", !.buf = {m}, !.worked = worked],
                       !.saves = @ + 1, !.weak = weak]
    BY <1>2 DEF SaveGet
  <2> DEFINE p == [seed.prog EXCEPT !.pc = "write", !.buf = {m}, !.worked = worked]
  <2>2. seed.prog.pc = "getrandom" /\ seed.saves \in 0..MaxSaves /\ seed.saves < MaxSaves
    BY <1>0, <1>2 DEF SaveGet, at, SeedInv, Phases, SeedType
  <2>3. m \in Nat /\ m - 1 = seed.saves /\ m \in Saves
    BY <2>2, SeedAssumption DEF Saves
  <2>4. weak \in SUBSET Saves /\ weak \subseteq seed.weak \cup {m} /\ seed.weak \subseteq weak
        /\ (seed.pool => weak = seed.weak)
    BY <1>0, <2>3 DEF SeedType
  <2>5. /\ p \in Prog /\ p.pc = "write" /\ p.buf = {m} /\ p.worked = worked
        /\ p.lets_credit = seed.prog.lets_credit
    <3>1. seed.prog \in Prog /\ worked \in BOOLEAN /\ {m} \in SUBSET Saves
      BY <1>0, <2>3 DEF SeedType, get_random
    <3> HIDE DEF m
    <3>2. QED
      BY <3>1 DEF Prog, SavePc
  <2>6. seed' = [seed EXCEPT !.prog = p, !.saves = m, !.weak = weak]
    BY <2>1
  <2> HIDE DEF m, weak, p
  <2>7. QED
    BY <1>0, <2>2, <2>3, <2>4, <2>5, <2>6, SaveGetOK DEF Inv
<1>3. CASE SaveWrite
  <2>1. seed.prog.pc = "write"
    BY <1>3 DEF SaveWrite, at
  <2>2. CASE seed' = [goto(seed, "savesync") EXCEPT !.file.data = seed.prog.buf]
    BY <1>0, <2>1, <2>2, WrittenOK DEF Inv
  <2>3. CASE seed' = [fail(seed) EXCEPT !.file.data = @ \cup seed.prog.buf]
    <3> DEFINE g == fail(seed)
               both == g.file.data \cup seed.prog.buf
    <3>1. /\ g \in SeedType /\ g.prog = Idle /\ g.file = seed.file /\ g.disk = seed.disk
          /\ g.phase = "failed" /\ g.saves = seed.saves /\ g.weak = seed.weak
          /\ g.credited = seed.credited /\ g.kept = seed.kept
          /\ g.unsynced = seed.unsynced /\ g.env = seed.env
      BY <1>0, Exit DEF fail
    <3>2. seed' = [g EXCEPT !.file.data = both]
      BY <2>3
    <3> HIDE DEF g
    <3>3. both \in SUBSET Saves /\ \A n : n \in both <=> n \in seed.file.data \cup seed.prog.buf
      BY <1>0, <3>1 DEF SeedType, File, Prog
    <3> HIDE DEF both
    <3>4. QED
      BY <1>0, <2>1, <3>1, <3>2, <3>3, CutOK DEF Inv
  <2>4. QED
    BY <1>3, <2>2, <2>3 DEF SaveWrite
<1>4. CASE SaveSync
  BY <1>0, <1>4, SaveSyncOK DEF SaveSync, at, Inv
<1>5. CASE SaveMark
  <2>1. seed.prog.pc = "setxattr" /\ seed.file.mark \in BOOLEAN
    BY <1>0, <1>5 DEF SaveMark, at, SeedType, File
  <2>2. CASE seed' = [exit(seed, "saved") EXCEPT !.file.mark = TRUE]
    BY <1>0, <2>1, <2>2, SaveMarkOK DEF Inv
  <2>3. CASE seed' = exit(seed, "saved")
    <3> DEFINE g == exit(seed, "saved")
    <3>1. g \in SeedType /\ g.file = seed.file
      BY <1>0, Exit
    <3> HIDE DEF g
    <3>2. g = [g EXCEPT !.file.mark = seed.file.mark]
      BY <3>1 DEF SeedType, File
    <3>3. seed' = [exit(seed, "saved") EXCEPT !.file.mark = seed.file.mark]
      BY <2>3, <3>2 DEF g
    <3>4. QED
      BY <1>0, <2>1, <3>3, SaveMarkOK DEF Inv
  <2>4. QED
    BY <1>5, <2>2, <2>3 DEF SaveMark
<1>6. QED
  BY <1>1, <1>2, <1>3, <1>4, <1>5

LEMMA SeedNextOK ==
    ASSUME Inv, [SeedNext]_seed
    PROVE  Inv'
<1>0. SeedInv(seed) /\ seed \in SeedType
  BY DEF Inv, SeedInv
<1>1. CASE PoolReady
  BY <1>0, <1>1, PoolReadyOK DEF PoolReady, Inv
<1>2. CASE WriteBack
  BY <1>0, <1>2, WriteBackOK DEF WriteBack, Inv
<1>3. CASE PowerLoss
  <2>1. seed.boots + 1 \in Nat /\ Idle \in Prog
    BY <1>0 DEF SeedType, Idle, Prog
  <2>2. seed' = [seed EXCEPT !.file = seed.disk, !.pool = FALSE, !.prog = Idle,
                             !.phase = "boot", !.boots = seed.boots + 1]
    BY <1>3 DEF PowerLoss
  <2>3. QED
    BY <1>0, <2>1, <2>2, PowerLossOK DEF Inv
<1>4. CASE UNCHANGED seed
  BY <1>4 DEF Inv
<1>5. QED
  BY <1>1, <1>2, <1>3, <1>4, LoadStepOK, SaveStepOK DEF SeedNext

\* Whenever the power goes, no seed is credited on two boots, and none that was made
\* before the pool was ready is credited at all.
THEOREM SeedSafe == SeedSpec => []SeedCreditedOnce
<1>1. Inv /\ [SeedNext]_seed => Inv'
  BY SeedNextOK
<1>2. Inv => SeedCreditedOnce
  BY DEF Inv, SeedInv, Asked, Once, Saves, SeedCreditedOnce
<1>3. QED
  BY SeedInitOK, <1>1, <1>2, PTL DEF SeedSpec
=============================================================================
