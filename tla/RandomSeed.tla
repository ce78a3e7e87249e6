----------------------------- MODULE RandomSeed -----------------------------
(***************************************************************************)
(* random-seed (exts/random_seed): "load" feeds the seed file to the       *)
(* kernel's pool at boot, "save" writes a new one at shutdown.  A seed may *)
(* be credited as entropy only when the file carries the attribute         *)
(* user.random-seed-credittable, which a load removes before it credits.   *)
(* The machine may lose power between any two steps: what was written and  *)
(* not synchronised may or may not be on the disk then.                    *)
(*                                                                         *)
(* A file is [data, mark]: the saves whose bytes it holds (two after a     *)
(* write that was cut short) and the attribute.  Bytes are not modelled.   *)
(***************************************************************************)
EXTENDS Naturals

CONSTANTS
    MaxSaves,   \* bound on the seeds that are written
    MaxBoots    \* bound on the boots

ASSUME SeedAssumption == MaxSaves \in Nat /\ MaxBoots \in Nat

VARIABLE seed

\* The values of $SYSTEMD_RANDOM_SEED_CREDIT that parse_boolean tells apart.
Credit == {"unset", "force", "unparsed", "0", "1"}

Empty == [data |-> {}, mark |-> FALSE]

Idle == [pc |-> "idle", buf |-> {}, lets_credit |-> "NoWay", worked |-> FALSE]

\* pool: the kernel's pool is initialised; weak: saves made before it was;
\* credited: how often each save was credited; kept: the attribute could not be
\* removed once, unsynced: its removal could not be synchronised; phase: what the
\* services have run in this boot.
SeedInit ==
    \E env \in Credit, first \in BOOLEAN :
        seed = [file |-> Empty, disk |-> Empty, pool |-> FALSE, prog |-> Idle,
                phase |-> "boot", boots |-> 1, saves |-> 0, weak |-> {},
                credited |-> [n \in 1..MaxSaves |-> 0], kept |-> FALSE,
                unsynced |-> FALSE, env |-> env, first_boot |-> first]

parse_boolean(e) == CASE e = "1" -> "yes" [] e = "0" -> "no" [] OTHER -> "err"

\* setxattr writes "1", so that an attribute which is there reads as true.
getxattr(s) == s.file.mark

may_credit(s) ==
    CASE s.env = "unset" -> "NoWay"
      [] s.env = "force" -> "YesForced"
      [] parse_boolean(s.env) # "yes" -> "NoWay"
      [] ~getxattr(s) -> "NoWay"
      [] s.first_boot /\ s.boots = 1 -> "NoWay"
      [] OTHER -> "YesPlease"

at(s, pc) == s.prog.pc = pc

goto(s, pc) == [s EXCEPT !.prog.pc = pc]

exit(s, phase) == [s EXCEPT !.prog = Idle, !.phase = phase]

\* A program that fails leaves what it has done; a service whose start failed
\* is not stopped either, so that nothing is saved in this boot.
fail(s) == exit(s, "failed")

\* fsync of the file and of its directory.
fsync_full(s) == [s EXCEPT !.disk = s.file]

\* The program with "load": an empty file is not read.
OpenLoad ==
    /\ at(seed, "idle") /\ seed.phase = "boot"
    /\ seed' \in {IF seed.file.data = {} THEN exit(seed, "loaded") ELSE goto(seed, "read"),
                  fail(seed)}

\* The machine id is written to the pool before, without credit.
loop_read(s) == [goto(s, "credit") EXCEPT !.prog.buf = s.file.data]

LoadRead ==
    /\ at(seed, "read")
    /\ seed' \in {loop_read(seed), fail(seed)}

LoadCredit ==
    /\ at(seed, "credit")
    /\ seed' = [goto(seed, "remove") EXCEPT !.prog.lets_credit = may_credit(seed)]

\* An attribute that is not there, or cannot be removed, is "ignored".
LoadRemove ==
    /\ at(seed, "remove")
    /\ seed' \in IF seed.file.mark
                 THEN {[goto(seed, "sync") EXCEPT !.file.mark = FALSE],
                       [goto(seed, "entropy") EXCEPT !.kept = TRUE]}
                 ELSE {goto(seed, "entropy")}

\* A mistake: the removal is not waited for.
load_sync_skipped(s) == {goto(s, "entropy")}

load_sync(s) ==
    {goto(fsync_full(s), "entropy"),
     [goto(s, "entropy") EXCEPT !.unsynced = TRUE,
                                !.prog.lets_credit = IF @ = "YesPlease" THEN "NoWay" ELSE @]}

LoadSync == at(seed, "sync") /\ seed' \in load_sync(seed)

\* RNDADDENTROPY credits; a write to the device does not.
random_write_entropy(s, credit) ==
    IF credit
    THEN [s EXCEPT !.pool = TRUE,
                   !.credited = [n \in DOMAIN @ |-> @[n] + (IF n \in s.prog.buf THEN 1 ELSE 0)]]
    ELSE s

LoadEntropy ==
    /\ at(seed, "entropy")
    /\ LET credit == seed.prog.lets_credit \in {"YesForced", "YesPlease"}
       IN  seed' \in {exit(random_write_entropy(seed, credit), "loaded"), fail(seed)}

\* The program with "save"; chmod_and_chown may fail.
OpenSave ==
    /\ at(seed, "idle") /\ seed.phase = "loaded"
    /\ seed.saves < MaxSaves
    /\ seed' \in {goto(seed, "getrandom"), fail(seed)}

\* getrandom with GRND_NONBLOCK: an error before the pool is initialised.  A
\* short read or an error falls back to /dev/urandom, which always answers.
get_random(s) == IF s.pool THEN {TRUE, FALSE} ELSE {FALSE}

SaveGet ==
    /\ at(seed, "getrandom")
    /\ \E worked \in get_random(seed) :
           seed' = [seed EXCEPT
                       !.prog = [@ EXCEPT !.pc = "write", !.buf = {seed.saves + 1},
                                          !.worked = worked],
                       !.saves = @ + 1,
                       !.weak = @ \cup (IF seed.pool THEN {} ELSE {seed.saves + 1})]

\* loop_write and ftruncate: the write may be cut short.
SaveWrite ==
    /\ at(seed, "write")
    /\ seed' \in {[goto(seed, "savesync") EXCEPT !.file.data = seed.prog.buf],
                  [fail(seed) EXCEPT !.file.data = @ \cup seed.prog.buf]}

setxattr(s) == s.prog.worked

SaveSync ==
    /\ at(seed, "savesync")
    /\ seed' \in {IF setxattr(seed) THEN goto(fsync_full(seed), "setxattr")
                                    ELSE exit(fsync_full(seed), "saved"),
                  fail(seed)}

\* setxattr: an error is logged.
SaveMark ==
    /\ at(seed, "setxattr")
    /\ seed' \in {[exit(seed, "saved") EXCEPT !.file.mark = TRUE], exit(seed, "saved")}

\* The kernel: the pool becomes ready by itself; pages and attributes reach the
\* disk in any order; the power goes, or the machine shuts down and is booted.
PoolReady == ~seed.pool /\ seed' = [seed EXCEPT !.pool = TRUE]

WriteBack ==
    /\ seed.disk # seed.file
    /\ \E data \in {seed.file.data, seed.disk.data, seed.file.data \cup seed.disk.data},
          mark \in {seed.file.mark, seed.disk.mark} :
           seed' = [seed EXCEPT !.disk = [data |-> data, mark |-> mark]]

PowerLoss ==
    /\ seed.boots < MaxBoots
    /\ seed' = [seed EXCEPT !.file = seed.disk, !.pool = FALSE, !.prog = Idle,
                            !.phase = "boot", !.boots = @ + 1]

SeedNext ==
    \/ OpenLoad \/ LoadRead \/ LoadCredit \/ LoadRemove \/ LoadSync \/ LoadEntropy
    \/ OpenSave \/ SaveGet \/ SaveWrite \/ SaveSync \/ SaveMark
    \/ PoolReady \/ WriteBack \/ PowerLoss

SeedSpec == SeedInit /\ [][SeedNext]_seed

(***************************************************************************)
(* What must hold.                                                         *)
(***************************************************************************)

\* No saved seed is credited on two boots: the load removes the attribute and
\* synchronises before it credits.  And none that was made before the pool was
\* initialised is credited at all: the save sets the attribute only for what
\* getrandom gave.  Crediting is not forced and the attribute could be removed;
\* for the second part its removal reached the disk.
SeedCreditedOnce ==
    (seed.env # "force" /\ ~seed.kept) =>
        \A n \in 1..MaxSaves :
            /\ seed.credited[n] <= 1
            /\ n \in seed.weak /\ ~seed.unsynced => seed.credited[n] = 0
=============================================================================
