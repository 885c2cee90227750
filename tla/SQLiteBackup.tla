---------------------------- MODULE SQLiteBackup ----------------------------
(***************************************************************************)
(* Paired snapshots of the two databases, their replica and their pruning. *)
(*                                                                         *)
(* Go code: internal/service/sqlite_backup.go.  A restore point is a pair  *)
(* of files with one timestamp.  The backup task, a manual compaction, the *)
(* recovery drill and the maintenance command all work on the two          *)
(* directories under SQLiteBackupService.mu; every rename, copy, check and *)
(* removal of a file is a step, and the process may die between any two.   *)
(*                                                                         *)
(* Abstractions.  A file is absent, good (integrity_check says ok) or bad; *)
(* a timestamp is a number, and the clock never runs backwards; files that *)
(* are past the retention time are those up to "cutoff", which relies on   *)
(* modification times growing with timestamps.  Sizes are left open: the   *)
(* capacity budget removes some number of the pairs it may remove.         *)
(* ".partial" files are not restore points and are left out.  The          *)
(* maintenance command is another process and is run only while the server *)
(* is stopped (cmd/storage-maintenance/main.go:2).                         *)
(*                                                                         *)
(* An operator named X_Slip is not part of the model: it is X as a         *)
(* plausible slip would leave it, to show that a property notices.         *)
(***************************************************************************)
EXTENDS Naturals, FiniteSets

CONSTANTS
    Job,        \* goroutines that call the service
    Nobody,     \* no goroutine
    MaxStamp,   \* bound: timestamps
    KeepPairs,  \* system.backup_keep_pairs
    Replica,    \* is a replica directory configured?
    Faults,     \* may a file operation fail?
    BadCopies,  \* may a copy to the replica be damaged?
    MaxCrashes  \* bound: how often the process dies

Dir == {"local", "replica"}
DB == {"sec_monitor", "small_cap"}  \* handled in this order
Stamp == 1..MaxStamp
Path == Dir \X DB \X Stamp

VARIABLES
    clock,    \* the current timestamp
    cutoff,   \* files up to this timestamp are past the retention time
    file,     \* what is found under each name
    mu,       \* the holder of SQLiteBackupService.mu
    job,      \* per goroutine, its progress
    drill,    \* status of the newest recovery_drills row
    crashes

vars == <<clock, cutoff, file, mu, job, drill, crashes>>

-----------------------------------------------------------------------------
(* State                                                                   *)

Content == {"none", "good", "bad"}

Kind == {"backup", "compact", "prune", "drill"}
Stage == {"age", "count", "budget"}
PC == {"idle", "staging", "publishing", "pruning", "removing", "copying",
       "checking", "compacting", "verifying", "picking", "rehearsing"}

DrillStatus == {"ready", "failed", "unavailable"}

Work == [pc : PC, kind : Kind, stamp : 0..MaxStamp, dir : Dir, db : DB,
         stage : Stage, doomed : SUBSET (DB \X Stamp), local : DrillStatus]

Rest == [pc |-> "idle", kind |-> "backup", stamp |-> 0, dir |-> "local",
         db |-> "sec_monitor", stage |-> "age", doomed |-> {},
         local |-> "unavailable"]

TypeOK ==
    /\ clock \in Stamp
    /\ cutoff \in 0..MaxStamp
    /\ file \in [Path -> Content]
    /\ mu \in Job \cup {Nobody}
    /\ job \in [Job -> Work]
    /\ drill \in DrillStatus \cup {"none"}
    /\ crashes \in 0..MaxCrashes
    /\ \A j \in Job : mu = j <=> job[j].pc # "idle"

Init ==
    /\ clock = 1
    /\ cutoff = 0
    /\ file = [p \in Path |-> "none"]
    /\ mu = Nobody
    /\ job = [j \in Job |-> Rest]
    /\ drill = "none"
    /\ crashes = 0

Exists(d, db, s) == file[<<d, db, s>>] # "none"

\* completeSQLiteBackupPairs
Complete(d) == {s \in Stamp : \A db \in DB : Exists(d, db, s)}
Single(d) == {s \in Stamp : \E db \in DB : Exists(d, db, s)} \ Complete(d)
Good(d, s) == \A db \in DB : file[<<d, db, s>>] = "good"

Newer(d, s) == Cardinality({t \in Complete(d) : t > s})

\* verifyLatestSQLitePair: the newest complete pair, 0 if there is none.
Newest(d) == IF Complete(d) = {} THEN 0
             ELSE CHOOSE s \in Complete(d) : Newer(d, s) = 0

UsedDir == IF Replica THEN Dir ELSE {"local"}

-----------------------------------------------------------------------------
(* The mutex                                                               *)

\* Backup, PruneExisting and the drill wait for the mutex; a compaction that
\* does not get it is refused, which is no step.
Begin(j, kind) ==
    /\ job[j].pc = "idle"
    /\ mu = Nobody
    /\ mu' = j
    /\ job' = [job EXCEPT ![j] =
          [Rest EXCEPT !.kind = kind, !.stamp = clock,
                       !.pc = CASE kind = "drill" -> "picking"
                                [] kind = "prune" -> "verifying"
                                [] OTHER -> "staging"]]
    /\ UNCHANGED <<clock, cutoff, file, drill, crashes>>

\* Slip: an early return forgets to unlock.
Leave_KeepsLock(j) ==
    /\ mu' = IF job[j].pc = "checking" THEN mu ELSE Nobody
    /\ job' = [job EXCEPT ![j] = Rest]

\* Every return, with or without an error, unlocks.
Leave(j) ==
    /\ mu' = IF mu = j THEN Nobody ELSE mu
    /\ job' = [job EXCEPT ![j] = Rest]

-----------------------------------------------------------------------------
(* backupLocked: stage and publish                                         *)

\* Both snapshots are written by VACUUM INTO and checked under names that do
\* not count.  Anything else ends the backup with nothing published.
StagePair(j) ==
    /\ job[j].pc = "staging"
    /\ \A db \in DB : ~Exists("local", db, job[j].stamp)
    /\ job' = [job EXCEPT ![j].pc = "publishing"]
    /\ UNCHANGED <<clock, cutoff, file, mu, drill, crashes>>

\* Slip: a compaction only logs that its backup failed.
StageFails_Logged(j) ==
    /\ job[j].pc = "staging"
    /\ Faults \/ \E db \in DB : Exists("local", db, job[j].stamp)
    /\ IF job[j].kind = "compact"
       THEN job' = [job EXCEPT ![j].pc = "compacting"] /\ UNCHANGED mu
       ELSE Leave(j)
    /\ UNCHANGED <<clock, cutoff, file, drill, crashes>>

StageFails(j) ==
    /\ job[j].pc = "staging"
    /\ Faults \/ \E db \in DB : Exists("local", db, job[j].stamp)
    /\ Leave(j)
    /\ UNCHANGED <<clock, cutoff, file, drill, crashes>>

\* One rename; the second one completes the pair.
Publish(j) ==
    LET w == job[j] IN
    /\ w.pc = "publishing"
    /\ file' = [file EXCEPT ![<<"local", w.db, w.stamp>>] = "good"]
    /\ job' = [job EXCEPT ![j] = IF w.db = "sec_monitor"
                                 THEN [w EXCEPT !.db = "small_cap"]
                                 ELSE [w EXCEPT !.pc = "pruning"]]
    /\ UNCHANGED <<clock, cutoff, mu, drill, crashes>>

\* Slip: what was published already is left.
PublishFails_Leaves(j) ==
    /\ Faults
    /\ job[j].pc = "publishing"
    /\ Leave(j)
    /\ UNCHANGED <<clock, cutoff, file, drill, crashes>>

\* A failing rename takes back what was published before it.
PublishFails(j) ==
    /\ Faults
    /\ job[j].pc = "publishing"
    /\ file' = [p \in Path |-> IF p[1] = "local" /\ p[3] = job[j].stamp
                               THEN "none" ELSE file[p]]
    /\ Leave(j)
    /\ UNCHANGED <<clock, cutoff, drill, crashes>>

-----------------------------------------------------------------------------
(* Pruning                                                                 *)

PairFiles(stamps) == DB \X stamps

\* Slip: one pair is kept where two should be.
DoomedByAge_KeepsOne(d) ==
    {f \in PairFiles({s \in Complete(d) : Newer(d, s) >= 1}) : f[2] <= cutoff}
    \cup {f \in PairFiles(Single(d)) : f[2] <= cutoff /\ Exists(d, f[1], f[2])}

\* pruneSQLiteBackups: expired pairs but the newest two, and expired singles.
DoomedByAge(d) ==
    {f \in PairFiles({s \in Complete(d) : Newer(d, s) >= 2}) : f[2] <= cutoff}
    \cup {f \in PairFiles(Single(d)) : f[2] <= cutoff /\ Exists(d, f[1], f[2])}

\* pruneSQLiteBackupPairs
DoomedByCount(d) == PairFiles({s \in Complete(d) : Newer(d, s) >= KeepPairs})

\* pruneSQLiteBackupBudget: the oldest pairs, until the total fits.
DoomedByBudget(d, upTo) ==
    PairFiles({s \in Complete(d) : Newer(d, s) >= 2 /\ s <= upTo})

StartStage(j) ==
    LET w == job[j] IN
    /\ w.pc = "pruning"
    /\ \E upTo \in {0} \cup Stamp :
          job' = [job EXCEPT ![j].pc = "removing",
                    ![j].doomed = CASE w.stage = "age" -> DoomedByAge(w.dir)
                                    [] w.stage = "count" -> DoomedByCount(w.dir)
                                    [] OTHER -> DoomedByBudget(w.dir, upTo)]
    /\ UNCHANGED <<clock, cutoff, file, mu, drill, crashes>>

\* Oldest first, and the operational database first.
Before(f, g) == f[2] < g[2] \/ (f[2] = g[2] /\ f[1] = "sec_monitor")

Remove(j) ==
    LET w == job[j] IN
    /\ w.pc = "removing"
    /\ \E f \in w.doomed :
          /\ \A g \in w.doomed \ {f} : Before(f, g)
          /\ file' = [file EXCEPT ![<<w.dir, f[1], f[2]>>] = "none"]
          /\ job' = [job EXCEPT ![j].doomed = @ \ {f}]
    /\ UNCHANGED <<clock, cutoff, mu, drill, crashes>>

\* The rest of the pruning, and of the whole operation, is given up.
PruneFails(j) ==
    /\ Faults
    /\ job[j].pc \in {"pruning", "removing"}
    /\ Leave(j)
    /\ UNCHANGED <<clock, cutoff, file, drill, crashes>>

Then(j, w) == job' = [job EXCEPT ![j] = w] /\ UNCHANGED mu

\* What follows the last stage in a directory.
EndPruning(j) ==
    LET w == job[j] IN
    IF w.dir = "local" /\ Replica
    THEN Then(j, IF w.kind = "prune"
                 THEN [w EXCEPT !.pc = "pruning", !.dir = "replica"]
                 ELSE [w EXCEPT !.pc = "copying", !.dir = "replica", !.db = "sec_monitor"])
    ELSE IF w.kind = "compact" THEN Then(j, [w EXCEPT !.pc = "compacting"]) ELSE Leave(j)

\* PruneExisting prunes by count only, a backup by age, count and budget.
EndStage(j) ==
    LET w == job[j] IN
    /\ w.pc = "removing" /\ w.doomed = {}
    /\ CASE w.stage = "age" -> Then(j, [w EXCEPT !.pc = "pruning", !.stage = "count"])
         [] w.stage = "count" /\ w.kind # "prune" ->
                Then(j, [w EXCEPT !.pc = "pruning", !.stage = "budget"])
         [] OTHER -> EndPruning(j)
    /\ UNCHANGED <<clock, cutoff, file, drill, crashes>>

-----------------------------------------------------------------------------
(* replicateSQLiteBackupPair                                               *)

\* copyFileAtomic gives the copy its final name ...
Copy(j) ==
    LET w == job[j] IN
    /\ w.pc = "copying"
    /\ Exists("local", w.db, w.stamp)
    /\ \E content \in {"good"} \cup (IF BadCopies THEN {"bad"} ELSE {}) :
          file' = [file EXCEPT ![<<"replica", w.db, w.stamp>>] = content]
    /\ job' = [job EXCEPT ![j].pc = "checking"]
    /\ UNCHANGED <<clock, cutoff, mu, drill, crashes>>

\* Slip: the check of the copy is left out.
Check_Skipped(j) ==
    LET w == job[j] IN
    /\ w.pc = "checking"
    /\ job' = [job EXCEPT ![j] = IF w.db = "sec_monitor"
                                 THEN [w EXCEPT !.pc = "copying", !.db = "small_cap"]
                                 ELSE [w EXCEPT !.pc = "pruning", !.stage = "age"]]
    /\ UNCHANGED <<clock, cutoff, file, mu, drill, crashes>>

\* ... and then it is checked.
Check(j) ==
    LET w == job[j] IN
    /\ w.pc = "checking"
    /\ file[<<"replica", w.db, w.stamp>>] = "good"
    /\ job' = [job EXCEPT ![j] = IF w.db = "sec_monitor"
                                 THEN [w EXCEPT !.pc = "copying", !.db = "small_cap"]
                                 ELSE [w EXCEPT !.pc = "pruning", !.stage = "age"]]
    /\ UNCHANGED <<clock, cutoff, file, mu, drill, crashes>>

\* The cleanup removes the copies that had passed their check, not this one.
ReplicateFails(j) ==
    LET w == job[j] IN
    /\ \/ w.pc = "copying" /\ (Faults \/ ~Exists("local", w.db, w.stamp))
       \/ w.pc = "checking" /\ (Faults \/ file[<<"replica", w.db, w.stamp>>] = "bad")
    /\ file' = IF w.db = "small_cap"
               THEN [file EXCEPT ![<<"replica", "sec_monitor", w.stamp>>] = "none"]
               ELSE file
    /\ Leave(j)
    /\ UNCHANGED <<clock, cutoff, drill, crashes>>

-----------------------------------------------------------------------------
(* Compaction, PruneExisting, the recovery drill                           *)

\* VACUUM rewrites the live databases; done, or failed half way.
Compact(j) ==
    /\ job[j].pc = "compacting"
    /\ Leave(j)
    /\ UNCHANGED <<clock, cutoff, file, drill, crashes>>

\* verifyLatestSQLitePair succeeds.
Restorable(d) == Newest(d) # 0 /\ Good(d, Newest(d))

VerifyBeforePruning(j) ==
    /\ job[j].pc = "verifying"
    /\ IF \A d \in UsedDir : Restorable(d)
       THEN Then(j, [job[j] EXCEPT !.pc = "pruning", !.stage = "count"])
       ELSE Leave(j)
    /\ UNCHANGED <<clock, cutoff, file, drill, crashes>>

\* Slip: the replica does not count.
Overall_LocalOnly(local, replica) == local

\* The recorded status: that of the local pair, unless the replica fails.
Overall(local, replica) ==
    IF Replica /\ replica # "ready" THEN "failed" ELSE local

\* The drill picks the newest complete pair of a directory ...
Pick(j) ==
    LET w == job[j] IN
    /\ w.pc = "picking"
    /\ job' = [job EXCEPT ![j].stamp = Newest(w.dir), ![j].pc = "rehearsing"]
    /\ UNCHANGED <<clock, cutoff, file, mu, drill, crashes>>

\* ... hashes it, copies it away, checks it; the result is recorded after the
\* last directory.
Rehearse(j) ==
    LET w == job[j]
        status == IF w.stamp = 0 THEN "unavailable"
                  ELSE IF Good(w.dir, w.stamp) THEN "ready" ELSE "failed" IN
    /\ w.pc = "rehearsing"
    /\ IF w.dir = "local" /\ Replica
       THEN /\ Then(j, [w EXCEPT !.pc = "picking", !.dir = "replica",
                                  !.local = status])
            /\ UNCHANGED drill
       ELSE /\ drill' = Overall(IF Replica THEN w.local ELSE status, status)
            /\ Leave(j)
    /\ UNCHANGED <<clock, cutoff, file, crashes>>

-----------------------------------------------------------------------------
(* Time and crashes                                                        *)

Tick ==
    /\ clock < MaxStamp
    /\ clock' = clock + 1
    /\ UNCHANGED <<cutoff, file, mu, job, drill, crashes>>

\* An operation computes its retention limit from the time it started at.
Expire ==
    /\ cutoff < clock - 1
    /\ mu = Nobody
    /\ cutoff' = cutoff + 1
    /\ UNCHANGED <<clock, file, mu, job, drill, crashes>>

Crash ==
    /\ crashes < MaxCrashes
    /\ crashes' = crashes + 1
    /\ mu' = Nobody
    /\ job' = [j \in Job |-> Rest]
    /\ UNCHANGED <<clock, cutoff, file, drill>>

-----------------------------------------------------------------------------

JobStep(j) ==
    \/ StagePair(j) \/ StageFails(j)
    \/ Publish(j) \/ PublishFails(j)
    \/ StartStage(j) \/ Remove(j) \/ PruneFails(j) \/ EndStage(j)
    \/ Copy(j) \/ Check(j) \/ ReplicateFails(j)
    \/ Compact(j)
    \/ VerifyBeforePruning(j)
    \/ Pick(j) \/ Rehearse(j)

Next ==
    \/ \E j \in Job : JobStep(j) \/ \E kind \in Kind : Begin(j, kind)
    \/ Tick
    \/ Expire
    \/ Crash

Spec == Init /\ [][Next]_vars

-----------------------------------------------------------------------------
(* Properties                                                              *)

\* The pairs that are not still being made: a replica in the making may be
\* taken back by the step that finds it damaged.
Settled(d) ==
    Complete(d) \ {job[j].stamp : j \in {i \in Job : job[i].pc = "checking"
                                                     /\ job[i].dir = d}}

\* The newest two pairs of a directory are never touched, by age, count or
\* budget ("always protects the newest two", backup-and-recovery.md:8).  A
\* reader that holds no mutex (VerifyLatest) keeps its pair meanwhile.
NewestTwoKept ==
    [][\A d \in Dir : \A s \in Settled(d) :
          s \notin Complete(d)' => Newer(d, s) >= 2]_vars

\* Once a directory holds a pair that restores, it always holds one: crashes,
\* failing steps, damaged copies and pruning never take the last one.
Recoverable(d) == \E s \in Settled(d) : Good(d, s)
StaysRecoverable == [][\A d \in Dir : Recoverable(d) => Recoverable(d)']_vars

\* While the process lives, half a pair is only ever the rest of a pair that
\* was being pruned: "a later failure cannot leave a half-published restore
\* point" (sqlite_backup.go:188).
NoHalfPublished ==
    crashes = 0 /\ (\A j \in Job : job[j].pc # "publishing") =>
        \A s \in Single("local") : Newer("local", s) >= 2

\* The live databases are rewritten only while the pair made for it is in
\* place and intact (Compact's comment), whatever pruning made of the rest.
CompactionBackedUp ==
    \A j \in Job : job[j].pc = "compacting" => Good("local", job[j].stamp)

\* A drill is recorded as ready only when the newest pair of every directory
\* in use does restore at that moment.
DrillHonest ==
    [][\A j \in Job : job[j].pc = "rehearsing" /\ job'[j].pc = "idle"
            /\ drill' = "ready" /\ crashes' = crashes
          => \A d \in UsedDir : Restorable(d)]_vars

=============================================================================
