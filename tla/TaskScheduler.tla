--------------------------- MODULE TaskScheduler ---------------------------
(***************************************************************************)
(* The task scheduler and the task rows it drives.                         *)
(*                                                                         *)
(* Go code: internal/scheduler/scheduler.go (the in-process dispatcher:    *)
(* runTaskWithTrigger, runDueRetries) and internal/service/task_config.go  *)
(* (the durable rows: MarkRunStarted, ClaimRetry, MarkRunOutcome, the      *)
(* restart repairs).  Cron firings, the HTTP "run now" handler and the     *)
(* one-minute retry scan are goroutines of one process; every access to a  *)
(* row is one SQLite statement, and is one step here.                      *)
(*                                                                         *)
(* Abstractions.  retry_not_before is NULL ("none"), in the future         *)
(* ("waiting") or reached ("due"); the clock is the action Elapse.         *)
(* consecutive_failures is kept as "is it positive".  Which tasks a cron   *)
(* instance may still fire is the business of CronReload: here every task  *)
(* may be fired at any time.                                               *)
(*                                                                         *)
(* An operator named X_Slip is not part of the model: it is X as a         *)
(* plausible slip would leave it, to show that a property notices.         *)
(***************************************************************************)
EXTENDS Naturals, FiniteSets

CONSTANTS
    Task,                \* task_name values of the task_configs table
    SECTask,             \* the tasks that share SEC's live endpoints
    StandaloneTask,      \* the tasks with a run log of their own
    CooldownTask,        \* the task skipped shortly after a manual success
    Caller,              \* goroutines of cron firings and of HTTP requests
    Ticker,              \* goroutines of the retry scan's one-minute firings
    Nobody,              \* no task, no goroutine
    MaxTaskAutoRetries,  \* automatic retries in a round
    RetryBatch,          \* rows one retry scan loads
    MaxCrashes,          \* bound: how often the process dies
    DBFaults             \* may a statement fail (disk full, SQLITE_BUSY)?

ASSUME TaskAssumption ==
    /\ SECTask \subseteq Task
    /\ StandaloneTask \subseteq Task
    /\ CooldownTask \subseteq Task
    /\ Nobody \notin Task \cup Caller \cup Ticker
    /\ Caller \cap Ticker = {}

ASSUME BoundAssumption ==
    /\ MaxTaskAutoRetries \in Nat
    /\ RetryBatch \in Nat \ {0}
    /\ MaxCrashes \in Nat
    /\ DBFaults \in BOOLEAN

Proc == Caller \cup Ticker

VARIABLES
    phase,          \* life cycle of the process, restart repairs included
    crashes,        \* how often it died so far
    (* memory of the process *)
    runningTasks,   \* Scheduler.runningTasks
    runningSECTask, \* Scheduler.runningSECTask
    retryMu,        \* the scan that holds Scheduler.retryMu, or Nobody
    dueQueue,       \* per scan, the rows it loaded and has not tried yet
    run,            \* per goroutine, its call of runTaskWithTrigger
    (* tables *)
    row,            \* task_configs
    orphan,         \* tasks with a "running" task_executions row of a dead run
    manualOK,       \* cooldown tasks with a manual success in the window
    (* history, read by no action *)
    roundRetries    \* retries started since the last scheduled or manual start

memory == <<runningTasks, runningSECTask, retryMu, dueQueue, run>>
tables == <<row, orphan, manualOK>>
vars == <<phase, crashes, memory, tables, roundRetries>>

-----------------------------------------------------------------------------
(* State                                                                   *)

Phase == {"down", "migrated", "rowsRecovered", "up"}

Trigger == {"scheduled", "manual", "retry"}

\* What runTask returns.  "pending" is a retryable partial result with work
\* left, "partial" one that is not retryable or has nothing left; an error, a
\* panic and an expired context are all "failed".
Outcome == {"success", "skipped", "degraded", "partial", "pending", "failed"}

Status == {"", "running", "success", "skipped", "degraded", "partial",
           "failed", "interrupted"}

Retryable == {"failed", "partial", "interrupted"}

\* The points of runTaskWithTrigger between which other goroutines may run.
LockedPC == {"locked", "marked", "working", "finishing", "outcome", "releasing"}
PC == {"idle", "entering"} \cup LockedPC

Call == [pc : PC, task : Task \cup {Nobody}, trigger : Trigger \cup {"none"},
         exec : BOOLEAN, result : Outcome \cup {"none"}]

NoCall == [pc |-> "idle", task |-> Nobody, trigger |-> "none",
           exec |-> FALSE, result |-> "none"]

Attempts == 0..MaxTaskAutoRetries

Row == [enabled : BOOLEAN, running : BOOLEAN, status : Status, streak : BOOLEAN,
        retry : {"none", "waiting", "due"}, attempts : Attempts]

\* A row as EnsureDefault creates it; some tasks ship disabled.
FreshRow == {r \in Row : /\ ~r.running /\ r.status = "" /\ ~r.streak
                         /\ r.retry = "none" /\ r.attempts = 0}

TypeOK ==
    /\ phase \in Phase
    /\ crashes \in 0..MaxCrashes
    /\ runningTasks \in SUBSET Task
    /\ runningSECTask \in SECTask \cup {Nobody}
    /\ retryMu \in Ticker \cup {Nobody}
    /\ dueQueue \in [Ticker -> SUBSET Task]
    /\ run \in [Proc -> Call]
    /\ row \in [Task -> Row]
    /\ orphan \in SUBSET Task
    /\ manualOK \in SUBSET CooldownTask
    /\ roundRetries \in [Task -> Nat]

Init ==
    /\ phase = "up"
    /\ crashes = 0
    /\ runningTasks = {}
    /\ runningSECTask = Nobody
    /\ retryMu = Nobody
    /\ dueQueue = [p \in Ticker |-> {}]
    /\ run = [p \in Proc |-> NoCall]
    /\ row \in [Task -> FreshRow]
    /\ orphan = {}
    /\ manualOK = {}
    /\ roundRetries = [t \in Task |-> 0]

-----------------------------------------------------------------------------
(* Entering a run                                                          *)

UsesSEC(t) == t \in SECTask

\* A slip: only the task's own lock is checked.
Busy_NoSEC(t) == t \in runningTasks

\* The busy checks made under Scheduler.mu.
Busy(t) == t \in runningTasks \/ (UsesSEC(t) /\ runningSECTask # Nobody)

Acquire(t) ==
    /\ runningTasks' = runningTasks \cup {t}
    /\ runningSECTask' = IF UsesSEC(t) THEN t ELSE runningSECTask

\* Slip: the SEC slot is not handed back.
ReleaseLocks_NoSEC(t) ==
    /\ runningTasks' = runningTasks \ {t}
    /\ UNCHANGED runningSECTask

ReleaseLocks(t) ==
    /\ runningTasks' = runningTasks \ {t}
    /\ runningSECTask' = IF UsesSEC(t) /\ runningSECTask = t
                         THEN Nobody ELSE runningSECTask

Call_(p, t, trigger) ==
    run' = [run EXCEPT ![p] = [NoCall EXCEPT !.pc = "entering", !.task = t,
                                             !.trigger = trigger]]

\* A cron firing reads the row before it takes the mutex.  A firing that is
\* turned away changes nothing and is not a step.
ScheduledRunAllowed(t) == row[t].retry # "waiting"

FireScheduled(p, t) ==
    /\ phase = "up" /\ run[p].pc = "idle"
    /\ ScheduledRunAllowed(t)
    /\ Call_(p, t, "scheduled")
    /\ UNCHANGED <<phase, crashes, runningTasks, runningSECTask, retryMu,
                   dueQueue, tables, roundRetries>>

FireManual(p, t) ==
    /\ phase = "up" /\ run[p].pc = "idle"
    /\ Call_(p, t, "manual")
    /\ UNCHANGED <<phase, crashes, runningTasks, runningSECTask, retryMu,
                   dueQueue, tables, roundRetries>>

\* Slip: a retry that finds its task busy counts as an attempt.
EnterBusy_Counts(p) ==
    /\ phase = "up" /\ run[p].pc = "entering"
    /\ Busy(run[p].task)
    /\ row' = [row EXCEPT ![run[p].task].attempts =
                  IF @ < MaxTaskAutoRetries THEN @ + 1 ELSE @]
    /\ run' = [run EXCEPT ![p] = NoCall]
    /\ UNCHANGED <<phase, crashes, runningTasks, runningSECTask, retryMu,
                   dueQueue, orphan, manualOK, roundRetries>>

\* TaskAlreadyRunning or TaskResourceBusy: the caller leaves.
EnterBusy(p) ==
    /\ phase = "up" /\ run[p].pc = "entering"
    /\ Busy(run[p].task)
    /\ run' = [run EXCEPT ![p] = NoCall]
    /\ UNCHANGED <<phase, crashes, runningTasks, runningSECTask, retryMu,
                   dueQueue, tables, roundRetries>>

EnterRegular(p) ==
    LET t == run[p].task IN
    /\ phase = "up" /\ run[p].pc = "entering" /\ run[p].trigger # "retry"
    /\ ~Busy(t)
    /\ Acquire(t)
    /\ run' = [run EXCEPT ![p].pc = "locked"]
    /\ UNCHANGED <<phase, crashes, retryMu, dueQueue, tables, roundRetries>>

\* Slip: the attempts are not looked at.
Claimable_NoLimit(t) ==
    /\ row[t].enabled /\ ~row[t].running
    /\ row[t].retry = "due" /\ row[t].status \in Retryable

\* The predicate ClaimRetry's UPDATE repeats.
Claimable(t) ==
    /\ row[t].enabled
    /\ ~row[t].running
    /\ row[t].retry = "due"
    /\ row[t].attempts < MaxTaskAutoRetries
    /\ row[t].status \in Retryable

\* ClaimRetry runs under Scheduler.mu, before the locks are recorded.
ClaimRetry(p) ==
    LET t == run[p].task IN
    /\ phase = "up" /\ run[p].pc = "entering" /\ run[p].trigger = "retry"
    /\ ~Busy(t)
    /\ Claimable(t)
    /\ Acquire(t)
    /\ row' = [row EXCEPT ![t].running = TRUE, ![t].status = "running",
                          ![t].attempts = @ + 1]
    /\ roundRetries' = [roundRetries EXCEPT ![t] = @ + 1]
    /\ run' = [run EXCEPT ![p].pc = "marked"]
    /\ UNCHANGED <<phase, crashes, retryMu, dueQueue, orphan, manualOK>>

\* The row changed since the scan loaded it, or the statement failed.
ClaimMissed(p) ==
    LET t == run[p].task IN
    /\ phase = "up" /\ run[p].pc = "entering" /\ run[p].trigger = "retry"
    /\ ~Busy(t)
    /\ ~Claimable(t) \/ DBFaults
    /\ run' = [run EXCEPT ![p] = NoCall]
    /\ UNCHANGED <<phase, crashes, runningTasks, runningSECTask, retryMu,
                   dueQueue, tables, roundRetries>>

-----------------------------------------------------------------------------
(* Running and finishing                                                   *)

\* A scheduled or manual start opens a new round: the attempts are handed
\* back and a queued retry is withdrawn.
MarkRunStarted(p) ==
    LET t == run[p].task IN
    /\ phase = "up" /\ run[p].pc = "locked"
    /\ row' = [row EXCEPT ![t].running = TRUE, ![t].status = "running",
                          ![t].attempts = 0, ![t].retry = "none"]
    /\ roundRetries' = [roundRetries EXCEPT ![t] = 0]
    /\ run' = [run EXCEPT ![p].pc = "marked"]
    /\ UNCHANGED <<phase, crashes, runningTasks, runningSECTask, retryMu,
                   dueQueue, orphan, manualOK>>

\* Slip: the error is only logged.
MarkRunStartedFails_GoesOn(p) ==
    /\ DBFaults
    /\ phase = "up" /\ run[p].pc = "locked"
    /\ run' = [run EXCEPT ![p].pc = "marked"]
    /\ UNCHANGED <<phase, crashes, runningTasks, runningSECTask, retryMu,
                   dueQueue, tables, roundRetries>>

MarkRunStartedFails(p) ==
    /\ DBFaults
    /\ phase = "up" /\ run[p].pc = "locked"
    /\ ReleaseLocks(run[p].task)
    /\ run' = [run EXCEPT ![p] = NoCall]
    /\ UNCHANGED <<phase, crashes, retryMu, dueQueue, tables, roundRetries>>

StartExecution(p) ==
    /\ phase = "up" /\ run[p].pc = "marked"
    /\ run' = [run EXCEPT ![p].pc = "working",
                          ![p].exec = run[p].task \notin StandaloneTask]
    /\ UNCHANGED <<phase, crashes, runningTasks, runningSECTask, retryMu,
                   dueQueue, tables, roundRetries>>

StartExecutionFails(p) ==
    /\ DBFaults
    /\ phase = "up" /\ run[p].pc = "marked"
    /\ run[p].task \notin StandaloneTask
    /\ run' = [run EXCEPT ![p].pc = "finishing", ![p].result = "failed"]
    /\ UNCHANGED <<phase, crashes, runningTasks, runningSECTask, retryMu,
                   dueQueue, tables, roundRetries>>

\* A scheduled IPO scan right after a manual success is skipped; the read of
\* that history row may fail, which fails the run.
RecentManualSuccess(p) ==
    /\ run[p].trigger = "scheduled"
    /\ run[p].task \in manualOK

RunTask(p) ==
    /\ phase = "up" /\ run[p].pc = "working"
    /\ \E result \in IF RecentManualSuccess(p)
                     THEN {"skipped"} \cup IF DBFaults THEN {"failed"} ELSE {}
                     ELSE Outcome :
          run' = [run EXCEPT ![p].pc = "finishing", ![p].result = result]
    /\ UNCHANGED <<phase, crashes, runningTasks, runningSECTask, retryMu,
                   dueQueue, tables, roundRetries>>

FinishExecution(p) ==
    LET t == run[p].task IN
    /\ phase = "up" /\ run[p].pc = "finishing"
    /\ run' = [run EXCEPT ![p].pc = "outcome", ![p].exec = FALSE]
    /\ manualOK' = IF run[p].exec /\ run[p].trigger = "manual"
                      /\ run[p].result = "success" /\ t \in CooldownTask
                   THEN manualOK \cup {t} ELSE manualOK
    /\ UNCHANGED <<phase, crashes, runningTasks, runningSECTask, retryMu,
                   dueQueue, row, orphan, roundRetries>>

\* The error is logged and the execution row stays "running".
FinishExecutionFails(p) ==
    /\ DBFaults
    /\ phase = "up" /\ run[p].pc = "finishing" /\ run[p].exec
    /\ run' = [run EXCEPT ![p].pc = "outcome", ![p].exec = FALSE]
    /\ orphan' = orphan \cup {run[p].task}
    /\ UNCHANGED <<phase, crashes, runningTasks, runningSECTask, retryMu,
                   dueQueue, row, manualOK, roundRetries>>

\* Slip: a partial result counts as progress and hands the attempts back.
OutcomeRow_Progress(r, result) ==
    LET done == [r EXCEPT !.running = FALSE, !.retry = "none", !.streak = FALSE]
        again == IF r.attempts < MaxTaskAutoRetries THEN "waiting" ELSE "none"
    IN CASE result \in {"success", "skipped", "degraded"} ->
                [done EXCEPT !.status = result, !.attempts = 0]
         [] result = "partial" -> [done EXCEPT !.status = "partial"]
         [] result = "pending" -> [done EXCEPT !.status = "partial",
                                               !.retry = again, !.attempts = 0]
         [] OTHER -> [done EXCEPT !.status = "failed", !.streak = TRUE,
                                  !.retry = again]

\* The row MarkRunOutcome writes for each kind of result.
OutcomeRow(r, result) ==
    LET done == [r EXCEPT !.running = FALSE, !.retry = "none", !.streak = FALSE]
        again == IF r.attempts < MaxTaskAutoRetries THEN "waiting" ELSE "none"
    IN CASE result \in {"success", "skipped", "degraded"} ->
                [done EXCEPT !.status = result, !.attempts = 0]
         [] result = "partial" -> [done EXCEPT !.status = "partial"]
         [] result = "pending" -> [done EXCEPT !.status = "partial",
                                               !.retry = again]
         [] OTHER -> [done EXCEPT !.status = "failed", !.streak = TRUE,
                                  !.retry = again]

MarkRunOutcome(p) ==
    LET t == run[p].task IN
    /\ phase = "up" /\ run[p].pc = "outcome"
    /\ row' = [row EXCEPT ![t] = OutcomeRow(@, run[p].result)]
    /\ run' = [run EXCEPT ![p].pc = "releasing"]
    /\ UNCHANGED <<phase, crashes, runningTasks, runningSECTask, retryMu,
                   dueQueue, orphan, manualOK, roundRetries>>

MarkRunOutcomeFails(p) ==
    /\ DBFaults
    /\ phase = "up" /\ run[p].pc = "outcome"
    /\ run' = [run EXCEPT ![p].pc = "releasing"]
    /\ UNCHANGED <<phase, crashes, runningTasks, runningSECTask, retryMu,
                   dueQueue, tables, roundRetries>>

\* refreshTaskNextRun (see CronReload) and then the locks.
Release(p) ==
    /\ phase = "up" /\ run[p].pc = "releasing"
    /\ ReleaseLocks(run[p].task)
    /\ run' = [run EXCEPT ![p] = NoCall]
    /\ UNCHANGED <<phase, crashes, retryMu, dueQueue, tables, roundRetries>>

-----------------------------------------------------------------------------
(* The retry scan                                                          *)

DueRetries == {t \in Task : Claimable(t)}

\* Slip: the dispatcher does not try the lock.
DispatcherFree_Untried == TRUE

\* Scheduler.retryMu.TryLock
DispatcherFree == retryMu = Nobody

\* TryLock, then the oldest due rows, at most RetryBatch of them.  The order
\* is that of retry_not_before, which is left open here.
ScanBegin(p) ==
    /\ phase = "up" /\ DispatcherFree
    /\ run[p].pc = "idle"
    /\ retryMu' = p
    /\ \E batch \in SUBSET DueRetries :
          /\ Cardinality(batch) <= RetryBatch
          /\ batch # DueRetries => Cardinality(batch) = RetryBatch
          /\ dueQueue' = [dueQueue EXCEPT ![p] = batch]
    /\ UNCHANGED <<phase, crashes, runningTasks, runningSECTask, run, tables,
                   roundRetries>>

ScanNext(p) ==
    /\ phase = "up" /\ run[p].pc = "idle"
    /\ \E t \in dueQueue[p] :
          /\ dueQueue' = [dueQueue EXCEPT ![p] = @ \ {t}]
          /\ Call_(p, t, "retry")
    /\ UNCHANGED <<phase, crashes, runningTasks, runningSECTask, retryMu,
                   tables, roundRetries>>

\* Slip: the lock is not released on the way out.
ScanEnd_KeepsLock(p) ==
    /\ phase = "up" /\ retryMu = p /\ run[p].pc = "idle" /\ dueQueue[p] = {}
    /\ UNCHANGED vars

ScanEnd(p) ==
    /\ phase = "up" /\ retryMu = p /\ run[p].pc = "idle" /\ dueQueue[p] = {}
    /\ retryMu' = Nobody
    /\ UNCHANGED <<phase, crashes, runningTasks, runningSECTask, dueQueue, run,
                   tables, roundRetries>>

-----------------------------------------------------------------------------
(* The operator, the clock and the process                                 *)

\* TaskConfigService.Update; a save that fails its transaction is no step.
UpdateEnabled(t, enabled) ==
    /\ phase = "up" /\ row[t].enabled # enabled
    /\ row' = [row EXCEPT ![t].enabled = enabled]
    /\ UNCHANGED <<phase, crashes, memory, orphan, manualOK, roundRetries>>

\* The clock reaches retry_not_before; it runs while the process is down too.
Elapse(t) ==
    /\ row[t].retry = "waiting"
    /\ row' = [row EXCEPT ![t].retry = "due"]
    /\ UNCHANGED <<phase, crashes, memory, orphan, manualOK, roundRetries>>

\* Ten minutes after the last manual success.
CooldownEnds(t) ==
    /\ t \in manualOK
    /\ manualOK' = manualOK \ {t}
    /\ UNCHANGED <<phase, crashes, memory, row, orphan, roundRetries>>

\* The process dies at any point, the restart repairs included.  A failing
\* repair aborts start-up and is the same step.
Crash ==
    /\ phase # "down" /\ crashes < MaxCrashes
    /\ phase' = "down"
    /\ crashes' = crashes + 1
    /\ runningTasks' = {}
    /\ runningSECTask' = Nobody
    /\ retryMu' = Nobody
    /\ dueQueue' = [p \in Ticker |-> {}]
    /\ run' = [p \in Proc |-> NoCall]
    /\ orphan' = orphan \cup {run[p].task : p \in {q \in Proc : run[q].exec}}
    /\ UNCHANGED <<row, manualOK, roundRetries>>

\* Slip: the repair takes every partial row for one of those.
RepairedRow_AnyPartial(r) ==
    IF r.status = "partial"
    THEN [r EXCEPT !.streak = FALSE, !.retry = "none"] ELSE r

\* EnsureDefault ends with a repair of rows older releases wrote.
RepairedRow(r) ==
    IF r.status = "partial" /\ r.streak
    THEN [r EXCEPT !.streak = FALSE, !.retry = "none"] ELSE r

EnsureDefault ==
    /\ phase = "down"
    /\ phase' = "migrated"
    /\ row' = [t \in Task |-> RepairedRow(row[t])]
    /\ UNCHANGED <<crashes, memory, orphan, manualOK, roundRetries>>

\* Slips: the retry is not queued; the flag is not cleared.
InterruptedRow_NoRetry(r) ==
    IF r.running THEN [r EXCEPT !.running = FALSE, !.status = "interrupted"] ELSE r
InterruptedRow_KeepsFlag(r) ==
    IF r.running THEN [r EXCEPT !.status = "interrupted", !.retry = "waiting"] ELSE r

InterruptedRow(r) ==
    IF r.running
    THEN [r EXCEPT !.running = FALSE, !.status = "interrupted",
                   !.retry = "waiting"]
    ELSE r

RecoverInterrupted ==
    /\ phase = "migrated"
    /\ phase' = "rowsRecovered"
    /\ row' = [t \in Task |-> InterruptedRow(row[t])]
    /\ UNCHANGED <<crashes, memory, orphan, manualOK, roundRetries>>

\* The last repair; the scheduler is started only after it.
RecoverInterruptedExecutions ==
    /\ phase = "rowsRecovered"
    /\ phase' = "up"
    /\ orphan' = {}
    /\ UNCHANGED <<crashes, memory, row, manualOK, roundRetries>>

-----------------------------------------------------------------------------

\* What a goroutine does once runTaskWithTrigger was called.
RunStep(p) ==
    \/ EnterBusy(p)
    \/ EnterRegular(p)
    \/ ClaimRetry(p)
    \/ ClaimMissed(p)
    \/ MarkRunStarted(p)
    \/ MarkRunStartedFails(p)
    \/ StartExecution(p)
    \/ StartExecutionFails(p)
    \/ RunTask(p)
    \/ FinishExecution(p)
    \/ FinishExecutionFails(p)
    \/ MarkRunOutcome(p)
    \/ MarkRunOutcomeFails(p)
    \/ Release(p)

ScanStep(p) == ScanBegin(p) \/ ScanNext(p) \/ ScanEnd(p)

Restart == EnsureDefault \/ RecoverInterrupted \/ RecoverInterruptedExecutions

Next ==
    \/ \E p \in Caller, t \in Task : FireScheduled(p, t) \/ FireManual(p, t)
    \/ \E p \in Proc : RunStep(p)
    \/ \E p \in Ticker : ScanStep(p)
    \/ \E t \in Task : \/ \E e \in BOOLEAN : UpdateEnabled(t, e)
                       \/ Elapse(t)
                       \/ CooldownEnds(t)
    \/ Crash
    \/ Restart

Spec == Init /\ [][Next]_vars

\* Every goroutine that holds or wants a lock keeps running (task bodies are
\* bounded by the request timeouts and, for retries, by a two-hour context),
\* cron fires the scan every minute, the clock advances and a supervisor
\* restarts the process.  Nobody has to fire a task, save a setting or crash.
Fairness ==
    /\ \A p \in Proc : WF_vars(RunStep(p))
    /\ \A p \in Ticker : WF_vars(ScanNext(p) \/ ScanEnd(p))
    /\ WF_vars(\E p \in Ticker : ScanBegin(p))
    /\ \A t \in Task : WF_vars(Elapse(t))
    /\ WF_vars(Restart)

FairSpec == Spec /\ Fairness

-----------------------------------------------------------------------------
(* Safety                                                                  *)

Holds(p, t) == run[p].pc \in LockedPC /\ run[p].task = t

\* A run between its marking of the row and the save of its outcome.
Marked(p) == run[p].pc \in {"marked", "working", "finishing", "outcome"}

\* Two runs of one task never overlap, whatever triggered them (runningTasks
\* in runTaskWithTrigger), nor do two runs of tasks that talk to SEC's live
\* endpoints (runningSECTask).
RunsExclude ==
    \A p, q \in Proc : \A s, t \in Task :
        /\ Holds(p, s) /\ Holds(q, t)
        /\ s = t \/ {s, t} \subseteq SECTask
        => p = q

\* The retry dispatcher is serial: "one serial dispatcher bounds provider
\* pressure" (Reload's comment), whatever number of ticks fires.
SerialRetries ==
    \A p, q \in Ticker : run[p].pc # "idle" /\ run[q].pc # "idle" => p = q

\* A row says "running" exactly while a run that marked it has not saved its
\* outcome: no task looks busy after its run ended or the process restarted,
\* and none looks free, and is claimed again, while it runs.  Nor is an
\* execution of a dead run left open.
RowsMatchRuns ==
    phase = "up" =>
        /\ \A t \in Task :
              row[t].running <=> \E p \in Proc : Marked(p) /\ run[p].task = t
        /\ orphan = {}

\* When statements may fail the flag can stay set, but a marked run is still
\* never shown as idle: nothing clears the flag of a live run.
LiveRunShown == \A p \in Proc : Marked(p) => row[run[p].task].running

\* At most three automatic retries follow a scheduled or manual run, across
\* crashes and partial results (docs/operations/task-recovery.md).
RetriesBounded == \A t \in Task : roundRetries[t] <= MaxTaskAutoRetries

\* A failed or interrupted task with attempts left has its next retry on the
\* queue (DueRetries: "restarts and cron reloads cannot lose a pending retry").
NoLostRetry ==
    phase = "up" =>
        \A t \in Task : /\ row[t].status \in {"failed", "interrupted"}
                        /\ row[t].attempts < MaxTaskAutoRetries
                        => row[t].retry # "none"

-----------------------------------------------------------------------------
(* Action properties                                                       *)

\* A busy task or SEC endpoint postpones a retry without using it up: an
\* attempt is counted only in the step that takes the locks for it.
BusyConsumesNoAttempt ==
    [][\A t \in Task : row'[t].attempts > row[t].attempts =>
            t \in runningTasks' \ runningTasks]_vars

-----------------------------------------------------------------------------
(* Refinement                                                              *)

RoundState(t) ==
    IF row[t].running
    THEN IF \E p \in Proc : Marked(p) /\ run[p].task = t THEN "running" ELSE "open"
    ELSE IF /\ row[t].retry # "none"
            /\ row[t].status \in Retryable
            /\ row[t].attempts < MaxTaskAutoRetries THEN "owed" ELSE "resting"

Rounds == INSTANCE RetryRounds WITH
              MaxRetries <- MaxTaskAutoRetries,
              state <- [t \in Task |-> RoundState(t)],
              used <- roundRetries

\* The scheduler implements the rounds of RetryRounds: a queued retry leaves
\* the queue only through a run of its task, no restart repair, setting change
\* or other task's run drops it, and no step gives back retries that were used
\* but the start of a new round.
RoundsKept == Rounds!Spec

-----------------------------------------------------------------------------
(* Liveness, under FairSpec                                                *)

\* The retry of an enabled task outside the shared SEC resource is served: the
\* task runs (or is disabled, or finishes) after its retry became due.
RetryServed ==
    \A t \in Task \ SECTask :
        Claimable(t) ~> ~Claimable(t)

\* A task that uses SEC's live endpoints gives back its own lock and the shared
\* one, whatever its run returned (RetryServed needs it of the others).
LocksReleased ==
    \A t \in SECTask : (t \in runningTasks \/ runningSECTask = t)
                          ~> ~(t \in runningTasks \/ runningSECTask = t)

=============================================================================
