----------------------------- MODULE MCLiveness -----------------------------
(***************************************************************************)
(* What must eventually happen: retries of tasks, failed notifications,    *)
(* queued analyses, the rotation of research and the reload of the cron    *)
(* plan.  The components share no state here: a behaviour is one of the    *)
(* component named by "part", and each property assumes the fairness of    *)
(* its own component only.                                                 *)
(***************************************************************************)
EXTENDS Naturals, Sequences, FiniteSets

CONSTANTS filing, discovery, cron, scan, event1, event2, batch, deliver1, deliver2,
          pass1, pass2, operator1, req1, score, facts, model, sync, hourly, e1, e2, i1, i2, i3, None, Off

VARIABLES
    part,
    phase, deaths, runningTasks, runningSECTask, retryMu, dueQueue, run, row, orphan,
    manualOK, roundRetries,
    batches, item, producer, worker, operator, accepted, requeues, cleanups, crashes,
    asking, provider, rows, job, calls, answered, stops,
    last, fresh, rotation,
    enabled, expr, nextRun, plan, installed, ticking, jobs, requests, finisher, alone

schedulerVars == <<phase, deaths, runningTasks, runningSECTask, retryMu, dueQueue, run, row,
                   orphan, manualOK, roundRetries>>
queueVars == <<batches, item, producer, worker, operator, accepted, requeues, cleanups, crashes>>
analysisVars == <<asking, provider, rows, job, calls, answered, stops>>
rotationVars == <<last, fresh, rotation>>
reloadVars == <<enabled, expr, nextRun, plan, installed, ticking, jobs, requests, finisher, alone>>

\* An SEC task and one with a run log of its own; the process lives.
Tasks == INSTANCE TaskScheduler WITH
    Task <- {filing, discovery}, SECTask <- {filing}, StandaloneTask <- {discovery},
    CooldownTask <- {}, Caller <- {cron}, Ticker <- {scan}, Nobody <- None,
    MaxTaskAutoRetries <- 1, RetryBatch <- 2, MaxCrashes <- 0, DBFaults <- FALSE,
    crashes <- deaths

\* Two first deliveries, two retry passes and an operator share one batch; the
\* process may die once, and leases outlive their owners.
Queue == INSTANCE NotificationQueue WITH
    Event <- {event1, event2}, Batch <- {batch}, Producer <- {deliver1, deliver2},
    Worker <- {pass1, pass2}, Operator <- {operator1}, Delays <- 2, MaxRequeues <- 1,
    MaxCleanups <- 0, MaxCrashes <- 1, Faults <- FALSE, LeaseExpiry <- FALSE,
    batch <- batches

Analysis == INSTANCE AIAnalysis WITH
    Caller <- {req1}, Subject <- {score, filing}, Filing <- {filing},
    Facts <- {facts}, Model <- {model}, MaxAttempts <- 2, MaxRows <- 2, MaxCrashes <- 0,
    Faults <- FALSE, caller <- asking, crashes <- stops

Rotation == INSTANCE ResearchRotation WITH
    Ticker <- 1..3, Candidate <- 1..3, Watched <- {2, 3}, Budget <- 2, job <- rotation

\* Two requests may reload at the same time.
Reload == INSTANCE CronReload WITH
    Task <- {sync}, Expr <- {hourly}, Never <- None, Editor <- {e1, e2}, Finisher <- {},
    Instance <- {i1, i2, i3}, MaxJobs <- 1, current <- installed, editor <- requests

Init ==
    /\ part \in {"tasks", "queue", "analysis", "rotation", "reload"}
    /\ Tasks!Init /\ Queue!Init /\ Analysis!Init /\ Rotation!Init /\ Reload!Init
    \* One initial state for the parts that stand still.
    /\ part # "tasks" => row = [t \in {filing, discovery} |-> CHOOSE r \in Tasks!FreshRow : TRUE]
    /\ part # "reload" => installed = i1 /\ enabled = [t \in {sync} |-> TRUE]

\* Only the variables of part p change.
Only(p) ==
    /\ part = p /\ UNCHANGED part
    /\ IF p = "tasks" THEN TRUE ELSE UNCHANGED schedulerVars
    /\ IF p = "queue" THEN TRUE ELSE UNCHANGED queueVars
    /\ IF p = "analysis" THEN TRUE ELSE UNCHANGED analysisVars
    /\ IF p = "rotation" THEN TRUE ELSE UNCHANGED rotationVars
    /\ IF p = "reload" THEN TRUE ELSE UNCHANGED reloadVars

Next ==
    \/ Only("tasks") /\ Tasks!Next
    \/ Only("queue") /\ Queue!Next
    \/ Only("analysis") /\ Analysis!Next
    \/ Only("rotation") /\ Rotation!Next
    \/ Only("reload") /\ Reload!Next

Spec == Init /\ [][Next]_<<part, schedulerVars, queueVars, analysisVars, rotationVars,
                           reloadVars>>

-----------------------------------------------------------------------------
(* The fairness conditions of the modules, each for its own part           *)

TasksFairness ==
    /\ \A p \in {cron, scan} : WF_schedulerVars(part = "tasks" /\ Tasks!RunStep(p))
    /\ WF_schedulerVars(part = "tasks" /\ (Tasks!ScanNext(scan) \/ Tasks!ScanEnd(scan)))
    /\ WF_schedulerVars(part = "tasks" /\ Tasks!ScanBegin(scan))
    /\ \A t \in {filing, discovery} : WF_schedulerVars(part = "tasks" /\ Tasks!Elapse(t))

QueueFairness ==
    /\ \A p \in {deliver1, deliver2} : WF_queueVars(part = "queue" /\ Queue!DeliverStep(p))
    /\ \A w \in {pass1, pass2} : WF_queueVars(part = "queue" /\ Queue!WorkerStep(w))
    /\ WF_queueVars(part = "queue" /\ Queue!Elapse(batch))
    /\ WF_queueVars(part = "queue" /\ Queue!Expire(batch))

AnalysisFairness ==
    \A r \in 1..2 :
        WF_analysisVars(part = "analysis" /\ r \in Analysis!Id /\ Analysis!Work(r))

RotationFairness ==
    /\ WF_rotationVars(part = "rotation" /\ Rotation!Start("candidates"))
    /\ WF_rotationVars(part = "rotation" /\ Rotation!Mark("candidates"))
    /\ WF_rotationVars(part = "rotation" /\ Rotation!Answer("candidates"))

ReloadFairness ==
    /\ \A e \in {e1, e2} : WF_reloadVars(part = "reload" /\ Reload!Reload(e))
    /\ \A i \in {i1, i2, i3} : SF_reloadVars(part = "reload" /\ Reload!JobEnds(i))

-----------------------------------------------------------------------------
(* Properties, defined in the modules of the parts, under their fairness   *)

\* A queued retry starts or stops being wanted, and the locks are given back.
TasksProgress == TasksFairness => Tasks!RetryServed /\ Tasks!LocksReleased

\* While leases outlive their owners a message is sent once, and a claimed batch
\* moves one step on the ladder.
DeliveredOnce ==
    [](part = "queue" => Queue!NoDuplicateSend) /\ Queue!ClaimedCountsOnce

\* A failed batch is sent in the end or visible as a dead letter.
FailedSettles == QueueFairness => Queue!FailedSettles

\* A queued analysis ends.
Settles == AnalysisFairness => Analysis!Settles

\* Every listed candidate is asked about again and again.
NoneStarves == RotationFairness => (part = "rotation" => Rotation!NoneStarves)

\* A request that reloads is answered, although jobs need the mutex of the scheduler.
Answered == ReloadFairness => Reload!Answered
=============================================================================
