----------------------------- MODULE CronReload -----------------------------
(***************************************************************************)
(* Saving a schedule and rebuilding cron from it.                          *)
(*                                                                         *)
(* Go code: UpdateTaskConfig (internal/api/handler/app.go) saves one row   *)
(* and calls Scheduler.Reload, which reads every row, builds a new cron    *)
(* instance, stores the next-run plan, swaps the instance under            *)
(* Scheduler.mu and then stops the one it replaced.  Nothing serialises    *)
(* two requests, and every finished run refreshes its own next_run_at      *)
(* (refreshTaskNextRun) at its own pace.                                   *)
(*                                                                         *)
(* A schedule is a member of Expr; a time computed from it is represented  *)
(* by the schedule it was computed from.  The identity of a cron instance  *)
(* is used again once nothing refers to the instance.                      *)
(*                                                                         *)
(* An operator named X_Slip is not part of the model: it is X as a         *)
(* plausible slip would leave it, to show that a property notices.         *)
(***************************************************************************)
EXTENDS Naturals

CONSTANTS
    Task,       \* tasks this process can run (canRunTask)
    Expr,       \* cron expressions
    Never,      \* no next run (the task is disabled), no instance
    Editor,     \* HTTP requests that save a setting
    Finisher,   \* finishing runs that refresh their row
    Instance,   \* cron instances: two per request are enough
    MaxJobs     \* bound: cron-fired jobs of one instance running at a time

Plan == [Task -> Expr \cup {Never}]

VARIABLES
    enabled,  \* task_configs.enabled
    expr,     \* task_configs.cron_expr
    nextRun,  \* task_configs.next_run_at
    plan,     \* what each cron instance fires
    current,  \* Scheduler.cron
    ticking,  \* the instances that are started and not stopped
    jobs,     \* per instance, how many of the jobs it fired still run
    editor,   \* per request, its progress
    finisher, \* per finishing run, its progress
    alone     \* history: no request failed or overlapped the last save

rows == <<enabled, expr, nextRun>>
crons == <<plan, current, ticking, jobs>>
vars == <<rows, crons, editor, finisher, alone>>

EditorPC == {"idle", "saved", "listed", "persisted", "locked", "swapped", "waiting"}

TypeOK ==
    /\ enabled \in [Task -> BOOLEAN]
    /\ expr \in [Task -> Expr]
    /\ nextRun \in Plan
    /\ plan \in [Instance -> Plan]
    /\ current \in Instance
    /\ ticking \in SUBSET Instance
    /\ jobs \in [Instance -> 0..MaxJobs]
    /\ editor \in [Editor -> [pc : EditorPC, next : Plan,
                          previous : Instance \cup {Never}]]
    /\ finisher \in [Finisher -> [pc : {"idle", "read"}, task : Task,
                                  next : Expr \cup {Never}]]
    /\ alone \in BOOLEAN

\* The plan the rows call for.
RowPlan == [t \in Task |-> IF enabled[t] THEN expr[t] ELSE Never]

NoPlan == [t \in Task |-> Never]
NoEdit == [pc |-> "idle", next |-> NoPlan, previous |-> Never]

\* Start has run its own Reload before the first request is served.
Init ==
    /\ enabled \in [Task -> BOOLEAN]
    /\ expr \in [Task -> Expr]
    /\ nextRun = RowPlan
    /\ current \in Instance
    /\ plan = [i \in Instance |-> IF i = current THEN RowPlan ELSE NoPlan]
    /\ ticking = {current}
    /\ jobs = [i \in Instance |-> 0]
    /\ editor = [e \in Editor |-> NoEdit]
    /\ finisher \in [Finisher -> {[pc |-> "idle", task |-> t, next |-> Never]
                                  : t \in Task}]
    /\ alone = TRUE

-----------------------------------------------------------------------------
(* A request                                                               *)

\* TaskConfigService.Update, one transaction.
Save(e, t, on, x) ==
    /\ editor[e].pc = "idle"
    /\ enabled' = [enabled EXCEPT ![t] = on]
    /\ expr' = [expr EXCEPT ![t] = x]
    /\ editor' = [editor EXCEPT ![e].pc = "saved"]
    /\ alone' = (\A d \in Editor : editor[d].pc = "idle")
    /\ UNCHANGED <<nextRun, crons, finisher>>

\* Slip: the new instance is built from the entries of the current one.
List_Stale(e) ==
    /\ editor[e].pc = "saved"
    /\ editor' = [editor EXCEPT ![e].pc = "listed", ![e].next = plan[current]]
    /\ UNCHANGED <<rows, crons, finisher, alone>>

\* Reload reads all rows in one query and builds the new instance from them.
List(e) ==
    /\ editor[e].pc = "saved"
    /\ editor' = [editor EXCEPT ![e].pc = "listed", ![e].next = RowPlan]
    /\ UNCHANGED <<rows, crons, finisher, alone>>

\* SetNextRunAts: the whole plan in one transaction.
Persist(e) ==
    /\ editor[e].pc = "listed"
    /\ nextRun' = editor[e].next
    /\ editor' = [editor EXCEPT ![e].pc = "persisted"]
    /\ UNCHANGED <<enabled, expr, crons, finisher, alone>>

\* The client went away, or a statement failed: the saved row stays.
Abort(e) ==
    /\ editor[e].pc \in {"saved", "listed"}
    /\ editor' = [editor EXCEPT ![e] = NoEdit]
    /\ alone' = FALSE
    /\ UNCHANGED <<rows, crons, finisher>>

\* Slip: the unlock is deferred to the end of Reload.
Locked_Deferred == \E e \in Editor : editor[e].pc \in {"locked", "swapped", "waiting"}
\* Scheduler.mu is held by a request.
Locked == \E e \in Editor : editor[e].pc = "locked"

Lock(e) ==
    /\ editor[e].pc = "persisted"
    /\ ~Locked
    /\ editor' = [editor EXCEPT ![e].pc = "locked"]
    /\ UNCHANGED <<rows, crons, finisher, alone>>

\* The replaced instances that somebody still stops or waits for.
InUse == {current} \cup ticking
         \cup {editor[e].previous :
                 e \in {d \in Editor : editor[d].pc \in {"swapped", "waiting"}}}

\* Slip: the pointers are swapped the wrong way round.
Swap_Reversed(e, i) ==
    /\ editor[e].pc = "locked"
    /\ i \notin InUse
    /\ plan' = [plan EXCEPT ![i] = editor[e].next]
    /\ current' = editor[e].previous
    /\ ticking' = ticking \cup {i}
    /\ editor' = [editor EXCEPT ![e].pc = "swapped", ![e].previous = i]
    /\ UNCHANGED <<rows, jobs, finisher, alone>>

\* Under Scheduler.mu: install and start the new instance, and unlock.
Swap(e, i) ==
    /\ editor[e].pc = "locked"
    /\ i \notin InUse
    /\ plan' = [plan EXCEPT ![i] = editor[e].next]
    /\ current' = i
    /\ ticking' = ticking \cup {i}
    /\ editor' = [editor EXCEPT ![e].pc = "swapped", ![e].previous = current]
    /\ UNCHANGED <<rows, jobs, finisher, alone>>

\* Slip: Scheduler.cron is read again after the unlock.
StopPrevious_Current(e) ==
    /\ editor[e].pc = "swapped"
    /\ ticking' = ticking \ {current}
    /\ editor' = [editor EXCEPT ![e].pc = "waiting"]
    /\ UNCHANGED <<rows, plan, current, jobs, finisher, alone>>
\* Outside the lock: the replaced instance stops firing ...
StopPrevious(e) ==
    /\ editor[e].pc = "swapped"
    /\ ticking' = ticking \ {editor[e].previous}
    /\ editor' = [editor EXCEPT ![e].pc = "waiting"]
    /\ UNCHANGED <<rows, plan, current, jobs, finisher, alone>>

\* ... and the request is answered when the jobs it fired have ended.
Answer(e) ==
    /\ editor[e].pc = "waiting"
    /\ jobs[editor[e].previous] = 0
    /\ plan' = [plan EXCEPT ![editor[e].previous] = NoPlan]
    /\ editor' = [editor EXCEPT ![e] = NoEdit]
    /\ UNCHANGED <<rows, current, ticking, jobs, finisher, alone>>

-----------------------------------------------------------------------------
(* Jobs and finishing runs                                                 *)

\* An instance that ticks fires a task it has an entry for.
Fire(i, t) ==
    /\ i \in ticking
    /\ plan[i][t] # Never
    /\ jobs[i] < MaxJobs
    /\ jobs' = [jobs EXCEPT ![i] = @ + 1]
    /\ UNCHANGED <<rows, plan, current, ticking, editor, finisher, alone>>

\* The last thing a job does is to give its task free, under Scheduler.mu.
JobEnds(i) ==
    /\ jobs[i] > 0
    /\ ~Locked
    /\ jobs' = [jobs EXCEPT ![i] = @ - 1]
    /\ UNCHANGED <<rows, plan, current, ticking, editor, finisher, alone>>

\* refreshTaskNextRun reads the row ...
RefreshRead(f, t) ==
    /\ finisher[f].pc = "idle"
    /\ finisher' = [finisher EXCEPT ![f] = [pc |-> "read", task |-> t,
                                            next |-> RowPlan[t]]]
    /\ UNCHANGED <<rows, crons, editor, alone>>

\* ... and writes next_run_at in a second statement.
RefreshWrite(f) ==
    /\ finisher[f].pc = "read"
    /\ nextRun' = [nextRun EXCEPT ![finisher[f].task] = finisher[f].next]
    /\ finisher' = [finisher EXCEPT ![f].pc = "idle", ![f].next = Never]
    /\ UNCHANGED <<enabled, expr, crons, editor, alone>>

-----------------------------------------------------------------------------

Reload(e) ==
    \/ List(e)
    \/ Persist(e)
    \/ Lock(e)
    \/ \E i \in Instance : Swap(e, i)
    \/ StopPrevious(e)
    \/ Answer(e)

Next ==
    \/ \E e \in Editor :
          \/ \E t \in Task, on \in BOOLEAN, x \in Expr : Save(e, t, on, x)
          \/ Reload(e)
          \/ Abort(e)
    \/ \E i \in Instance : JobEnds(i) \/ \E t \in Task : Fire(i, t)
    \/ \E f \in Finisher : RefreshWrite(f) \/ \E t \in Task : RefreshRead(f, t)

Spec == Init /\ [][Next]_vars

\* Handlers and finishing runs keep running and every job comes to its end, where a
\* mutex that is free again and again is given to it in the end (sync.Mutex lets no
\* waiter starve); nobody has to save anything, and cron need not fire.
Fairness ==
    /\ \A e \in Editor : WF_vars(Reload(e))
    /\ \A i \in Instance : SF_vars(JobEnds(i))
    /\ \A f \in Finisher : WF_vars(RefreshWrite(f))

FairSpec == Spec /\ Fairness

-----------------------------------------------------------------------------
(* Properties                                                              *)

Stopping == {editor[e].previous : e \in {d \in Editor : editor[d].pc = "swapped"}}

\* However reloads overlap, the installed instance ticks, so no task goes
\* silent, and every other ticking instance is about to be stopped by the
\* request that replaced it: no old schedule keeps firing for ever.
EveryOldCronStopped ==
    /\ current \in ticking
    /\ ticking \subseteq {current} \cup Stopping

Quiet == /\ \A e \in Editor : editor[e].pc = "idle"
         /\ \A f \in Finisher : finisher[f].pc = "idle"
         /\ alone

\* When no request is in flight cron fires what the rows say, whatever earlier
\* requests left behind, if the last save had Reload to itself: an answered
\* save is in force, and a task it disabled is not fired any more.
CronMatchesRows == Quiet => plan[current] = RowPlan

\* "The UI must not present a stale next-run time as a promise"
\* (SetNextRunAts): with everything at rest, a disabled task has none.
NoStaleNextRun == Quiet => \A t \in Task : ~enabled[t] => nextRun[t] = Never

\* A request that swapped the instance is answered: the stopped instance
\* starts nothing new, and its jobs run out, although each needs the mutex that
\* reloads hold to end.
Answered ==
    \A e \in Editor : editor[e].pc = "swapped" ~> editor[e].pc = "idle"

=============================================================================
