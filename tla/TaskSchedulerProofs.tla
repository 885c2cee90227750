------------------------ MODULE TaskSchedulerProofs ------------------------
(***************************************************************************)
(* Theorems about TaskScheduler, for every set of tasks and goroutines and *)
(* whether or not statements fail.                                         *)
(***************************************************************************)
EXTENDS TaskScheduler, TLAPS

-----------------------------------------------------------------------------
(* Type correctness                                                        *)

\* Moving a call on, and ending it, keeps the table of calls well typed.
LEMMA RunTyped ==
    ASSUME run \in [Proc -> Call], NEW p \in Proc, NEW c \in Call
    PROVE  [run EXCEPT ![p] = c] \in [Proc -> Call]
BY DEF Call

LEMMA NoCallTyped == NoCall \in Call
BY DEF NoCall, Call, PC, LockedPC

LEMMA EnteringTyped ==
    ASSUME NEW t \in Task, NEW trigger \in Trigger
    PROVE  [NoCall EXCEPT !.pc = "entering", !.task = t, !.trigger = trigger]
               \in Call
BY DEF NoCall, Call, PC, LockedPC, Trigger

LEMMA AttemptsBounds ==
    /\ 0 \in Attempts
    /\ \A n \in Attempts : n < MaxTaskAutoRetries => n + 1 \in Attempts
BY BoundAssumption DEF BoundAssumption, Attempts

\* What MarkRunOutcome and the restart repairs write is a row.
LEMMA RowTyped ==
    ASSUME NEW r \in Row
    PROVE  /\ \A result \in Outcome : OutcomeRow(r, result) \in Row
           /\ RepairedRow(r) \in Row
           /\ InterruptedRow(r) \in Row
<1>1. \A result \in Outcome : OutcomeRow(r, result) \in Row
  <2> SUFFICES ASSUME NEW result \in Outcome
               PROVE  OutcomeRow(r, result) \in Row
    OBVIOUS
  <2>1. CASE result \in {"success", "skipped", "degraded"}
    <3>1. OutcomeRow(r, result) =
             [r EXCEPT !.running = FALSE, !.retry = "none", !.streak = FALSE,
                       !.status = result, !.attempts = 0]
      BY <2>1 DEF OutcomeRow, Row
    <3> QED BY <2>1, <3>1, AttemptsBounds DEF Row, Status
  <2>2. CASE result = "partial"
    BY <2>2 DEF OutcomeRow, Row, Status
  <2>3. CASE result = "pending"
    BY <2>3 DEF OutcomeRow, Row, Status
  <2>4. CASE result = "failed"
    BY <2>4 DEF OutcomeRow, Row, Status
  <2> QED BY <2>1, <2>2, <2>3, <2>4 DEF Outcome
<1>2. RepairedRow(r) \in Row /\ InterruptedRow(r) \in Row
  BY DEF RepairedRow, InterruptedRow, Row, Status
<1> QED BY <1>1, <1>2

\* A call that is under way is for a task.
CallsNamed ==
    \A p \in Proc : run[p].pc # "idle" \/ run[p].exec => run[p].task \in Task

\* A call past the body has a result to save.
CallsDone ==
    \A p \in Proc : run[p].pc \in {"finishing", "outcome"}
                        => run[p].result \in Outcome

Typed == TypeOK /\ CallsNamed /\ CallsDone

LEMMA TypedInit == Init => Typed
<1> SUFFICES ASSUME Init PROVE Typed
  OBVIOUS
<1> USE TaskAssumption DEF TaskAssumption
<1>1. run \in [Proc -> Call]
  BY NoCallTyped DEF Init
<1>2. row \in [Task -> Row]
  BY DEF Init, FreshRow
<1>3. TypeOK
  <2>1. crashes \in 0..MaxCrashes
    <3>1. crashes = 0
      BY DEF Init
    <3> QED BY <3>1, BoundAssumption DEF BoundAssumption
  <2>2. roundRetries \in [Task -> Nat] /\ dueQueue \in [Ticker -> SUBSET Task]
    BY DEF Init
  <2> QED BY <1>1, <1>2, <2>1, <2>2 DEF Init, TypeOK, Phase
<1>4. CallsNamed /\ CallsDone
  BY DEF Init, CallsNamed, CallsDone, NoCall
<1> QED BY <1>3, <1>4 DEF Typed

\* The two ways the locks change stay within their types.
LEMMA LocksTyped ==
    ASSUME TypeOK, NEW t \in Task, Acquire(t) \/ ReleaseLocks(t)
    PROVE  runningTasks' \in SUBSET Task /\ runningSECTask' \in SECTask \cup {Nobody}
BY DEF TypeOK, Acquire, ReleaseLocks, UsesSEC

LEMMA TypedNext == Typed /\ [Next]_vars => Typed'
<1> SUFFICES ASSUME Typed, [Next]_vars PROVE Typed'
  OBVIOUS
<1> USE TaskAssumption DEF TaskAssumption
<1> USE DEF Typed, memory, tables
<1>a. ASSUME NEW p \in Proc, NEW t \in Task, NEW trigger \in Trigger,
             Call_(p, t, trigger)
      PROVE  run' \in [Proc -> Call] /\ CallsNamed' /\ CallsDone'
  <2>1. run' \in [Proc -> Call]
    BY <1>a, RunTyped, EnteringTyped DEF Call_, TypeOK
  <2>2. CallsNamed' /\ CallsDone'
    BY <1>a DEF Call_, NoCall, TypeOK, CallsNamed, CallsDone, Call
  <2> QED BY <2>1, <2>2
<1>b. ASSUME NEW p \in Proc, run' = [run EXCEPT ![p] = NoCall]
      PROVE  run' \in [Proc -> Call] /\ CallsNamed' /\ CallsDone'
  <2>1. run' \in [Proc -> Call]
    BY <1>b, RunTyped, NoCallTyped DEF TypeOK
  <2>2. CallsNamed' /\ CallsDone'
    BY <1>b DEF NoCall, TypeOK, CallsNamed, CallsDone
  <2> QED BY <2>1, <2>2
<1>1. ASSUME NEW p \in Caller, NEW t \in Task,
             FireScheduled(p, t) \/ FireManual(p, t)
      PROVE  Typed'
  BY <1>1, <1>a DEF FireScheduled, FireManual, TypeOK, Trigger, Proc
<1>2. ASSUME NEW p \in Proc, RunStep(p)
      PROVE  Typed'
  <2>n. CASE run[p].pc = "idle"
    BY <2>n, <1>2 DEF RunStep, EnterBusy, EnterRegular, ClaimRetry, ClaimMissed,
         MarkRunStarted, MarkRunStartedFails, StartExecution,
         StartExecutionFails, RunTask, FinishExecution, FinishExecutionFails,
         MarkRunOutcome, MarkRunOutcomeFails, Release
  <2>m. CASE run[p].pc # "idle"
    <3> DEFINE t == run[p].task
    <3>t. t \in Task /\ run[p] \in Call /\ row[t] \in Row
      BY <2>m DEF CallsNamed, TypeOK
    <3>1. CASE EnterBusy(p)
      BY <3>1, <1>b DEF EnterBusy, TypeOK
    <3>2. CASE EnterRegular(p)
      <4>1. run' \in [Proc -> Call] /\ CallsNamed' /\ CallsDone'
        BY <3>2, <3>t, <2>m DEF EnterRegular, TypeOK, Call, PC, LockedPC, CallsNamed, CallsDone
      <4> QED BY <4>1, <3>2, <3>t, LocksTyped DEF EnterRegular, TypeOK
    <3>3. CASE ClaimRetry(p)
      <4>1. run' \in [Proc -> Call] /\ CallsNamed' /\ CallsDone'
        BY <3>3, <3>t, <2>m DEF ClaimRetry, TypeOK, Call, PC, LockedPC, CallsNamed, CallsDone
      <4>2. row' \in [Task -> Row]
        BY <3>3, <3>t, AttemptsBounds DEF ClaimRetry, Claimable, TypeOK, Row, Status
      <4>3. roundRetries' \in [Task -> Nat]
        BY <3>3, <3>t DEF ClaimRetry, TypeOK
      <4> QED BY <4>1, <4>2, <4>3, <3>3, <3>t, LocksTyped DEF ClaimRetry, TypeOK
    <3>4. CASE ClaimMissed(p)
      BY <3>4, <1>b DEF ClaimMissed, TypeOK
    <3>5. CASE MarkRunStarted(p)
      <4>1. run' \in [Proc -> Call] /\ CallsNamed' /\ CallsDone'
        BY <3>5, <3>t, <2>m DEF MarkRunStarted, TypeOK, Call, PC, LockedPC, CallsNamed, CallsDone
      <4>2. row' \in [Task -> Row]
        BY <3>5, <3>t, AttemptsBounds DEF MarkRunStarted, TypeOK, Row, Status
      <4>3. roundRetries' \in [Task -> Nat]
        BY <3>5, <3>t DEF MarkRunStarted, TypeOK
      <4> QED BY <4>1, <4>2, <4>3, <3>5 DEF MarkRunStarted, TypeOK
    <3>6. CASE MarkRunStartedFails(p)
      BY <3>6, <3>t, <1>b, LocksTyped DEF MarkRunStartedFails, TypeOK
    <3>7. CASE StartExecution(p)
      BY <3>7, <3>t DEF StartExecution, TypeOK, Call, PC, LockedPC, CallsNamed, CallsDone
    <3>8. CASE StartExecutionFails(p)
      BY <3>8, <3>t DEF StartExecutionFails, TypeOK, Call, PC, LockedPC, Outcome, CallsNamed, CallsDone
    <3>9. CASE RunTask(p)
      <4>1. PICK result \in Outcome :
               run' = [run EXCEPT ![p].pc = "finishing", ![p].result = result]
        BY <3>9 DEF RunTask, Outcome
      <4> QED BY <3>9, <3>t, <4>1 DEF RunTask, TypeOK, Call, PC, LockedPC, CallsNamed, CallsDone
    <3>10. CASE FinishExecution(p)
      <4>1. run' \in [Proc -> Call] /\ CallsNamed' /\ CallsDone'
        BY <3>10, <3>t DEF FinishExecution, TypeOK, Call, PC, LockedPC, CallsNamed, CallsDone
      <4> QED BY <3>10, <3>t, <4>1 DEF FinishExecution, TypeOK
    <3>11. CASE FinishExecutionFails(p)
      <4>1. run' \in [Proc -> Call] /\ CallsNamed' /\ CallsDone'
        BY <3>11, <3>t DEF FinishExecutionFails, TypeOK, Call, PC, LockedPC, CallsNamed, CallsDone
      <4> QED BY <3>11, <3>t, <4>1 DEF FinishExecutionFails, TypeOK
    <3>12. CASE MarkRunOutcome(p)
      <4>1. run' \in [Proc -> Call] /\ CallsNamed' /\ CallsDone'
        BY <3>12, <3>t DEF MarkRunOutcome, TypeOK, Call, PC, LockedPC, CallsNamed, CallsDone
      <4>2. run[p].result \in Outcome
        BY <3>12 DEF MarkRunOutcome, CallsDone
      <4>3. row' \in [Task -> Row]
        BY <3>12, <3>t, <4>2, RowTyped DEF MarkRunOutcome, TypeOK
      <4> QED BY <3>12, <4>1, <4>3 DEF MarkRunOutcome, TypeOK
    <3>13. CASE MarkRunOutcomeFails(p)
      BY <3>13, <3>t DEF MarkRunOutcomeFails, TypeOK, Call, PC, LockedPC, CallsNamed, CallsDone
    <3>14. CASE Release(p)
      BY <3>14, <3>t, <1>b, LocksTyped DEF Release, TypeOK
    <3> QED BY <1>2, <3>1, <3>2, <3>3, <3>4, <3>5, <3>6, <3>7, <3>8, <3>9,
               <3>10, <3>11, <3>12, <3>13, <3>14 DEF RunStep
  <2> QED BY <2>n, <2>m
<1>3. ASSUME NEW p \in Ticker, ScanStep(p)
      PROVE  Typed'
  <2>1. CASE ScanBegin(p)
    BY <2>1 DEF ScanBegin, DispatcherFree, DueRetries, TypeOK, CallsNamed, CallsDone
  <2>2. CASE ScanNext(p)
    <3>1. PICK t \in dueQueue[p] :
             /\ dueQueue' = [dueQueue EXCEPT ![p] = @ \ {t}]
             /\ Call_(p, t, "retry")
      BY <2>2 DEF ScanNext
    <3> QED BY <2>2, <3>1, <1>a DEF ScanNext, TypeOK, Trigger, Proc
  <2>3. CASE ScanEnd(p)
    BY <2>3 DEF ScanEnd, TypeOK, CallsNamed, CallsDone
  <2> QED BY <1>3, <2>1, <2>2, <2>3 DEF ScanStep
<1>4. ASSUME NEW t \in Task,
             (\E e \in BOOLEAN : UpdateEnabled(t, e)) \/ Elapse(t) \/ CooldownEnds(t)
      PROVE  Typed'
  BY <1>4 DEF UpdateEnabled, Elapse, CooldownEnds, TypeOK, Row, CallsNamed, CallsDone
<1>5. CASE Crash
  <2>1. run' \in [Proc -> Call] /\ CallsNamed' /\ CallsDone'
    BY <1>5, NoCallTyped DEF Crash, CallsNamed, CallsDone, NoCall
  <2>2. orphan' \in SUBSET Task
    BY <1>5 DEF Crash, TypeOK, CallsNamed
  <2>3. crashes' \in 0..MaxCrashes
    BY <1>5, BoundAssumption DEF Crash, TypeOK, BoundAssumption
  <2> QED BY <1>5, <2>1, <2>2, <2>3 DEF Crash, TypeOK, Phase
<1>6. CASE Restart
  BY <1>6, RowTyped DEF Restart, EnsureDefault, RecoverInterrupted,
       RecoverInterruptedExecutions, TypeOK, Phase, CallsNamed, CallsDone
<1>7. CASE UNCHANGED vars
  BY <1>7 DEF vars, TypeOK, CallsNamed, CallsDone
<1> QED BY <1>1, <1>2, <1>3, <1>4, <1>5, <1>6, <1>7 DEF Next

-----------------------------------------------------------------------------
(* Mutual exclusion                                                        *)

\* Why the two locks exclude: whoever is past them is recorded in them.
LockInv ==
    /\ \A p \in Proc : run[p].pc \in LockedPC => run[p].task \in runningTasks
    /\ \A p \in Proc : run[p].pc \in LockedPC /\ run[p].task \in SECTask
                           => runningSECTask = run[p].task
    /\ \A p, q \in Proc : /\ run[p].pc \in LockedPC /\ run[q].pc \in LockedPC
                          /\ run[p].task = run[q].task
                          => p = q

\* The actions by which a holder moves on without touching a lock.
Moves(p) ==
    \/ MarkRunStarted(p) \/ StartExecution(p) \/ StartExecutionFails(p)
    \/ RunTask(p) \/ FinishExecution(p) \/ FinishExecutionFails(p)
    \/ MarkRunOutcome(p) \/ MarkRunOutcomeFails(p)

LEMMA MovesKeepsHolders ==
    ASSUME TypeOK, NEW p \in Proc, Moves(p)
    PROVE  /\ UNCHANGED <<runningTasks, runningSECTask, phase>>
           /\ \A q \in Proc : /\ run'[q].task = run[q].task
                              /\ run'[q].pc \in LockedPC <=> run[q].pc \in LockedPC
                              /\ q # p => run'[q] = run[q]
           /\ run[p].pc \in LockedPC
BY DEF TypeOK, Moves, MarkRunStarted, StartExecution, StartExecutionFails, RunTask,
       FinishExecution, FinishExecutionFails, MarkRunOutcome, MarkRunOutcomeFails,
       Call, LockedPC, Outcome, tables

\* The actions by which a goroutine outside the locks comes or goes.
Visits(p) ==
    \/ EnterBusy(p) \/ ClaimMissed(p)
    \/ \E t \in Task : FireScheduled(p, t) \/ FireManual(p, t)
    \/ ScanNext(p)

LEMMA VisitsKeepsHolders ==
    ASSUME TypeOK, NEW p \in Proc, Visits(p)
    PROVE  /\ UNCHANGED <<runningTasks, runningSECTask, phase>>
           /\ UNCHANGED <<row, roundRetries>>
           /\ \A q \in Proc : q # p => run'[q] = run[q]
           /\ run'[p].pc \notin LockedPC /\ phase = "up"
<1>1. CASE EnterBusy(p) \/ ClaimMissed(p)
  BY <1>1 DEF EnterBusy, ClaimMissed, TypeOK, NoCall, LockedPC, tables
<1>2. ASSUME NEW t \in Task, FireScheduled(p, t) \/ FireManual(p, t)
      PROVE  /\ UNCHANGED <<runningTasks, runningSECTask, phase, row, roundRetries>>
             /\ \A q \in Proc : q # p => run'[q] = run[q]
             /\ run'[p].pc \notin LockedPC /\ phase = "up"
  BY <1>2 DEF FireScheduled, FireManual, Call_, TypeOK, NoCall, LockedPC, tables
<1>3. CASE ScanNext(p)
  <2>1. PICK t \in dueQueue[p] : Call_(p, t, "retry")
    BY <1>3 DEF ScanNext
  <2> QED BY <1>3, <2>1 DEF ScanNext, Call_, TypeOK, NoCall, LockedPC, tables
<1> QED BY <1>1, <1>2, <1>3 DEF Visits

LEMMA LockInit == Init => LockInv
<1> SUFFICES ASSUME Init PROVE LockInv
  OBVIOUS
<1>1. \A p \in Proc : run[p].pc = "idle"
  BY DEF Init, NoCall
<1> QED BY <1>1 DEF LockInv, LockedPC

LEMMA LockNext == Typed /\ LockInv /\ [Next]_vars => LockInv'
<1> SUFFICES ASSUME Typed, LockInv, [Next]_vars PROVE LockInv'
  OBVIOUS
<1>t. TypeOK /\ CallsNamed
  BY DEF Typed
<1> USE TaskAssumption DEF TaskAssumption
<1>1. ASSUME NEW p \in Proc, Moves(p) PROVE LockInv'
  BY <1>1, <1>t, MovesKeepsHolders DEF LockInv
<1>2. ASSUME NEW p \in Proc, Visits(p) PROVE LockInv'
  BY <1>2, <1>t, VisitsKeepsHolders DEF LockInv
<1>3. ASSUME NEW p \in Proc, EnterRegular(p) \/ ClaimRetry(p) PROVE LockInv'
  <2> DEFINE t == run[p].task
  <2>1. t \in Task
    BY <1>3, <1>t DEF EnterRegular, ClaimRetry, CallsNamed
  <2>2. t \notin runningTasks /\ (t \in SECTask => runningSECTask = Nobody)
    BY <1>3 DEF EnterRegular, ClaimRetry, Busy, UsesSEC
  <2>3. /\ runningTasks' = runningTasks \cup {t}
        /\ runningSECTask' = IF t \in SECTask THEN t ELSE runningSECTask
    BY <1>3 DEF EnterRegular, ClaimRetry, Acquire, UsesSEC
  <2>4. \A q \in Proc : run'[q].task = run[q].task /\ (q # p => run'[q] = run[q])
    BY <1>3, <1>t DEF EnterRegular, ClaimRetry, TypeOK, Call
  <2>5. \A q \in Proc : q # p /\ run[q].pc \in LockedPC => run[q].task # t
    BY <2>2 DEF LockInv
  <2>6. t \in SECTask =>
           \A q \in Proc : run[q].pc \in LockedPC => run[q].task \notin SECTask
    BY <2>2 DEF LockInv
  <2> QED BY <2>1, <2>3, <2>4, <2>5, <2>6 DEF LockInv
<1>4. ASSUME NEW p \in Proc, MarkRunStartedFails(p) \/ Release(p) PROVE LockInv'
  <2> DEFINE t == run[p].task
  <2>1. run[p].pc \in LockedPC
    BY <1>4 DEF MarkRunStartedFails, Release, LockedPC
  <2>2. /\ runningTasks' = runningTasks \ {t}
        /\ runningSECTask' = IF t \in SECTask /\ runningSECTask = t
                             THEN Nobody ELSE runningSECTask
    BY <1>4 DEF MarkRunStartedFails, Release, ReleaseLocks, UsesSEC
  <2>3. /\ run'[p].pc \notin LockedPC
        /\ \A q \in Proc : q # p => run'[q] = run[q]
    BY <1>4, <1>t DEF MarkRunStartedFails, Release, TypeOK, NoCall, LockedPC
  <2>4. \A q \in Proc : q # p /\ run[q].pc \in LockedPC => run[q].task # t
    BY <2>1 DEF LockInv
  <2> QED BY <2>2, <2>3, <2>4 DEF LockInv
<1>5. CASE Crash
  BY <1>5 DEF Crash, LockInv, NoCall, LockedPC
<1>6. ASSUME UNCHANGED <<runningTasks, runningSECTask, run>> PROVE LockInv'
  BY <1>6 DEF LockInv
<1>7. CASE \E t \in Task : \/ \E e \in BOOLEAN : UpdateEnabled(t, e)
                           \/ Elapse(t) \/ CooldownEnds(t)
  BY <1>7, <1>6 DEF UpdateEnabled, Elapse, CooldownEnds, memory
<1>8. CASE Restart
  BY <1>8, <1>6 DEF Restart, EnsureDefault, RecoverInterrupted,
       RecoverInterruptedExecutions, memory
<1>9. CASE \E p \in Ticker : ScanBegin(p) \/ ScanEnd(p)
  BY <1>9, <1>6 DEF ScanBegin, DispatcherFree, ScanEnd
<1>10. CASE UNCHANGED vars
  BY <1>10, <1>6 DEF vars, memory
<1> QED BY <1>1, <1>2, <1>3, <1>4, <1>5, <1>7, <1>8, <1>9, <1>10
        DEF Next, RunStep, ScanStep, Moves, Visits, Proc

-----------------------------------------------------------------------------
(* The rows                                                                *)

\* The attempts column is the number of retries of the round as long as the
\* row can still be claimed, or a run of it can still make it claimable.
RowInv ==
    /\ \A p \in Proc : Marked(p) => row[run[p].task].running
    /\ \A t \in Task : row[t].running <=> row[t].status = "running"
    /\ phase # "up" => \A p \in Proc : run[p].pc = "idle"
    /\ \A t \in Task : row[t].status \in Retryable \cup {"running"}
                           => roundRetries[t] = row[t].attempts
    /\ RetriesBounded
    /\ \A t \in Task : /\ row[t].status \in {"failed", "interrupted"}
                       /\ row[t].attempts < MaxTaskAutoRetries
                       => row[t].retry # "none"

LEMMA RowInit == Init => RowInv
<1> SUFFICES ASSUME Init PROVE RowInv
  OBVIOUS
<1>1. \A p \in Proc : run[p].pc = "idle"
  BY DEF Init, NoCall
<1>2. \A t \in Task : ~row[t].running /\ row[t].status = ""
  BY DEF Init, FreshRow
<1>3. RetriesBounded
  <2>1. \A t \in Task : roundRetries[t] = 0
    BY DEF Init
  <2> QED BY <2>1, BoundAssumption DEF BoundAssumption, RetriesBounded
<1> QED BY <1>1, <1>2, <1>3 DEF RowInv, Marked, Retryable, Init

\* The columns RowInv reads do not change in a step that only moves calls
\* outside the stretch in which the row is marked.
LEMMA RowFrame ==
    ASSUME RowInv, UNCHANGED <<row, roundRetries, phase>>, phase = "up",
           \A p \in Proc : run'[p] = run[p] \/ run'[p].pc \notin
                               {"marked", "working", "finishing", "outcome"}
                        \/ (Marked(p) /\ run'[p].task = run[p].task)
    PROVE  RowInv'
BY DEF RowInv, Marked, RetriesBounded

LEMMA OutcomeRowFacts ==
    ASSUME NEW r \in Row, NEW result \in Outcome
    PROVE  LET o == OutcomeRow(r, result) IN
           /\ ~o.running /\ o.status # "running" /\ o.status # "interrupted"
           /\ o.status \in Retryable => o.attempts = r.attempts
           /\ o.status = "failed" /\ o.attempts < MaxTaskAutoRetries
                  => o.retry # "none"
<1>1. CASE result \in {"success", "skipped", "degraded"}
  BY <1>1 DEF OutcomeRow, Row, Retryable
<1>2. CASE result = "partial"
  BY <1>2 DEF OutcomeRow, Row, Retryable
<1>3. CASE result = "pending"
  BY <1>3 DEF OutcomeRow, Row, Retryable
<1>4. CASE result = "failed"
  BY <1>4 DEF OutcomeRow, Row, Retryable
<1> QED BY <1>1, <1>2, <1>3, <1>4 DEF Outcome

LEMMA RowNext == Typed /\ LockInv /\ RowInv /\ [Next]_vars => RowInv'
<1> SUFFICES ASSUME Typed, LockInv, RowInv, [Next]_vars PROVE RowInv'
  OBVIOUS
<1>t. TypeOK /\ CallsNamed /\ CallsDone
  BY DEF Typed
<1> USE DEF tables, memory
<1>1. ASSUME NEW p \in Proc, Visits(p) PROVE RowInv'
  BY <1>1, <1>t, VisitsKeepsHolders, RowFrame DEF LockedPC
<1>2. ASSUME NEW p \in Proc, EnterRegular(p) PROVE RowInv'
  BY <1>2, <1>t, RowFrame DEF EnterRegular, TypeOK, Call
<1>3. ASSUME NEW p \in Proc,
             \/ MarkRunStartedFails(p) \/ Release(p) \/ MarkRunOutcomeFails(p)
             \/ StartExecution(p) \/ StartExecutionFails(p) \/ RunTask(p)
             \/ FinishExecution(p) \/ FinishExecutionFails(p)
      PROVE RowInv'
  <2>1. UNCHANGED <<row, roundRetries, phase>> /\ phase = "up"
    BY <1>3 DEF MarkRunStartedFails, Release, MarkRunOutcomeFails, StartExecution,
         StartExecutionFails, RunTask, FinishExecution, FinishExecutionFails
  <2>2. \A q \in Proc : q # p => run'[q] = run[q]
    BY <1>3, <1>t DEF MarkRunStartedFails, Release, MarkRunOutcomeFails,
         StartExecution, StartExecutionFails, RunTask, FinishExecution,
         FinishExecutionFails, TypeOK
  <2>3. \/ run'[p].pc \notin {"marked", "working", "finishing", "outcome"}
        \/ Marked(p) /\ run'[p].task = run[p].task
    BY <1>3, <1>t DEF MarkRunStartedFails, Release, MarkRunOutcomeFails,
         StartExecution, StartExecutionFails, RunTask, FinishExecution,
         FinishExecutionFails, TypeOK, Call, NoCall, Marked
  <2> QED BY <2>1, <2>2, <2>3, RowFrame
<1>4. ASSUME NEW p \in Proc, ClaimRetry(p) PROVE RowInv'
  <2> DEFINE t == run[p].task
  <2>1. t \in Task /\ row[t] \in Row
    BY <1>4, <1>t DEF ClaimRetry, CallsNamed, TypeOK
  <2>2. /\ row[t].status \in Retryable /\ row[t].attempts < MaxTaskAutoRetries
        /\ row' = [row EXCEPT ![t].running = TRUE, ![t].status = "running",
                              ![t].attempts = @ + 1]
        /\ roundRetries' = [roundRetries EXCEPT ![t] = @ + 1]
        /\ run' = [run EXCEPT ![p].pc = "marked"]
        /\ phase' = phase /\ phase = "up"
    BY <1>4 DEF ClaimRetry, Claimable
  <2>3. roundRetries[t] = row[t].attempts
    BY <2>1, <2>2 DEF RowInv
  <2>4. /\ row'[t].running /\ row'[t].status = "running"
        /\ row'[t].attempts = row[t].attempts + 1
        /\ \A s \in Task : s # t => row'[s] = row[s]
    BY <2>1, <2>2, <1>t DEF TypeOK, Row
  <2>5. roundRetries'[t] = row[t].attempts + 1
        /\ \A s \in Task : s # t => roundRetries'[s] = roundRetries[s]
    BY <2>1, <2>2, <2>3, <1>t DEF TypeOK
  <2>6. row[t].attempts + 1 <= MaxTaskAutoRetries
    BY <2>1, <2>2, BoundAssumption DEF Row, Attempts, BoundAssumption
  <2>7. RetriesBounded'
    BY <2>5, <2>6 DEF RowInv, RetriesBounded
  <2>8. \A q \in Proc : run'[q].task = run[q].task /\ (q # p => run'[q] = run[q])
    BY <2>2, <1>t DEF TypeOK, Call
  <2>9. \A q \in Proc : Marked(q)' => row'[run'[q].task].running
    BY <2>4, <2>8, <1>t DEF RowInv, Marked, CallsNamed
  <2>10. \A s \in Task : row'[s].running <=> row'[s].status = "running"
    BY <2>4 DEF RowInv
  <2>11. \A s \in Task : row'[s].status \in Retryable \cup {"running"}
                           => roundRetries'[s] = row'[s].attempts
    BY <2>4, <2>5 DEF RowInv
  <2>12. \A s \in Task : /\ row'[s].status \in {"failed", "interrupted"}
                         /\ row'[s].attempts < MaxTaskAutoRetries
                         => row'[s].retry # "none"
    BY <2>4 DEF RowInv
  <2> QED BY <2>2, <2>7, <2>9, <2>10, <2>11, <2>12 DEF RowInv
<1>5. ASSUME NEW p \in Proc, MarkRunStarted(p) PROVE RowInv'
  <2> DEFINE t == run[p].task
  <2>1. t \in Task /\ row[t] \in Row
    BY <1>5, <1>t DEF MarkRunStarted, CallsNamed, TypeOK
  <2>2. /\ row' = [row EXCEPT ![t].running = TRUE, ![t].status = "running",
                              ![t].attempts = 0, ![t].retry = "none"]
        /\ roundRetries' = [roundRetries EXCEPT ![t] = 0]
        /\ run' = [run EXCEPT ![p].pc = "marked"]
        /\ phase' = phase /\ phase = "up"
    BY <1>5 DEF MarkRunStarted
  <2>4. /\ row'[t].running /\ row'[t].status = "running" /\ row'[t].attempts = 0
        /\ \A s \in Task : s # t => row'[s] = row[s]
    BY <2>1, <2>2, <1>t DEF TypeOK, Row
  <2>5. roundRetries'[t] = 0
        /\ \A s \in Task : s # t => roundRetries'[s] = roundRetries[s]
    BY <2>1, <2>2, <1>t DEF TypeOK
  <2>7. RetriesBounded'
    BY <2>5, BoundAssumption DEF RowInv, RetriesBounded, BoundAssumption
  <2>8. \A q \in Proc : run'[q].task = run[q].task /\ (q # p => run'[q] = run[q])
    BY <2>2, <1>t DEF TypeOK, Call
  <2>9. \A q \in Proc : Marked(q)' => row'[run'[q].task].running
    BY <2>4, <2>8, <1>t DEF RowInv, Marked, CallsNamed
  <2>10. \A s \in Task : row'[s].running <=> row'[s].status = "running"
    BY <2>4 DEF RowInv
  <2>11. \A s \in Task : row'[s].status \in Retryable \cup {"running"}
                           => roundRetries'[s] = row'[s].attempts
    BY <2>4, <2>5 DEF RowInv
  <2>12. \A s \in Task : /\ row'[s].status \in {"failed", "interrupted"}
                         /\ row'[s].attempts < MaxTaskAutoRetries
                         => row'[s].retry # "none"
    BY <2>4 DEF RowInv
  <2> QED BY <2>2, <2>7, <2>9, <2>10, <2>11, <2>12 DEF RowInv
<1>6. ASSUME NEW p \in Proc, MarkRunOutcome(p) PROVE RowInv'
  <2> DEFINE t == run[p].task
             o == OutcomeRow(row[t], run[p].result)
  <2>1. t \in Task /\ row[t] \in Row /\ run[p].result \in Outcome
    BY <1>6, <1>t DEF MarkRunOutcome, CallsNamed, CallsDone, TypeOK
  <2>2. /\ row' = [row EXCEPT ![t] = o]
        /\ run' = [run EXCEPT ![p].pc = "releasing"]
        /\ run[p].pc = "outcome"
        /\ UNCHANGED <<roundRetries, phase>> /\ phase = "up"
    BY <1>6 DEF MarkRunOutcome
  <2>3. row[t].running /\ roundRetries[t] = row[t].attempts
    BY <2>1, <2>2 DEF RowInv, Marked
  <2>4. row'[t] = o /\ \A s \in Task : s # t => row'[s] = row[s]
    BY <2>1, <2>2, <1>t DEF TypeOK
  <2>5. /\ ~o.running /\ o.status # "running" /\ o.status # "interrupted"
        /\ o.status \in Retryable => o.attempts = row[t].attempts
        /\ o.status = "failed" /\ o.attempts < MaxTaskAutoRetries
               => o.retry # "none"
    BY <2>1, OutcomeRowFacts
  <2>6. \A q \in Proc : q # p => run'[q] = run[q]
    BY <2>2, <1>t DEF TypeOK
  <2>7. run'[p].pc = "releasing"
    BY <2>2, <1>t DEF TypeOK, Call
  <2>8. \A q \in Proc : Marked(q)' => Marked(q) /\ run'[q].task = run[q].task
                                      /\ run[q].task # t
    BY <2>2, <2>6, <2>7 DEF Marked, LockInv, LockedPC
  <2>9. \A q \in Proc : Marked(q)' => row'[run'[q].task].running
    BY <2>4, <2>8, <1>t DEF RowInv, Marked, CallsNamed
  <2>10. RetriesBounded'
    BY <2>2 DEF RowInv, RetriesBounded
  <2> HIDE DEF o
  <2> QED BY <2>2, <2>3, <2>4, <2>5, <2>9, <2>10 DEF RowInv
<1>7. ASSUME NEW t \in Task, (\E e \in BOOLEAN : UpdateEnabled(t, e)) \/ Elapse(t)
      PROVE  RowInv'
  <2>1. /\ \A s \in Task : /\ row'[s].running = row[s].running
                           /\ row'[s].status = row[s].status
                           /\ row'[s].attempts = row[s].attempts
                           /\ row[s].retry # "none" => row'[s].retry # "none"
        /\ UNCHANGED <<run, roundRetries, phase>>
    BY <1>7, <1>t DEF UpdateEnabled, Elapse, TypeOK, Row
  <2> QED BY <2>1, <1>t DEF RowInv, Marked, RetriesBounded, CallsNamed
<1>8. CASE Crash
  BY <1>8 DEF Crash, RowInv, Marked, RetriesBounded, NoCall
<1>9. CASE EnsureDefault
  <2>1. \A s \in Task : /\ row'[s].running = row[s].running
                        /\ row'[s].status = row[s].status
                        /\ row'[s].attempts = row[s].attempts
                        /\ row[s].status # "partial" => row'[s] = row[s]
    BY <1>9, <1>t DEF EnsureDefault, RepairedRow, TypeOK, Row
  <2>2. UNCHANGED <<run, roundRetries>> /\ \A p \in Proc : run[p].pc = "idle"
    BY <1>9 DEF EnsureDefault, RowInv
  <2> QED BY <2>1, <2>2 DEF RowInv, Marked, RetriesBounded
<1>10. CASE RecoverInterrupted
  <2>1. \A s \in Task : row'[s] = InterruptedRow(row[s])
    BY <1>10 DEF RecoverInterrupted
  <2>2. \A s \in Task : /\ ~row'[s].running
                        /\ row'[s].attempts = row[s].attempts
                        /\ row[s].running => /\ row'[s].status = "interrupted"
                                             /\ row'[s].retry # "none"
                        /\ ~row[s].running => row'[s] = row[s]
    BY <2>1, <1>t DEF InterruptedRow, TypeOK, Row
  <2>3. UNCHANGED <<run, roundRetries>> /\ \A p \in Proc : run[p].pc = "idle"
    BY <1>10 DEF RecoverInterrupted, RowInv
  <2> QED BY <2>2, <2>3 DEF RowInv, Marked, RetriesBounded, Retryable
<1>11. ASSUME UNCHANGED <<run, row, roundRetries>>,
              phase' = phase \/ phase' = "up"
       PROVE  RowInv'
  BY <1>11 DEF RowInv, Marked, RetriesBounded
<1>12. CASE RecoverInterruptedExecutions
  BY <1>12, <1>11 DEF RecoverInterruptedExecutions
<1>13. CASE (\E t \in Task : CooldownEnds(t)) \/ UNCHANGED vars
            \/ \E p \in Ticker : ScanBegin(p) \/ ScanEnd(p)
  BY <1>13, <1>11 DEF CooldownEnds, ScanBegin, DispatcherFree, ScanEnd, vars
<1> QED BY <1>1, <1>2, <1>3, <1>4, <1>5, <1>6, <1>7, <1>8, <1>9, <1>10, <1>12,
           <1>13 DEF Next, RunStep, ScanStep, Restart, Visits, Proc

-----------------------------------------------------------------------------
(* Theorems                                                                *)

\* Every state is well typed (all of scheduler.go and the task rows).
THEOREM TypeCorrect == Spec => []TypeOK
<1>1. Typed => TypeOK
  BY DEF Typed
<1> QED BY <1>1, TypedInit, TypedNext, PTL DEF Spec

\* No two runs of one task overlap and at most one run uses SEC's live
\* endpoints, for any number of tasks and goroutines, with failing statements
\* and restarts (runTaskWithTrigger's mutex section and deferred release).
THEOREM MutualExclusion == Spec => []RunsExclude
<1>1. LockInv => RunsExclude
  BY DEF LockInv, RunsExclude, Holds
<1> QED BY <1>1, TypedInit, TypedNext, LockInit, LockNext, PTL DEF Spec

\* A running task is shown as running until its outcome is saved.
THEOREM LiveRunsShown == Spec => []LiveRunShown
<1>1. TypeOK /\ RowInv => LiveRunShown
  BY DEF TypeOK, Call, PC, LockedPC, RowInv, Marked, LiveRunShown, Holds
<1>2. Typed => TypeOK
  BY DEF Typed
<1> QED BY <1>1, <1>2, TypedInit, TypedNext, LockInit, LockNext, RowInit, RowNext,
           PTL DEF Spec

\* No round has more automatic retries than MaxTaskAutoRetries, whatever
\* crashes, failed statements and partial results happen in it.
THEOREM RetryBudget == Spec => []RetriesBounded
<1>1. RowInv => RetriesBounded
  BY DEF RowInv
<1> QED BY <1>1, TypedInit, TypedNext, LockInit, LockNext, RowInit, RowNext, PTL
        DEF Spec

\* A failed or interrupted task with attempts left is always on the queue.
THEOREM RetryQueued == Spec => []NoLostRetry
<1>1. RowInv => NoLostRetry
  BY DEF RowInv, NoLostRetry
<1> QED BY <1>1, TypedInit, TypedNext, LockInit, LockNext, RowInit, RowNext, PTL
        DEF Spec

-----------------------------------------------------------------------------
(* One retry scan at a time                                                *)

\* A scan that has rows to try, or is inside a run, holds retryMu.
ScanInv ==
    \A p \in Ticker : run[p].pc # "idle" \/ dueQueue[p] # {} => retryMu = p

LEMMA ScanInit == Init => ScanInv
BY TaskAssumption DEF TaskAssumption, Init, ScanInv, NoCall, Proc

\* Of an idle goroutine, only a firing or a scan makes a caller of runTask.
LEMMA IdleStays ==
    ASSUME TypeOK, NEW p \in Proc, RunStep(p)
    PROVE  /\ run[p].pc # "idle"
           /\ \A q \in Proc : q # p => run'[q] = run[q]
           /\ UNCHANGED <<retryMu, dueQueue, phase, crashes>>
BY DEF TypeOK, RunStep, EnterBusy, EnterRegular, ClaimRetry, ClaimMissed, MarkRunStarted,
       MarkRunStartedFails, StartExecution, StartExecutionFails, RunTask,
       FinishExecution, FinishExecutionFails, MarkRunOutcome, MarkRunOutcomeFails,
       Release

LEMMA ScanInvNext == Typed /\ ScanInv /\ [Next]_vars => ScanInv'
<1> SUFFICES ASSUME Typed, ScanInv, [Next]_vars PROVE ScanInv'
  OBVIOUS
<1>t. TypeOK
  BY DEF Typed
<1>p. Ticker \subseteq Proc /\ Caller \cap Ticker = {} /\ Nobody \notin Ticker
  BY TaskAssumption DEF TaskAssumption, Proc
<1>1. ASSUME NEW p \in Caller, NEW t \in Task, FireScheduled(p, t) \/ FireManual(p, t)
      PROVE  ScanInv'
  <2>1. /\ UNCHANGED <<retryMu, dueQueue>>
        /\ \A q \in Proc : q # p => run'[q] = run[q]
    BY <1>1, <1>t DEF FireScheduled, FireManual, Call_, TypeOK
  <2> QED BY <2>1, <1>p DEF ScanInv
<1>2. ASSUME NEW p \in Proc, RunStep(p) PROVE ScanInv'
  BY <1>2, <1>t, <1>p, IdleStays DEF ScanInv
<1>3. ASSUME NEW p \in Ticker, ScanBegin(p) PROVE ScanInv'
  <2>1. \A q \in Ticker : run[q].pc = "idle" /\ dueQueue[q] = {}
    BY <1>3, <1>p DEF ScanBegin, DispatcherFree, ScanInv
  <2>2. retryMu' = p /\ run' = run /\ \A q \in Ticker : q # p => dueQueue'[q] = dueQueue[q]
    BY <1>3, <1>t DEF ScanBegin, TypeOK
  <2> QED BY <2>1, <2>2 DEF ScanInv
<1>4. ASSUME NEW p \in Ticker, ScanNext(p) PROVE ScanInv'
  <2>1. dueQueue[p] # {} /\ retryMu' = retryMu
    BY <1>4 DEF ScanNext
  <2>2. /\ \A q \in Ticker : q # p => run'[q] = run[q]
        /\ \A q \in Ticker : q # p => dueQueue'[q] = dueQueue[q]
    BY <1>4, <1>t, <1>p DEF ScanNext, Call_, TypeOK
  <2> QED BY <2>1, <2>2 DEF ScanInv
<1>5. ASSUME NEW p \in Ticker, ScanEnd(p) PROVE ScanInv'
  BY <1>5 DEF ScanEnd, ScanInv
<1>6. CASE Crash
  BY <1>6, <1>p DEF Crash, ScanInv, NoCall
<1>7. CASE Restart \/ (\E t \in Task : \/ \E e \in BOOLEAN : UpdateEnabled(t, e)
                                       \/ Elapse(t) \/ CooldownEnds(t)) \/ UNCHANGED vars
  <2>1. UNCHANGED <<retryMu, dueQueue, run>>
    BY <1>7 DEF Restart, EnsureDefault, RecoverInterrupted, RecoverInterruptedExecutions,
         UpdateEnabled, Elapse, CooldownEnds, memory, vars
  <2> QED BY <2>1 DEF ScanInv
<1> QED BY <1>1, <1>2, <1>3, <1>4, <1>5, <1>6, <1>7 DEF Next, ScanStep

\* "One serial dispatcher bounds provider pressure": whatever number of one-minute
\* firings overlaps, the retries of at most one of them are under way (runDueRetries
\* and its TryLock).
THEOREM RetriesSerial == Spec => []SerialRetries
<1>1. ScanInv => SerialRetries
  BY DEF ScanInv, SerialRetries
<1> QED BY <1>1, TypedInit, TypedNext, ScanInit, ScanInvNext, PTL DEF Spec

-----------------------------------------------------------------------------
(* Rows and runs agree                                                     *)

\* Where no statement fails, a row is running because a live run marked it, or,
\* until the repair of the rows, a run that died; the open executions of dead runs
\* last until the repair after that.
OwnerInv ==
    /\ \A t \in Task : row[t].running =>
          \/ phase \in {"down", "migrated"}
          \/ phase = "up" /\ \E p \in Proc : Marked(p) /\ run[p].task = t
    /\ phase = "up" => orphan = {}

LEMMA OwnerInit == Init => OwnerInv
BY DEF Init, OwnerInv, FreshRow

\* A step of p that leaves every row's flag and p's mark alone.
LEMMA OwnerFrame ==
    ASSUME TypeOK, OwnerInv, phase = "up", NEW p \in Proc,
           UNCHANGED <<row, orphan, phase>>,
           \A q \in Proc : q # p => run'[q] = run[q],
           Marked(p) => Marked(p)' /\ run'[p].task = run[p].task
    PROVE  OwnerInv'
<1>1. \A t \in Task : row'[t].running => \E q \in Proc : Marked(q) /\ run[q].task = t
  BY DEF OwnerInv
<1>2. \A q \in Proc : Marked(q) => Marked(q)' /\ run'[q].task = run[q].task
  BY DEF Marked
<1> QED BY <1>1, <1>2 DEF OwnerInv

LEMMA OwnerNext == ~DBFaults /\ Typed /\ LockInv /\ RowInv /\ OwnerInv /\ [Next]_vars => OwnerInv'
<1> SUFFICES ASSUME ~DBFaults, Typed, LockInv, RowInv, OwnerInv, [Next]_vars PROVE OwnerInv'
  OBVIOUS
<1>t. TypeOK /\ CallsNamed /\ CallsDone
  BY DEF Typed
<1> USE DEF tables, memory
<1>1. ASSUME NEW p \in Proc, Visits(p) PROVE OwnerInv'
  <2>1. UNCHANGED orphan /\ run[p].pc \in {"idle", "entering"}
    BY <1>1 DEF Visits, EnterBusy, ClaimMissed, FireScheduled, FireManual, ScanNext, Call_
  <2>2. ~Marked(p)
    BY <2>1 DEF Marked
  <2> QED BY <1>1, <1>t, <2>1, <2>2, VisitsKeepsHolders, OwnerFrame
<1>2. ASSUME NEW p \in Proc,
             \/ EnterRegular(p) \/ Release(p) \/ StartExecution(p) \/ RunTask(p)
             \/ FinishExecution(p)
      PROVE  OwnerInv'
  <2>1. UNCHANGED <<row, orphan, phase>> /\ phase = "up"
    BY <1>2 DEF EnterRegular, Release, StartExecution, RunTask, FinishExecution
  <2>2. \A q \in Proc : q # p => run'[q] = run[q]
    BY <1>2, <1>t DEF EnterRegular, Release, StartExecution, RunTask, FinishExecution, TypeOK
  <2>3. Marked(p) => Marked(p)' /\ run'[p].task = run[p].task
    BY <1>2, <1>t DEF EnterRegular, Release, StartExecution, RunTask, FinishExecution, TypeOK,
         Marked, Call
  <2> QED BY <1>t, <2>1, <2>2, <2>3, OwnerFrame
<1>3. ASSUME NEW p \in Proc, ClaimRetry(p) \/ MarkRunStarted(p) PROVE OwnerInv'
  <2> DEFINE t == run[p].task
  <2>1. /\ phase = "up" /\ UNCHANGED <<phase, orphan>>
        /\ run' = [run EXCEPT ![p].pc = "marked"] /\ t \in Task
        /\ \A s \in Task : s # t => row'[s] = row[s]
    BY <1>3, <1>t DEF ClaimRetry, MarkRunStarted, CallsNamed, TypeOK
  <2>2. /\ Marked(p)' /\ run'[p].task = t
        /\ \A q \in Proc : q # p => run'[q] = run[q]
    BY <2>1, <1>t DEF TypeOK, Call, Marked
  <2>3. \A q \in Proc : Marked(q) => Marked(q)' /\ run'[q].task = run[q].task
    BY <2>2 DEF Marked
  <2>4. \A s \in Task : row'[s].running => \E q \in Proc : Marked(q)' /\ run'[q].task = s
    BY <2>1, <2>2, <2>3 DEF OwnerInv
  <2> QED BY <2>1, <2>4 DEF OwnerInv
<1>4. ASSUME NEW p \in Proc, MarkRunOutcome(p) PROVE OwnerInv'
  <2> DEFINE t == run[p].task
             o == OutcomeRow(row[t], run[p].result)
  <2>1. t \in Task /\ row[t] \in Row /\ run[p].result \in Outcome
    BY <1>4, <1>t DEF MarkRunOutcome, CallsNamed, CallsDone, TypeOK
  <2>2. /\ row' = [row EXCEPT ![t] = o] /\ run' = [run EXCEPT ![p].pc = "releasing"]
        /\ phase = "up" /\ UNCHANGED <<phase, orphan>>
    BY <1>4 DEF MarkRunOutcome
  <2>3. ~o.running
    BY <2>1, OutcomeRowFacts
  <2>4. row'[t] = o /\ \A s \in Task : s # t => row'[s] = row[s]
    BY <2>1, <2>2, <1>t DEF TypeOK
  <2>5. \A q \in Proc : q # p => run'[q] = run[q]
    BY <2>2, <1>t DEF TypeOK
  <2>6. \A s \in Task : row'[s].running => \E q \in Proc : Marked(q)' /\ run'[q].task = s
    <3> SUFFICES ASSUME NEW s \in Task, row'[s].running
                 PROVE  \E q \in Proc : Marked(q)' /\ run'[q].task = s
      OBVIOUS
    <3>1. s # t /\ row[s].running
      BY <2>3, <2>4
    <3>2. PICK q \in Proc : Marked(q) /\ run[q].task = s
      BY <3>1, <2>2 DEF OwnerInv
    <3>3. q # p
      BY <3>1, <3>2
    <3> QED BY <3>2, <3>3, <2>5 DEF Marked
  <2> QED BY <2>2, <2>6 DEF OwnerInv
<1>5. ASSUME NEW p \in Proc,
             \/ MarkRunStartedFails(p) \/ StartExecutionFails(p)
             \/ FinishExecutionFails(p) \/ MarkRunOutcomeFails(p)
      PROVE  FALSE
  BY <1>5 DEF MarkRunStartedFails, StartExecutionFails, FinishExecutionFails, MarkRunOutcomeFails
<1>6. ASSUME NEW t \in Task, (\E e \in BOOLEAN : UpdateEnabled(t, e)) \/ Elapse(t)
      PROVE  OwnerInv'
  <2>1. \A s \in Task : row'[s].running = row[s].running
    BY <1>6, <1>t DEF UpdateEnabled, Elapse, TypeOK, Row
  <2>2. UNCHANGED <<run, phase, orphan>>
    BY <1>6 DEF UpdateEnabled, Elapse
  <2> QED BY <2>1, <2>2 DEF OwnerInv, Marked
<1>7. CASE Crash
  BY <1>7 DEF Crash, OwnerInv
<1>8. CASE EnsureDefault
  BY <1>8 DEF EnsureDefault, OwnerInv
<1>9. CASE RecoverInterrupted
  <2>1. \A s \in Task : ~row'[s].running
    BY <1>9, <1>t DEF RecoverInterrupted, InterruptedRow, TypeOK, Row
  <2> QED BY <1>9, <2>1 DEF RecoverInterrupted, OwnerInv
<1>10. CASE RecoverInterruptedExecutions
  BY <1>10 DEF RecoverInterruptedExecutions, OwnerInv
<1>11. CASE (\E t \in Task : CooldownEnds(t)) \/ UNCHANGED vars
            \/ \E p \in Ticker : ScanBegin(p) \/ ScanEnd(p)
  <2>1. UNCHANGED <<run, row, phase, orphan>>
    BY <1>11 DEF CooldownEnds, ScanBegin, ScanEnd, vars
  <2> QED BY <2>1 DEF OwnerInv, Marked
<1> QED BY <1>1, <1>2, <1>3, <1>4, <1>5, <1>6, <1>7, <1>8, <1>9, <1>10, <1>11
        DEF Next, RunStep, ScanStep, Restart, Visits, Proc

\* Where no statement fails, a served process shows a task as running exactly while
\* a run that marked it has not saved its outcome, and no execution of a dead run is
\* open, restarts included (MarkRunStarted, MarkRunOutcome, RecoverInterrupted).
\* With failing statements only LiveRunShown holds: the flag may stay set.
THEOREM RowsFollowRuns == ASSUME ~DBFaults PROVE Spec => []RowsMatchRuns
<1>1. Typed /\ RowInv /\ OwnerInv => RowsMatchRuns
  BY DEF Typed, CallsNamed, Marked, RowInv, OwnerInv, RowsMatchRuns
<1> QED BY <1>1, TypedInit, TypedNext, LockInit, LockNext, RowInit, RowNext, OwnerInit,
           OwnerNext, PTL DEF Spec

-----------------------------------------------------------------------------
(* Attempts                                                                *)

LEMMA AttemptTakesLock ==
    Typed /\ [Next]_vars =>
        \A t \in Task : row'[t].attempts > row[t].attempts => t \in runningTasks' \ runningTasks
<1> SUFFICES ASSUME Typed, [Next]_vars, NEW t \in Task, row'[t].attempts > row[t].attempts
             PROVE  t \in runningTasks' \ runningTasks
  OBVIOUS
<1>t. TypeOK /\ CallsNamed /\ CallsDone
  BY DEF Typed
<1>a. row[t] \in Row /\ row[t].attempts \in Nat /\ ~(row[t].attempts > row[t].attempts)
      /\ ~(0 > row[t].attempts)
  BY <1>t, BoundAssumption DEF TypeOK, Row, Attempts, BoundAssumption
<1>b. row'[t].attempts # row[t].attempts /\ row'[t].attempts # 0
  BY <1>a
<1> USE DEF tables, memory
<1>1. \A p \in Proc : RunStep(p) => ClaimRetry(p)
  <2> SUFFICES ASSUME NEW p \in Proc, RunStep(p), ~ClaimRetry(p) PROVE FALSE
    OBVIOUS
  <2>1. CASE MarkRunStarted(p)
    <3>1. run[p].task \in Task
      BY <2>1, <1>t DEF MarkRunStarted, CallsNamed
    <3> QED BY <2>1, <3>1, <1>b, <1>t DEF MarkRunStarted, TypeOK, Row
  <2>2. CASE MarkRunOutcome(p)
    <3>1. run[p].task \in Task /\ run[p].result \in Outcome
      BY <2>2, <1>t DEF MarkRunOutcome, CallsNamed, CallsDone
    <3>2. row'[t] = row[t] \/ row'[t] = OutcomeRow(row[t], run[p].result)
      BY <2>2, <3>1, <1>t DEF MarkRunOutcome, TypeOK
    <3>3. row'[t].attempts = row[t].attempts \/ row'[t].attempts = 0
      BY <3>1, <3>2, <1>a DEF OutcomeRow, Row, Outcome
    <3> QED BY <3>3, <1>b
  <2>3. CASE ~MarkRunStarted(p) /\ ~MarkRunOutcome(p)
    <3>1. row' = row
      BY <2>3 DEF RunStep, EnterBusy, EnterRegular, ClaimMissed,
           MarkRunStartedFails, StartExecution, StartExecutionFails, RunTask,
           FinishExecution, FinishExecutionFails, MarkRunOutcomeFails, Release
    <3> QED BY <3>1, <1>b
  <2> QED BY <2>1, <2>2, <2>3
<1>2. ASSUME NEW p \in Proc, ClaimRetry(p) PROVE t \in runningTasks' \ runningTasks
  <2>1. run[p].task \in Task
    BY <1>2, <1>t DEF ClaimRetry, CallsNamed
  <2>2. t = run[p].task
    BY <1>2, <2>1, <1>b, <1>t DEF ClaimRetry, TypeOK
  <2> QED BY <1>2, <2>2 DEF ClaimRetry, Acquire, Busy
<1>3. ASSUME NEW s \in Task, (\E e \in BOOLEAN : UpdateEnabled(s, e)) \/ Elapse(s) \/ CooldownEnds(s)
      PROVE FALSE
  BY <1>3, <1>b, <1>t DEF UpdateEnabled, Elapse, CooldownEnds, TypeOK, Row
<1>4. Restart => FALSE
  BY <1>b, <1>t DEF Restart, EnsureDefault, RecoverInterrupted, RecoverInterruptedExecutions,
       RepairedRow, InterruptedRow, TypeOK, Row
<1>5. UNCHANGED row => FALSE
  BY <1>b
<1>6. Crash \/ (\E p \in Ticker : ScanStep(p)) \/ UNCHANGED vars
      \/ (\E p \in Caller, s \in Task : FireScheduled(p, s) \/ FireManual(p, s)) => UNCHANGED row
  BY DEF Crash, ScanStep, ScanBegin, ScanNext, ScanEnd, FireScheduled, FireManual, vars
<1> QED BY <1>1, <1>2, <1>3, <1>4, <1>5, <1>6 DEF Next

\* A retry that finds its task or SEC busy is postponed without being counted: the
\* step that counts an attempt is the one that takes the task's lock (ClaimRetry
\* under the mutex of runTaskWithTrigger).
THEOREM AttemptsCounted == Spec => BusyConsumesNoAttempt
<1>1. Typed /\ [Next]_vars =>
        [\A t \in Task : row'[t].attempts > row[t].attempts => t \in runningTasks' \ runningTasks]_vars
  BY AttemptTakesLock
<1> QED BY <1>1, TypedInit, TypedNext, PTL DEF Spec, BusyConsumesNoAttempt

-----------------------------------------------------------------------------
(***************************************************************************)
(* TaskScheduler implements RetryRounds, for every set of tasks and        *)
(* goroutines, with crashes and failing statements.                        *)
(***************************************************************************)
\* The repair in EnsureDefault finds nothing to do in rows this release wrote.
NoOldRows == \A t \in Task : row[t].status = "partial" => ~row[t].streak

StateMap == [t \in Task |-> RoundState(t)]

\* Whether a run of t is under way, and the part of its row that matters.
MarkedFor(q, t) == Marked(q) /\ run[q].task = t
Same(t) ==
    /\ row'[t].running = row[t].running
    /\ row'[t].status = row[t].status
    /\ row'[t].attempts = row[t].attempts
    /\ row'[t].retry = "none" <=> row[t].retry = "none"

-----------------------------------------------------------------------------
(* Which steps leave the state of a round alone                            *)

LEMMA StateKept ==
    ASSUME NEW t \in Task, Same(t),
           \A q \in Proc : MarkedFor(q, t)' <=> MarkedFor(q, t)
    PROVE  RoundState(t)' = RoundState(t)
BY DEF RoundState, Same, MarkedFor

LEMMA OneChanges ==
    ASSUME NEW t \in Task,
           \A s \in Task \ {t} : RoundState(s)' = RoundState(s)
    PROVE  StateMap' = [StateMap EXCEPT ![t] = RoundState(t)']
BY DEF StateMap

LEMMA NoneChanges ==
    ASSUME \A s \in Task : Same(s),
           \A q \in Proc, s \in Task : MarkedFor(q, s)' <=> MarkedFor(q, s),
           UNCHANGED roundRetries
    PROVE  UNCHANGED <<StateMap, roundRetries>>
<1>1. \A s \in Task : RoundState(s)' = RoundState(s)
  BY StateKept
<1> QED BY <1>1 DEF StateMap

-----------------------------------------------------------------------------
(* The old rows                                                            *)

LEMMA OldRowsInit == Init => NoOldRows
BY DEF Init, FreshRow, NoOldRows

LEMMA OutcomeRowStreak ==
    ASSUME NEW r \in Row, NEW result \in Outcome
    PROVE  OutcomeRow(r, result).status = "partial"
              => ~OutcomeRow(r, result).streak
<1>1. CASE result \in {"success", "skipped", "degraded"}
  BY <1>1 DEF OutcomeRow, Row
<1>2. CASE result = "partial"
  BY <1>2 DEF OutcomeRow, Row
<1>3. CASE result = "pending"
  BY <1>3 DEF OutcomeRow, Row
<1>4. CASE result = "failed"
  BY <1>4 DEF OutcomeRow, Row
<1> QED BY <1>1, <1>2, <1>3, <1>4 DEF Outcome

LEMMA OldRowsNext == Typed /\ NoOldRows /\ [Next]_vars => NoOldRows'
<1> SUFFICES ASSUME Typed, NoOldRows, [Next]_vars PROVE NoOldRows'
  OBVIOUS
<1>t. TypeOK /\ CallsNamed /\ CallsDone
  BY DEF Typed
<1> USE DEF memory, tables
<1>1. ASSUME UNCHANGED row PROVE NoOldRows'
  BY <1>1 DEF NoOldRows
<1>2. ASSUME NEW p \in Proc, ClaimRetry(p) \/ MarkRunStarted(p)
      PROVE  NoOldRows'
  BY <1>2, <1>t DEF ClaimRetry, MarkRunStarted, NoOldRows, TypeOK, Row
<1>3. ASSUME NEW p \in Proc, MarkRunOutcome(p) PROVE NoOldRows'
  <2>1. /\ run[p].task \in Task /\ run[p].result \in Outcome
        /\ row' = [row EXCEPT ![run[p].task] =
                                  OutcomeRow(row[run[p].task], run[p].result)]
    BY <1>3, <1>t DEF MarkRunOutcome, CallsNamed, CallsDone
  <2>2. row[run[p].task] \in Row
    BY <2>1, <1>t DEF TypeOK
  <2> QED BY <2>1, <2>2, <1>t, OutcomeRowStreak DEF NoOldRows, TypeOK
<1>4. ASSUME NEW t \in Task, (\E e \in BOOLEAN : UpdateEnabled(t, e)) \/ Elapse(t)
      PROVE  NoOldRows'
  BY <1>4, <1>t DEF UpdateEnabled, Elapse, NoOldRows, TypeOK, Row
<1>5. CASE Restart
  <2>1. CASE EnsureDefault
    <3>1. \A t \in Task : row'[t] = RepairedRow(row[t])
      BY <2>1 DEF EnsureDefault
    <3>2. \A r \in Row : RepairedRow(r).status = "partial" => ~RepairedRow(r).streak
      BY DEF RepairedRow, Row
    <3> QED BY <3>1, <3>2, <1>t DEF NoOldRows, TypeOK
  <2>2. CASE RecoverInterrupted
    <3>1. \A t \in Task : row'[t] = InterruptedRow(row[t])
      BY <2>2 DEF RecoverInterrupted
    <3>2. \A r \in Row : InterruptedRow(r) = r
                            \/ InterruptedRow(r).status = "interrupted"
      BY DEF InterruptedRow, Row
    <3> QED BY <3>1, <3>2, <1>t DEF NoOldRows, TypeOK
  <2> QED BY <1>5, <2>1, <2>2, <1>1 DEF Restart, RecoverInterruptedExecutions
<1>6. ASSUME NEW p \in Proc, Visits(p) PROVE UNCHANGED row
  BY <1>6, <1>t, VisitsKeepsHolders
<1>7. ASSUME NEW p \in Proc,
             \/ EnterRegular(p) \/ MarkRunStartedFails(p) \/ StartExecution(p)
             \/ StartExecutionFails(p) \/ RunTask(p) \/ FinishExecution(p)
             \/ FinishExecutionFails(p) \/ MarkRunOutcomeFails(p) \/ Release(p)
      PROVE  UNCHANGED row
  BY <1>7 DEF EnterRegular, MarkRunStartedFails, StartExecution,
       StartExecutionFails, RunTask, FinishExecution, FinishExecutionFails,
       MarkRunOutcomeFails, Release
<1>8. ASSUME Crash \/ UNCHANGED vars \/ (\E t \in Task : CooldownEnds(t))
             \/ \E p \in Ticker : ScanBegin(p) \/ ScanEnd(p)
      PROVE  UNCHANGED row
  BY <1>8 DEF Crash, vars, CooldownEnds, ScanBegin, DispatcherFree, ScanEnd
<1> QED BY <1>1, <1>2, <1>3, <1>4, <1>5, <1>6, <1>7, <1>8
        DEF Next, RunStep, ScanStep, Visits, Proc

-----------------------------------------------------------------------------
(* Every step is a step of RetryRounds or none                             *)

\* No task's state and no counter changes.
StepKept == UNCHANGED <<StateMap, roundRetries>>

LEMMA VisitsStep ==
    ASSUME TypeOK, NEW p \in Proc, Visits(p)
    PROVE  StepKept
<1>1. /\ UNCHANGED <<row, roundRetries>>
      /\ \A q \in Proc : q # p => run'[q] = run[q]
      /\ run'[p].pc \notin LockedPC
  BY VisitsKeepsHolders
<1>2. run[p].pc \notin LockedPC
  BY DEF Visits, EnterBusy, ClaimMissed, FireScheduled, FireManual, ScanNext, LockedPC
<1>3. \A q \in Proc, s \in Task : MarkedFor(q, s)' <=> MarkedFor(q, s)
  BY <1>1, <1>2 DEF MarkedFor, Marked, LockedPC
<1> QED BY <1>1, <1>3, NoneChanges DEF Same, StepKept

\* The steps that neither mark a row nor end its marking.
Elsewhere(p) ==
    \/ EnterRegular(p) \/ MarkRunStartedFails(p) \/ StartExecution(p)
    \/ StartExecutionFails(p) \/ RunTask(p) \/ FinishExecution(p)
    \/ FinishExecutionFails(p) \/ Release(p)

LEMMA ElsewhereStep ==
    ASSUME TypeOK, NEW p \in Proc, Elsewhere(p)
    PROVE  StepKept
<1>1. UNCHANGED <<row, roundRetries>>
  BY DEF Elsewhere, EnterRegular, MarkRunStartedFails, StartExecution,
     StartExecutionFails, RunTask, FinishExecution, FinishExecutionFails, Release,
     tables
<1>2. \A q \in Proc : q # p => run'[q] = run[q]
  BY DEF Elsewhere, EnterRegular, MarkRunStartedFails, StartExecution,
     StartExecutionFails, RunTask, FinishExecution, FinishExecutionFails, Release,
     TypeOK
<1>3. \/ ~Marked(p) /\ ~Marked(p)'
      \/ Marked(p) /\ Marked(p)' /\ run'[p].task = run[p].task
  <2>1. CASE EnterRegular(p)
    BY <2>1 DEF EnterRegular, Marked, TypeOK, Call
  <2>2. CASE MarkRunStartedFails(p) \/ Release(p)
    BY <2>2 DEF MarkRunStartedFails, Release, Marked, TypeOK, NoCall
  <2>3. CASE StartExecution(p) \/ StartExecutionFails(p)
    BY <2>3 DEF StartExecution, StartExecutionFails, Marked, TypeOK, Call
  <2>4. CASE RunTask(p)
    BY <2>4 DEF RunTask, Marked, TypeOK, Call
  <2>5. CASE FinishExecution(p) \/ FinishExecutionFails(p)
    BY <2>5 DEF FinishExecution, FinishExecutionFails, Marked, TypeOK, Call
  <2> QED BY <2>1, <2>2, <2>3, <2>4, <2>5 DEF Elsewhere
<1>4. \A q \in Proc, s \in Task : MarkedFor(q, s)' <=> MarkedFor(q, s)
  BY <1>2, <1>3 DEF MarkedFor, Marked
<1> QED BY <1>1, <1>4, NoneChanges DEF Same, StepKept

\* A step by one call changes the state of no task but the call's own.
LEMMA OthersKept ==
    ASSUME TypeOK, NEW p \in Proc,
           \A q \in Proc : q # p => run'[q] = run[q],
           run'[p].task = run[p].task,
           \A s \in Task : s # run[p].task => row'[s] = row[s]
    PROVE  \A s \in Task \ {run[p].task} : RoundState(s)' = RoundState(s)
<1> SUFFICES ASSUME NEW s \in Task, s # run[p].task
             PROVE  RoundState(s)' = RoundState(s)
  OBVIOUS
<1>1. \A q \in Proc : MarkedFor(q, s)' <=> MarkedFor(q, s)
  BY DEF MarkedFor, Marked
<1>2. Same(s)
  BY DEF Same
<1> QED BY <1>1, <1>2, StateKept

LEMMA ClaimStep ==
    ASSUME Typed, RowInv, NEW p \in Proc, ClaimRetry(p)
    PROVE  run[p].task \in Task /\ Rounds!Retry(run[p].task)
<1> DEFINE t == run[p].task
<1>t. TypeOK /\ CallsNamed
  BY DEF Typed
<1>1. t \in Task /\ row[t] \in Row
  BY <1>t DEF ClaimRetry, CallsNamed, TypeOK
<1>2. /\ Claimable(t)
      /\ row' = [row EXCEPT ![t].running = TRUE, ![t].status = "running",
                            ![t].attempts = @ + 1]
      /\ roundRetries' = [roundRetries EXCEPT ![t] = @ + 1]
      /\ run' = [run EXCEPT ![p].pc = "marked"]
  BY DEF ClaimRetry
<1>3. RoundState(t) = "owed" /\ roundRetries[t] < MaxTaskAutoRetries
  BY <1>1, <1>2 DEF RoundState, Claimable, RowInv
<1>4. /\ run'[p].pc = "marked" /\ run'[p].task = t
      /\ \A q \in Proc : q # p => run'[q] = run[q]
  BY <1>2, <1>t DEF TypeOK, Call
<1>5. row'[t].running /\ \A s \in Task : s # t => row'[s] = row[s]
  BY <1>1, <1>2, <1>t DEF TypeOK, Row
<1>6. RoundState(t)' = "running"
  BY <1>4, <1>5 DEF RoundState, Marked
<1>7. StateMap' = [StateMap EXCEPT ![t] = "running"]
  BY <1>1, <1>4, <1>5, <1>6, <1>t, OthersKept, OneChanges
<1> QED BY <1>1, <1>2, <1>3, <1>7 DEF Rounds!Retry, StateMap

LEMMA StartStep ==
    ASSUME Typed, LockInv, NEW p \in Proc, MarkRunStarted(p)
    PROVE  run[p].task \in Task /\ Rounds!BeginRound(run[p].task)
<1> DEFINE t == run[p].task
<1>t. TypeOK /\ CallsNamed
  BY DEF Typed
<1>1. t \in Task /\ row[t] \in Row
  BY <1>t DEF MarkRunStarted, CallsNamed, TypeOK
<1>2. /\ run[p].pc = "locked"
      /\ row' = [row EXCEPT ![t].running = TRUE, ![t].status = "running",
                            ![t].attempts = 0, ![t].retry = "none"]
      /\ roundRetries' = [roundRetries EXCEPT ![t] = 0]
      /\ run' = [run EXCEPT ![p].pc = "marked"]
  BY DEF MarkRunStarted
<1>3. \A q \in Proc : ~(Marked(q) /\ run[q].task = t)
  BY <1>2 DEF LockInv, Marked, LockedPC
<1>4. RoundState(t) # "running"
  BY <1>3 DEF RoundState
<1>5. /\ run'[p].pc = "marked" /\ run'[p].task = t
      /\ \A q \in Proc : q # p => run'[q] = run[q]
  BY <1>2, <1>t DEF TypeOK, Call
<1>6. row'[t].running /\ \A s \in Task : s # t => row'[s] = row[s]
  BY <1>1, <1>2, <1>t DEF TypeOK, Row
<1>7. RoundState(t)' = "running"
  BY <1>5, <1>6 DEF RoundState, Marked
<1>8. StateMap' = [StateMap EXCEPT ![t] = "running"]
  BY <1>1, <1>5, <1>6, <1>7, <1>t, OthersKept, OneChanges
<1> QED BY <1>1, <1>2, <1>4, <1>8 DEF Rounds!BeginRound, StateMap

LEMMA EndStep ==
    ASSUME Typed, LockInv, RowInv, NEW p \in Proc,
           MarkRunOutcome(p) \/ MarkRunOutcomeFails(p)
    PROVE  run[p].task \in Task /\ Rounds!End(run[p].task)
<1> DEFINE t == run[p].task
<1>t. TypeOK /\ CallsNamed /\ CallsDone
  BY DEF Typed
<1>1. t \in Task /\ row[t] \in Row /\ run[p].result \in Outcome
  BY <1>t DEF MarkRunOutcome, MarkRunOutcomeFails, CallsNamed, CallsDone, TypeOK
<1>2. /\ run[p].pc = "outcome" /\ roundRetries' = roundRetries
      /\ run' = [run EXCEPT ![p].pc = "releasing"]
      /\ row' = row \/ row' = [row EXCEPT ![t] = OutcomeRow(@, run[p].result)]
  BY DEF MarkRunOutcome, MarkRunOutcomeFails, tables
<1>3. row[t].running /\ roundRetries[t] = row[t].attempts
  BY <1>1, <1>2 DEF RowInv, Marked
<1>4. RoundState(t) = "running"
  BY <1>2, <1>3 DEF RoundState, Marked
<1>5. /\ run'[p].pc = "releasing" /\ run'[p].task = t
      /\ \A q \in Proc : q # p => run'[q] = run[q]
  BY <1>2, <1>t DEF TypeOK, Call
<1>6. /\ \A s \in Task : s # t => row'[s] = row[s]
      /\ row'[t] = row[t] \/ row'[t] = OutcomeRow(row[t], run[p].result)
  BY <1>1, <1>2, <1>t DEF TypeOK
<1>7. \A q \in Proc : ~(Marked(q) /\ run[q].task = t)'
  BY <1>2, <1>5 DEF LockInv, Marked, LockedPC
<1>8. /\ RoundState(t)' \in {"resting", "owed", "open"}
      /\ RoundState(t)' = "owed" => roundRetries[t] < MaxTaskAutoRetries
  <2>1. RoundState(t)' \in {"resting", "owed", "open"}
    BY <1>7 DEF RoundState
  <2>2. ASSUME RoundState(t)' = "owed" PROVE roundRetries[t] < MaxTaskAutoRetries
    <3>1. /\ ~row'[t].running /\ row'[t].status \in Retryable
          /\ row'[t].attempts < MaxTaskAutoRetries
      BY <1>5, <2>2 DEF RoundState
    <3>2. row'[t] = OutcomeRow(row[t], run[p].result)
      BY <1>3, <1>6, <3>1
    <3>3. row'[t].attempts = row[t].attempts
      BY <1>1, <3>1, <3>2, OutcomeRowFacts
    <3> QED BY <1>3, <3>1, <3>3
  <2> QED BY <2>1, <2>2
<1>9. StateMap' = [StateMap EXCEPT ![t] = RoundState(t)']
  BY <1>1, <1>5, <1>6, <1>t, OthersKept, OneChanges
<1> QED BY <1>1, <1>2, <1>4, <1>8, <1>9 DEF Rounds!End, StateMap

\* A crash leaves the rows of the runs it ends as they are.
LEMMA CrashStep ==
    ASSUME RowInv, CallsNamed, Crash
    PROVE  Rounds!Crash
<1>1. row' = row /\ roundRetries' = roundRetries /\ \A p \in Proc : ~Marked(p)'
  BY DEF Crash, Marked, NoCall
<1>2. \A t \in Task : RoundState(t)' =
          IF RoundState(t) = "running" THEN "open" ELSE RoundState(t)
  BY <1>1 DEF RoundState
<1>3. StateMap' = [t \in Task |-> IF StateMap[t] = "running" THEN "open"
                                                             ELSE StateMap[t]]
  BY <1>2 DEF StateMap
<1> QED BY <1>1, <1>3 DEF Rounds!Crash, StateMap

\* The repair of interrupted rows queues what was cut off.
LEMMA RecoverStep ==
    ASSUME TypeOK, RowInv, RecoverInterrupted
    PROVE  Rounds!Recover
<1>1. /\ run' = run /\ roundRetries' = roundRetries
      /\ \A p \in Proc : ~Marked(p)
  BY DEF RecoverInterrupted, memory, RowInv, Marked
<1>2. \A t \in Task : row'[t] = InterruptedRow(row[t])
  BY DEF RecoverInterrupted
<1>3. ASSUME NEW t \in Task
      PROVE  RoundState(t)' =
                CASE RoundState(t) = "open" /\ roundRetries[t] < MaxTaskAutoRetries
                        -> "owed"
                  [] RoundState(t) = "open" /\ roundRetries[t] >= MaxTaskAutoRetries
                        -> "resting"
                  [] OTHER -> RoundState(t)
  <2>1. /\ row[t] \in Row /\ roundRetries[t] \in Nat
        /\ MaxTaskAutoRetries \in Nat
    BY BoundAssumption DEF BoundAssumption, TypeOK
  <2>2. CASE row[t].running
    <3>1. /\ ~row'[t].running /\ row'[t].status = "interrupted"
          /\ row'[t].retry = "waiting" /\ row'[t].attempts = row[t].attempts
      BY <1>2, <2>1, <2>2 DEF InterruptedRow, Row
    <3>2. roundRetries[t] = row[t].attempts
      BY <2>2 DEF RowInv
    <3>3. RoundState(t) = "open"
      BY <1>1, <2>2 DEF RoundState
    <3>4. CASE roundRetries[t] < MaxTaskAutoRetries
      <4>1. RoundState(t)' = "owed"
        BY <3>1, <3>2, <3>4 DEF RoundState, Retryable
      <4> QED BY <2>1, <3>3, <3>4, <4>1
    <3>5. CASE ~(roundRetries[t] < MaxTaskAutoRetries)
      <4>1. RoundState(t)' = "resting"
        BY <3>1, <3>2, <3>5 DEF RoundState, Retryable
      <4> QED BY <2>1, <3>3, <3>5, <4>1
    <3> QED BY <3>4, <3>5
  <2>3. CASE ~row[t].running
    <3>1. row'[t] = row[t]
      BY <1>2, <2>3 DEF InterruptedRow
    <3>2. RoundState(t)' = RoundState(t) /\ RoundState(t) # "open"
      BY <2>3, <3>1 DEF RoundState
    <3> QED BY <3>2
  <2> QED BY <2>2, <2>3
<1>4. StateMap' =
        [t \in Task |->
            CASE StateMap[t] = "open" /\ roundRetries[t] < MaxTaskAutoRetries
                    -> "owed"
              [] StateMap[t] = "open" /\ roundRetries[t] >= MaxTaskAutoRetries
                    -> "resting"
              [] OTHER -> StateMap[t]]
  BY <1>3 DEF StateMap
<1> QED BY <1>1, <1>4 DEF Rounds!Recover, StateMap

\* Everything that moves no call and ends no process.
LEMMA QuietStep ==
    ASSUME TypeOK, NoOldRows,
           \/ \E t \in Task : \/ \E e \in BOOLEAN : UpdateEnabled(t, e)
                              \/ Elapse(t) \/ CooldownEnds(t)
           \/ \E p \in Ticker : ScanBegin(p) \/ ScanEnd(p)
           \/ EnsureDefault \/ RecoverInterruptedExecutions \/ UNCHANGED vars
    PROVE  StepKept
<1>1. UNCHANGED <<run, roundRetries>>
  BY DEF UpdateEnabled, Elapse, CooldownEnds, ScanBegin, ScanEnd, EnsureDefault,
     RecoverInterruptedExecutions, vars, memory, tables
<1>2. \A s \in Task : Same(s)
  <2>1. CASE row' = row
    BY <2>1 DEF Same
  <2>2. ASSUME NEW t \in Task, (\E e \in BOOLEAN : UpdateEnabled(t, e)) \/ Elapse(t)
        PROVE  \A s \in Task : Same(s)
    BY <2>2 DEF UpdateEnabled, Elapse, Same, TypeOK, Row
  <2>3. CASE EnsureDefault
    BY <2>3 DEF EnsureDefault, RepairedRow, NoOldRows, Same
  <2>4. ASSUME \/ (\E t \in Task : CooldownEnds(t))
               \/ (\E p \in Ticker : ScanBegin(p) \/ ScanEnd(p))
               \/ RecoverInterruptedExecutions \/ UNCHANGED vars
        PROVE  row' = row
    BY <2>4 DEF CooldownEnds, ScanBegin, ScanEnd, RecoverInterruptedExecutions,
       vars, tables
  <2> QED BY <2>1, <2>2, <2>3, <2>4
<1>3. \A q \in Proc, s \in Task : MarkedFor(q, s)' <=> MarkedFor(q, s)
  BY <1>1 DEF MarkedFor, Marked
<1> QED BY <1>1, <1>2, <1>3, NoneChanges DEF StepKept

-----------------------------------------------------------------------------
(* The theorem                                                             *)

\* The scheduler implements the rounds of RetryRounds: at most
\* MaxTaskAutoRetries retries in a round, none dropped but by the start of a
\* new run, none lost by a crash (scheduler.go and task_config.go together).
THEOREM Implementation == Spec => RoundsKept
<1>1. Init => Rounds!Init
  <2> SUFFICES ASSUME Init PROVE Rounds!Init
    OBVIOUS
  <2>1. \A t \in Task : RoundState(t) = "resting"
    BY DEF Init, FreshRow, RoundState
  <2> QED BY <2>1 DEF Init, Rounds!Init
<1>2. Typed /\ LockInv /\ RowInv /\ NoOldRows /\ [Next]_vars
         => [Rounds!Next]_(Rounds!vars)
  <2> SUFFICES ASSUME Typed, LockInv, RowInv, NoOldRows, [Next]_vars
               PROVE  Rounds!Next \/ StepKept
    BY DEF StepKept, Rounds!vars, StateMap
  <2>t. TypeOK /\ CallsNamed
    BY DEF Typed
  <2>1. ASSUME NEW p \in Proc, Visits(p) \/ Elsewhere(p) PROVE StepKept
    BY <2>1, <2>t, VisitsStep, ElsewhereStep
  <2>2. ASSUME NEW p \in Proc, ClaimRetry(p) PROVE Rounds!Next
    BY <2>2, ClaimStep DEF Rounds!Next
  <2>3. ASSUME NEW p \in Proc, MarkRunStarted(p) PROVE Rounds!Next
    BY <2>3, StartStep DEF Rounds!Next
  <2>4. ASSUME NEW p \in Proc, MarkRunOutcome(p) \/ MarkRunOutcomeFails(p)
        PROVE  Rounds!Next
    BY <2>4, EndStep DEF Rounds!Next
  <2>5. CASE Crash
    BY <2>5, <2>t, CrashStep DEF Rounds!Next
  <2>6. CASE RecoverInterrupted
    BY <2>6, <2>t, RecoverStep DEF Rounds!Next
  <2>7. ASSUME \/ \E t \in Task : \/ \E e \in BOOLEAN : UpdateEnabled(t, e)
                                  \/ Elapse(t) \/ CooldownEnds(t)
               \/ \E p \in Ticker : ScanBegin(p) \/ ScanEnd(p)
               \/ EnsureDefault \/ RecoverInterruptedExecutions \/ UNCHANGED vars
        PROVE  StepKept
    BY <2>7, <2>t, QuietStep
  <2> QED BY <2>1, <2>2, <2>3, <2>4, <2>5, <2>6, <2>7
          DEF Next, RunStep, ScanStep, Restart, Visits, Elsewhere, Proc
<1> QED BY <1>1, <1>2, TypedInit, TypedNext, LockInit, LockNext, RowInit, RowNext,
           OldRowsInit, OldRowsNext, PTL DEF Spec, RoundsKept, Rounds!Spec

=============================================================================
