-------------------------- MODULE OperationsProofs --------------------------
(***************************************************************************)
(* What the run Operations checks of the cron plan, the alerts, the        *)
(* cleanup, the backups and the batches of the universe, for any number of *)
(* settings, requests, targets, rows, restore points, stages, securities,  *)
(* listings and crashes, and any limits the settings allow.  A behaviour   *)
(* of the sum is, seen by one part, a behaviour of the part.               *)
(***************************************************************************)
EXTENDS MCOperations, SequenceTheorems, FiniteSetTheorems, TLAPS

all == <<part, reloadVars, vars, backupVars, alertVars, cleanupVars,
         securityVars, marketVars, listingVars>>

LEMMA PartsStart ==
    ASSUME OperationsInit
    PROVE  /\ Cron!Init /\ Alerts!Init /\ History!Init /\ Backup!Init
           /\ Universe!Init /\ Market!Init /\ Listings!Init
BY DEF OperationsInit

LEMMA PartsStep ==
    ASSUME [OperationsNext]_all
    PROVE  /\ [Cron!Next]_reloadVars
           /\ [Alerts!Next]_alertVars
           /\ [History!Next]_cleanupVars
           /\ [Backup!Next]_backupVars
           /\ [Universe!Next]_securityVars
           /\ [Market!Next]_marketVars
           /\ [Listings!Next]_listingVars
<1>1. [Cron!Next]_reloadVars BY Zenon DEF OperationsNext, Only, all
<1>2. [Alerts!Next]_alertVars BY Zenon DEF OperationsNext, Only, all
<1>3. [History!Next]_cleanupVars BY Zenon DEF OperationsNext, Only, all
<1>4. [Backup!Next]_backupVars BY Zenon DEF OperationsNext, Only, all
<1>5. [Universe!Next]_securityVars BY Zenon DEF OperationsNext, Only, all
<1>6. [Market!Next]_marketVars BY Zenon DEF OperationsNext, Only, all
<1>7. [Listings!Next]_listingVars BY Zenon DEF OperationsNext, Only, all
<1> QED BY <1>1, <1>2, <1>3, <1>4, <1>5, <1>6, <1>7

-----------------------------------------------------------------------------
(* The cron plan.  A request that has swapped the instance stops another   *)
(* than the one installed; and while no request overlapped the last save,  *)
(* one request at most is under way, with the plan of the rows.            *)

ReplacedOthers ==
    \A e \in Editor : editor[e].pc \in {"swapped", "waiting"}
        => editor[e].previous \in Instance /\ editor[e].previous # current

PlanOnItsWay ==
    alone =>
        /\ \A d, e \in Editor : editor[d].pc # "idle" /\ editor[e].pc # "idle" => d = e
        /\ \A e \in Editor : editor[e].pc \in {"listed", "persisted", "locked"}
              => editor[e].next = Cron!RowPlan
        /\ (\A e \in Editor : editor[e].pc \in {"idle", "swapped", "waiting"})
              => plan[current] = Cron!RowPlan

PlanKept == Cron!TypeOK /\ Cron!EveryOldCronStopped /\ ReplacedOthers /\ PlanOnItsWay

LEMMA RowPlanTyped ==
    ASSUME Cron!TypeOK
    PROVE  Cron!RowPlan \in Cron!Plan
BY DEF Cron!TypeOK, Cron!RowPlan, Cron!Plan

LEMMA PlanStarts ==
    ASSUME MaxJobs \in Nat, Cron!Init
    PROVE  PlanKept
<1>1. Cron!RowPlan \in Cron!Plan /\ Cron!NoPlan \in Cron!Plan
    BY DEF Cron!Init, Cron!RowPlan, Cron!Plan, Cron!NoPlan
<1>2. Cron!TypeOK
    BY <1>1 DEF Cron!Init, Cron!TypeOK, Cron!NoEdit, Cron!EditorPC
<1>3. \A e \in Editor : editor[e].pc = "idle" BY DEF Cron!Init, Cron!NoEdit
<1>4. plan[current] = Cron!RowPlan BY DEF Cron!Init
<1> QED BY <1>2, <1>3, <1>4
    DEF Cron!Init, PlanKept, Cron!EveryOldCronStopped, ReplacedOthers, PlanOnItsWay

\* A step of request e changes no other request.
LEMMA RequestKeeps ==
    ASSUME Cron!TypeOK, NEW e \in Editor, NEW s,
           s \in [pc : Cron!EditorPC, next : Cron!Plan, previous : Instance \cup {None}],
           editor' = [editor EXCEPT ![e] = s]
    PROVE  /\ editor' \in [Editor -> [pc : Cron!EditorPC, next : Cron!Plan,
                                      previous : Instance \cup {None}]]
           /\ editor'[e] = s
           /\ \A d \in Editor : d # e => editor'[d] = editor[d]
BY DEF Cron!TypeOK

LEMMA SaveKeeps ==
    ASSUME PlanKept, NEW e \in Editor, NEW t \in Task, NEW on \in BOOLEAN, NEW x \in Expr,
           Cron!Save(e, t, on, x)
    PROVE  PlanKept'
<1> USE DEF PlanKept
<1>1. [editor[e] EXCEPT !.pc = "saved"]
        \in [pc : Cron!EditorPC, next : Cron!Plan, previous : Instance \cup {None}]
    BY DEF Cron!TypeOK, Cron!EditorPC
<1>2. editor' = [editor EXCEPT ![e] = [editor[e] EXCEPT !.pc = "saved"]]
    BY DEF Cron!Save
<1>3. Cron!TypeOK' BY <1>1, <1>2, RequestKeeps DEF Cron!Save, Cron!TypeOK, Cron!crons
<1>4. editor'[e].pc = "saved" /\ \A d \in Editor : d # e => editor'[d] = editor[d]
    BY <1>1, <1>2, RequestKeeps
<1>5. UNCHANGED <<plan, current, ticking>> BY DEF Cron!Save, Cron!crons
<1>6. editor[e].pc = "idle" BY DEF Cron!Save
<1>7. Cron!EveryOldCronStopped' 
    BY <1>4, <1>5, <1>6 DEF Cron!EveryOldCronStopped, Cron!Stopping
<1>8. ReplacedOthers' BY <1>4, <1>5 DEF ReplacedOthers
<1>9. PlanOnItsWay' BY <1>4 DEF PlanOnItsWay, Cron!Save
<1> QED BY <1>3, <1>7, <1>8, <1>9

\* A step of request e that leaves the rows and the history alone.
LEMMA ReloadKeeps ==
    ASSUME PlanKept, NEW e \in Editor, Cron!Reload(e)
    PROVE  PlanKept'
<1> USE DEF PlanKept
<1> DEFINE Edit == [pc : Cron!EditorPC, next : Cron!Plan, previous : Instance \cup {None}]
<1>e. editor[e] \in Edit BY DEF Cron!TypeOK
<1>r. Cron!RowPlan \in Cron!Plan BY RowPlanTyped
<1>n. Cron!NoEdit \in Edit BY DEF Cron!NoEdit, Cron!NoPlan, Cron!Plan, Cron!EditorPC
<1>1. CASE Cron!List(e)
    <2> DEFINE s == [editor[e] EXCEPT !.pc = "listed", !.next = Cron!RowPlan]
    <2>1. s \in Edit BY <1>e, <1>r DEF Cron!EditorPC
    <2>2. editor' = [editor EXCEPT ![e] = s] /\ editor[e].pc = "saved"
          /\ UNCHANGED <<enabled, expr, nextRun, plan, current, ticking, jobs, finisher, alone>>
        BY <1>1 DEF Cron!List, Cron!rows, Cron!crons
    <2>3. /\ editor' \in [Editor -> Edit] /\ editor'[e] = s
          /\ \A d \in Editor : d # e => editor'[d] = editor[d]
        BY <2>1, <2>2, RequestKeeps
    <2>4. editor'[e].pc = "listed" /\ editor'[e].next = Cron!RowPlan BY <1>e, <2>3
    <2>5. Cron!TypeOK' BY <2>2, <2>3 DEF Cron!TypeOK
    <2>6. Cron!EveryOldCronStopped'
        BY <2>2, <2>3, <2>4 DEF Cron!EveryOldCronStopped, Cron!Stopping
    <2>7. ReplacedOthers' BY <2>2, <2>3, <2>4 DEF ReplacedOthers
    <2>8. Cron!RowPlan' = Cron!RowPlan BY <2>2 DEF Cron!RowPlan
    <2>9. PlanOnItsWay' BY <2>2, <2>3, <2>4, <2>8 DEF PlanOnItsWay
    <2> QED BY <2>5, <2>6, <2>7, <2>9
<1>2. CASE Cron!Persist(e)
    <2> DEFINE s == [editor[e] EXCEPT !.pc = "persisted"]
    <2>1. s \in Edit BY <1>e DEF Cron!EditorPC
    <2>2. editor' = [editor EXCEPT ![e] = s] /\ editor[e].pc = "listed"
          /\ nextRun' = editor[e].next
          /\ UNCHANGED <<enabled, expr, plan, current, ticking, jobs, finisher, alone>>
        BY <1>2 DEF Cron!Persist, Cron!crons
    <2>3. /\ editor' \in [Editor -> Edit] /\ editor'[e] = s
          /\ \A d \in Editor : d # e => editor'[d] = editor[d]
        BY <2>1, <2>2, RequestKeeps
    <2>4. editor'[e].pc = "persisted" /\ editor'[e].next = editor[e].next BY <1>e, <2>3
    <2>5. Cron!TypeOK' BY <1>e, <2>2, <2>3 DEF Cron!TypeOK
    <2>6. Cron!EveryOldCronStopped'
        BY <2>2, <2>3, <2>4 DEF Cron!EveryOldCronStopped, Cron!Stopping
    <2>7. ReplacedOthers' BY <2>2, <2>3, <2>4 DEF ReplacedOthers
    <2>8. Cron!RowPlan' = Cron!RowPlan BY <2>2 DEF Cron!RowPlan
    <2>9. PlanOnItsWay' BY <2>2, <2>3, <2>4, <2>8 DEF PlanOnItsWay
    <2> QED BY <2>5, <2>6, <2>7, <2>9
<1>6. CASE Cron!Lock(e)
    <2> DEFINE s == [editor[e] EXCEPT !.pc = "locked"]
    <2>1. s \in Edit BY <1>e DEF Cron!EditorPC
    <2>2. editor' = [editor EXCEPT ![e] = s] /\ editor[e].pc = "persisted"
          /\ UNCHANGED <<enabled, expr, nextRun, plan, current, ticking, jobs, finisher, alone>>
        BY <1>6 DEF Cron!Lock, Cron!rows, Cron!crons
    <2>3. /\ editor' \in [Editor -> Edit] /\ editor'[e] = s
          /\ \A d \in Editor : d # e => editor'[d] = editor[d]
        BY <2>1, <2>2, RequestKeeps
    <2>4. editor'[e].pc = "locked" /\ editor'[e].next = editor[e].next BY <1>e, <2>3
    <2>5. Cron!TypeOK' BY <2>2, <2>3 DEF Cron!TypeOK
    <2>6. Cron!EveryOldCronStopped'
        BY <2>2, <2>3, <2>4 DEF Cron!EveryOldCronStopped, Cron!Stopping
    <2>7. ReplacedOthers' BY <2>2, <2>3, <2>4 DEF ReplacedOthers
    <2>8. Cron!RowPlan' = Cron!RowPlan BY <2>2 DEF Cron!RowPlan
    <2>9. PlanOnItsWay' BY <2>2, <2>3, <2>4, <2>8 DEF PlanOnItsWay
    <2> QED BY <2>5, <2>6, <2>7, <2>9
<1>3. ASSUME NEW i \in Instance, Cron!Swap(e, i)
      PROVE  PlanKept'
    <2> DEFINE s == [editor[e] EXCEPT !.pc = "swapped", !.previous = current]
    <2>c. current \in Instance BY DEF Cron!TypeOK
    <2>1. s \in Edit BY <1>e, <2>c DEF Cron!EditorPC
    <2>2. editor' = [editor EXCEPT ![e] = s] /\ editor[e].pc = "locked"
          /\ plan' = [plan EXCEPT ![i] = editor[e].next] /\ current' = i
          /\ ticking' = ticking \cup {i} /\ i \notin Cron!InUse
          /\ UNCHANGED <<enabled, expr, nextRun, jobs, finisher, alone>>
        BY <1>3 DEF Cron!Swap, Cron!rows
    <2>3. /\ editor' \in [Editor -> Edit] /\ editor'[e] = s
          /\ \A d \in Editor : d # e => editor'[d] = editor[d]
        BY <2>1, <2>2, RequestKeeps
    <2>4. editor'[e].pc = "swapped" /\ editor'[e].previous = current BY <1>e, <2>3
    <2>5. Cron!TypeOK' BY <1>e, <2>2, <2>3 DEF Cron!TypeOK
    <2>6. Cron!EveryOldCronStopped'
        <3>1. current \in Cron!Stopping' BY <2>4 DEF Cron!Stopping
        <3>2. \A d \in Editor : editor[d].pc = "swapped" => editor'[d] = editor[d] /\ d # e
            BY <2>2, <2>3
        <3>3. Cron!Stopping \subseteq Cron!Stopping' BY <3>2 DEF Cron!Stopping
        <3> QED BY <2>2, <3>1, <3>3 DEF Cron!EveryOldCronStopped
    <2>7. ReplacedOthers'
        <3>1. i # current BY <2>2 DEF Cron!InUse
        <3>2. \A d \in Editor : editor[d].pc \in {"swapped", "waiting"} => editor[d].previous # i
            BY <2>2 DEF Cron!InUse
        <3> QED BY <2>2, <2>3, <2>4, <2>c, <3>1, <3>2 DEF ReplacedOthers
    <2>8. Cron!RowPlan' = Cron!RowPlan BY <2>2 DEF Cron!RowPlan
    <2>9. plan'[current'] = editor[e].next BY <2>2 DEF Cron!TypeOK
    <2>10. PlanOnItsWay' BY <2>2, <2>3, <2>4, <2>8, <2>9 DEF PlanOnItsWay
    <2> QED BY <2>5, <2>6, <2>7, <2>10
<1>4. CASE Cron!StopPrevious(e)
    <2> DEFINE s == [editor[e] EXCEPT !.pc = "waiting"]
    <2>1. s \in Edit BY <1>e DEF Cron!EditorPC
    <2>2. editor' = [editor EXCEPT ![e] = s] /\ editor[e].pc = "swapped"
          /\ ticking' = ticking \ {editor[e].previous}
          /\ UNCHANGED <<enabled, expr, nextRun, plan, current, jobs, finisher, alone>>
        BY <1>4 DEF Cron!StopPrevious, Cron!rows
    <2>3. /\ editor' \in [Editor -> Edit] /\ editor'[e] = s
          /\ \A d \in Editor : d # e => editor'[d] = editor[d]
        BY <2>1, <2>2, RequestKeeps
    <2>4. editor'[e].pc = "waiting" /\ editor'[e].previous = editor[e].previous BY <1>e, <2>3
    <2>5. Cron!TypeOK' BY <2>2, <2>3 DEF Cron!TypeOK
    <2>6. Cron!EveryOldCronStopped'
        <3>1. current \in ticking' BY <2>2 DEF Cron!EveryOldCronStopped, ReplacedOthers
        <3>2. ASSUME NEW j \in ticking', j # current PROVE j \in Cron!Stopping'
            <4>1. j \in Cron!Stopping /\ j # editor[e].previous
                BY <2>2, <3>2 DEF Cron!EveryOldCronStopped
            <4>2. PICK d \in Editor : editor[d].pc = "swapped" /\ j = editor[d].previous
                BY <4>1 DEF Cron!Stopping
            <4>3. editor'[d] = editor[d] BY <2>3, <4>1, <4>2
            <4> QED BY <4>2, <4>3 DEF Cron!Stopping
        <3> QED BY <2>2, <3>1, <3>2 DEF Cron!EveryOldCronStopped
    <2>7. ReplacedOthers' BY <2>2, <2>3, <2>4 DEF ReplacedOthers
    <2>8. Cron!RowPlan' = Cron!RowPlan BY <2>2 DEF Cron!RowPlan
    <2>9. PlanOnItsWay' BY <2>2, <2>3, <2>4, <2>8 DEF PlanOnItsWay
    <2> QED BY <2>5, <2>6, <2>7, <2>9
<1>5. CASE Cron!Answer(e)
    <2>2. editor' = [editor EXCEPT ![e] = Cron!NoEdit] /\ editor[e].pc = "waiting"
          /\ plan' = [plan EXCEPT ![editor[e].previous] = Cron!NoPlan]
          /\ UNCHANGED <<enabled, expr, nextRun, current, ticking, jobs, finisher, alone>>
        BY <1>5 DEF Cron!Answer, Cron!rows
    <2>3. /\ editor' \in [Editor -> Edit] /\ editor'[e] = Cron!NoEdit
          /\ \A d \in Editor : d # e => editor'[d] = editor[d]
        BY <1>n, <2>2, RequestKeeps
    <2>4. editor'[e].pc = "idle" BY <2>3 DEF Cron!NoEdit
    <2>5. Cron!TypeOK'
        <3>1. Cron!NoPlan \in Cron!Plan BY DEF Cron!NoPlan, Cron!Plan
        <3>2. plan' \in [Instance -> Cron!Plan] BY <2>2, <3>1 DEF Cron!TypeOK
        <3> QED BY <2>2, <2>3, <3>2 DEF Cron!TypeOK
    <2>6. Cron!EveryOldCronStopped'
        BY <2>2, <2>3, <2>4 DEF Cron!EveryOldCronStopped, Cron!Stopping
    <2>7. ReplacedOthers' BY <2>2, <2>3, <2>4 DEF ReplacedOthers
    <2>8. Cron!RowPlan' = Cron!RowPlan BY <2>2 DEF Cron!RowPlan
    <2>9. plan'[current] = plan[current]
        BY <2>2 DEF ReplacedOthers, Cron!TypeOK
    <2>10. PlanOnItsWay' BY <2>2, <2>3, <2>4, <2>8, <2>9 DEF PlanOnItsWay
    <2> QED BY <2>5, <2>6, <2>7, <2>10
<1> QED BY <1>1, <1>2, <1>3, <1>4, <1>5, <1>6 DEF Cron!Reload

LEMMA AbortKeeps ==
    ASSUME PlanKept, NEW e \in Editor, Cron!Abort(e)
    PROVE  PlanKept'
<1> USE DEF PlanKept
<1>1. Cron!NoEdit \in [pc : Cron!EditorPC, next : Cron!Plan, previous : Instance \cup {None}]
    BY DEF Cron!NoEdit, Cron!NoPlan, Cron!Plan, Cron!EditorPC
<1>2. editor' = [editor EXCEPT ![e] = Cron!NoEdit] /\ editor[e].pc \in {"saved", "listed"}
      /\ alone' = FALSE
      /\ UNCHANGED <<enabled, expr, nextRun, plan, current, ticking, jobs, finisher>>
    BY DEF Cron!Abort, Cron!rows, Cron!crons
<1>3. Cron!TypeOK' BY <1>1, <1>2, RequestKeeps DEF Cron!TypeOK
<1>4. editor'[e].pc = "idle" /\ \A d \in Editor : d # e => editor'[d] = editor[d]
    BY <1>1, <1>2, RequestKeeps DEF Cron!NoEdit
<1>5. Cron!EveryOldCronStopped' BY <1>2, <1>4 DEF Cron!EveryOldCronStopped, Cron!Stopping
<1>6. ReplacedOthers' BY <1>2, <1>4 DEF ReplacedOthers
<1>7. PlanOnItsWay' BY <1>2 DEF PlanOnItsWay
<1> QED BY <1>3, <1>5, <1>6, <1>7

\* Jobs and finishing runs touch neither the requests nor the instances.
LEMMA RunsKeep ==
    ASSUME MaxJobs \in Nat, PlanKept,
           \/ \E i \in Instance : Cron!JobEnds(i) \/ \E t \in Task : Cron!Fire(i, t)
           \/ \E f \in Finisher : Cron!RefreshWrite(f) \/ \E t \in Task : Cron!RefreshRead(f, t)
           \/ UNCHANGED Cron!vars
    PROVE  PlanKept'
<1> USE DEF PlanKept
<1>1. UNCHANGED <<enabled, expr, plan, current, ticking, editor, alone>>
    BY DEF Cron!JobEnds, Cron!Fire, Cron!RefreshWrite, Cron!RefreshRead, Cron!vars, Cron!rows,
           Cron!crons
<1>2. jobs' \in [Instance -> 0..MaxJobs]
    <2>1. ASSUME NEW i \in Instance, Cron!JobEnds(i) \/ \E t \in Task : Cron!Fire(i, t)
          PROVE  jobs' \in [Instance -> 0..MaxJobs]
        BY <2>1 DEF Cron!TypeOK, Cron!JobEnds, Cron!Fire
    <2>2. (\E f \in Finisher : Cron!RefreshWrite(f) \/ \E t \in Task : Cron!RefreshRead(f, t))
          \/ UNCHANGED Cron!vars
             => jobs' = jobs
        BY DEF Cron!RefreshWrite, Cron!RefreshRead, Cron!vars, Cron!crons
    <2> QED BY <2>1, <2>2 DEF Cron!TypeOK
<1> DEFINE Refresh == [pc : {"idle", "read"}, task : Task, next : Expr \cup {None}]
<1>3. nextRun' \in Cron!Plan /\ finisher' \in [Finisher -> Refresh]
    <2>1. ASSUME NEW f \in Finisher, NEW t \in Task, Cron!RefreshRead(f, t)
          PROVE  nextRun' \in Cron!Plan /\ finisher' \in [Finisher -> Refresh]
        <3>1. Cron!RowPlan[t] \in Expr \cup {None} BY RowPlanTyped DEF Cron!Plan
        <3>2. [pc |-> "read", task |-> t, next |-> Cron!RowPlan[t]] \in Refresh BY <3>1
        <3>3. finisher' = [finisher EXCEPT ![f] =
                              [pc |-> "read", task |-> t, next |-> Cron!RowPlan[t]]]
              /\ nextRun' = nextRun
            BY <2>1 DEF Cron!RefreshRead, Cron!rows
        <3> QED BY <3>2, <3>3 DEF Cron!TypeOK
    <2>2. ASSUME NEW f \in Finisher, Cron!RefreshWrite(f)
          PROVE  nextRun' \in Cron!Plan /\ finisher' \in [Finisher -> Refresh]
        BY <2>2 DEF Cron!TypeOK, Cron!RefreshWrite, Cron!Plan
    <2>3. (\E i \in Instance : Cron!JobEnds(i) \/ \E t \in Task : Cron!Fire(i, t))
          \/ UNCHANGED Cron!vars
             => nextRun' \in Cron!Plan /\ finisher' \in [Finisher -> Refresh]
        BY DEF Cron!TypeOK, Cron!JobEnds, Cron!Fire, Cron!vars, Cron!rows
    <2> QED BY <2>1, <2>2, <2>3
<1>4. Cron!TypeOK' BY <1>1, <1>2, <1>3 DEF Cron!TypeOK
<1>5. Cron!RowPlan' = Cron!RowPlan BY <1>1 DEF Cron!RowPlan
<1> QED BY <1>1, <1>4, <1>5
    DEF Cron!EveryOldCronStopped, Cron!Stopping, ReplacedOthers, PlanOnItsWay

\* Scheduler.Reload: however requests overlap and jobs run on, the installed
\* instance ticks, no replaced one goes on firing, and a save that had Reload to
\* itself is in force once it is answered.
THEOREM PlanInForce ==
    ASSUME MaxJobs \in Nat
    PROVE  Cron!Spec => [](Cron!TypeOK /\ Cron!CronMatchesRows /\ Cron!EveryOldCronStopped)
<1>1. Cron!Init => PlanKept BY PlanStarts
<1>2. PlanKept /\ [Cron!Next]_Cron!vars => PlanKept'
    BY SaveKeeps, ReloadKeeps, AbortKeeps, RunsKeep DEF Cron!Next
<1>3. PlanKept => Cron!CronMatchesRows
    BY DEF PlanKept, PlanOnItsWay, Cron!CronMatchesRows, Cron!Quiet
<1>4. PlanKept => Cron!TypeOK /\ Cron!CronMatchesRows /\ Cron!EveryOldCronStopped
    BY <1>3 DEF PlanKept
<1> QED BY <1>1, <1>2, <1>4, PTL DEF Cron!Spec

\* The run's property of the cron plan.
THEOREM PlanFollowsRows ==
    ASSUME MaxJobs \in Nat
    PROVE  Operations => []CronFollowsRows
<1>1. OperationsInit => Cron!Init BY PartsStart
<1>2. [OperationsNext]_all => [Cron!Next]_Cron!vars
    BY PartsStep DEF Cron!vars, Cron!rows, Cron!crons, reloadVars
<1>3. Operations => Cron!Spec BY <1>1, <1>2, PTL DEF Operations, Cron!Spec, all
<1>4. Cron!TypeOK /\ Cron!CronMatchesRows /\ Cron!EveryOldCronStopped => CronFollowsRows
    BY DEF CronFollowsRows
<1> QED BY <1>3, <1>4, PlanInForce, PTL

-----------------------------------------------------------------------------
(* The cleanup.  What is due was old and stays so until it is deleted, the *)
(* stage reached says what has been deleted, and the batches selected do   *)
(* not include the one that is live, nor one published later.              *)

PrescreenRow == [repair : BOOLEAN, old : BOOLEAN, kept : BOOLEAN]
LogRow == [status : {"running", "completed", "partial", "failed"},
           main : {"pending", "completed", "failed"},
           discovery : {"pending", "completed", "failed"}]

HistoryTyped ==
    /\ age \in [History!Recorded -> {"running", "recent", "old", "deleted"}]
    /\ prescreen \in Seq(PrescreenRow)
    /\ log \in Seq(LogRow)
    /\ pointer \in 0..Len(prescreen)
    /\ \/ cleanup = History!Idle
       \/ cleanup \in [pc : {"main", "discovery", "select", "repairs"},
                       due : SUBSET History!Recorded,
                       dueBatch : SUBSET (1..Len(prescreen)), ids : SUBSET (1..Len(prescreen))]

DueWasOld ==
    cleanup # History!Idle => \A r \in cleanup.due : age[r] \in {"old", "deleted"}

DeletedByStage ==
    /\ cleanup.pc \in {"discovery", "select", "repairs"}
         => \A r \in cleanup.due \cap MainRow : age[r] = "deleted"
    /\ cleanup.pc \in {"select", "repairs"}
         => \A r \in cleanup.due \cap DiscoveryRow : age[r] = "deleted"

LiveNotSelected == cleanup # History!Idle => pointer \notin cleanup.ids

CleanupInv ==
    HistoryTyped /\ History!LiveViewKept /\ DueWasOld /\ DeletedByStage /\ LiveNotSelected

LEMMA HistoryStarts == History!Init => CleanupInv
<1> SUFFICES ASSUME History!Init PROVE CleanupInv OBVIOUS
<1>1. HistoryTyped BY EmptySeq DEF History!Init, HistoryTyped
<1> QED BY <1>1 DEF History!Init, CleanupInv, History!LiveViewKept, DueWasOld, DeletedByStage,
        LiveNotSelected, History!Idle


\* What the world does while a cleanup may be under way.
LEMMA WorldKeeps ==
    ASSUME CleanupInv,
           \/ \E r \in History!Recorded : History!Finish(r)
           \/ History!Age
           \/ \E repair \in BOOLEAN : History!Publish(repair)
           \/ UNCHANGED History!vars
    PROVE  CleanupInv' /\ (\A i \in DOMAIN log : log'[i] = log[i])
           /\ \A r \in History!Recorded : age'[r] = "deleted" <=> age[r] = "deleted"
<1> USE DEF CleanupInv
<1> DEFINE Ages == {"running", "recent", "old", "deleted"}
<1>1. CASE (\E r \in History!Recorded : History!Finish(r)) \/ UNCHANGED History!vars
    <2>1. UNCHANGED <<prescreen, pointer, log, cleanup>>
        BY <1>1 DEF History!Finish, History!vars
    <2>2. /\ age' \in [History!Recorded -> Ages]
          /\ \A r \in History!Recorded : age'[r] = age[r]
                \/ (age[r] = "running" /\ age'[r] = "recent")
        BY <1>1 DEF History!Finish, History!vars, HistoryTyped
    <2>3. HistoryTyped' BY <2>1, <2>2 DEF HistoryTyped
    <2>4. cleanup # History!Idle => cleanup.due \subseteq History!Recorded BY DEF HistoryTyped
    <2>5. cleanup.pc \in {"discovery", "select", "repairs"} => cleanup # History!Idle
        BY DEF History!Idle
    <2> QED BY <2>1, <2>2, <2>3, <2>4, <2>5
        DEF History!LiveViewKept, DueWasOld, DeletedByStage, LiveNotSelected
<1>2. CASE History!Age
    <2>1. UNCHANGED <<pointer, log, cleanup>> BY <1>2 DEF History!Age
    <2>2. /\ age' \in [History!Recorded -> Ages]
          /\ \A r \in History!Recorded : age'[r] = age[r]
                \/ (age[r] = "recent" /\ age'[r] = "old")
        <3>1. age' = [r \in History!Recorded |-> IF age[r] = "recent" THEN "old" ELSE age[r]]
            BY <1>2 DEF History!Age
        <3>2. age \in [History!Recorded -> Ages] BY DEF HistoryTyped
        <3> QED BY <3>1, <3>2
    <2>3. /\ prescreen' \in Seq(PrescreenRow) /\ Len(prescreen') = Len(prescreen)
          /\ \A b \in 1..Len(prescreen) : prescreen'[b].kept = prescreen[b].kept
        <3>1. prescreen' = [b \in DOMAIN prescreen |-> [prescreen[b] EXCEPT !.old = TRUE]]
            BY <1>2 DEF History!Age
        <3>2. prescreen \in Seq(PrescreenRow) /\ DOMAIN prescreen = 1..Len(prescreen)
            BY DEF HistoryTyped
        <3>3. \A b \in 1..Len(prescreen) : prescreen[b] \in PrescreenRow BY <3>2, ElementOfSeq
        <3>4. \A b \in 1..Len(prescreen) :
                 /\ [prescreen[b] EXCEPT !.old = TRUE] \in PrescreenRow
                 /\ [prescreen[b] EXCEPT !.old = TRUE].kept = prescreen[b].kept
            BY <3>3 DEF PrescreenRow
        <3>5. ASSUME NEW f, f = [b \in DOMAIN prescreen |-> [prescreen[b] EXCEPT !.old = TRUE]]
              PROVE  f \in [1..Len(prescreen) -> PrescreenRow]
            BY <3>2, <3>4, <3>5
        <3>6. Len(prescreen) \in Nat BY <3>2, LenProperties
        <3>7. prescreen' \in [1..Len(prescreen) -> PrescreenRow] BY <3>1, <3>5
        <3>8. prescreen' \in Seq(PrescreenRow) /\ Len(prescreen') = Len(prescreen)
            BY <3>6, <3>7, SeqDef
        <3> QED BY <3>1, <3>2, <3>4, <3>8
    <2>4. HistoryTyped' BY <2>1, <2>2, <2>3 DEF HistoryTyped
    <2>5. cleanup # History!Idle => cleanup.due \subseteq History!Recorded BY DEF HistoryTyped
    <2>6. cleanup.pc \in {"discovery", "select", "repairs"} => cleanup # History!Idle
        BY DEF History!Idle
    <2>7. pointer # 0 => pointer \in 1..Len(prescreen) BY DEF HistoryTyped
    <2> QED BY <2>1, <2>2, <2>3, <2>4, <2>5, <2>6, <2>7
        DEF History!LiveViewKept, DueWasOld, DeletedByStage, LiveNotSelected
<1>3. ASSUME NEW repair \in BOOLEAN, History!Publish(repair)
      PROVE  CleanupInv' /\ UNCHANGED <<log, age>>
    <2> DEFINE new == [repair |-> repair, old |-> FALSE, kept |-> TRUE]
    <2>1. UNCHANGED <<age, log, cleanup>> /\ prescreen' = Append(prescreen, new)
          /\ pointer' = Len(prescreen')
        BY <1>3 DEF History!Publish
    <2>2. new \in PrescreenRow /\ prescreen \in Seq(PrescreenRow) BY DEF HistoryTyped, PrescreenRow
    <2>3. /\ prescreen' \in Seq(PrescreenRow) /\ Len(prescreen') = Len(prescreen) + 1
          /\ prescreen'[Len(prescreen) + 1] = new
        BY <2>1, <2>2, AppendProperties
    <2>4. Len(prescreen) \in Nat BY <2>2
    <2>5. HistoryTyped' BY <2>1, <2>3, <2>4 DEF HistoryTyped
    <2>6. cleanup # History!Idle => cleanup.ids \subseteq 1..Len(prescreen) BY DEF HistoryTyped
    <2> QED BY <2>1, <2>3, <2>4, <2>5, <2>6
        DEF History!LiveViewKept, DueWasOld, DeletedByStage, LiveNotSelected
<1> QED
    <2>1. CASE \E repair \in BOOLEAN : History!Publish(repair) BY <2>1, <1>3
    <2>2. (\A i \in DOMAIN log : log'[i] = log[i]) 
          /\ \A r \in History!Recorded : age'[r] = "deleted" <=> age[r] = "deleted"
        BY <1>3 DEF History!Finish, History!Age, History!vars, HistoryTyped
    <2> QED BY <1>1, <1>2, <2>1, <2>2

\* What a step of the cleanup reports and deletes.
Honest ==
    /\ (\E i \in DOMAIN log : log[i].status # "completed" /\ log'[i].status = "completed")
         => \A r \in cleanup.due : age'[r] = "deleted"
    /\ \A r \in History!Recorded : age[r] # "deleted" /\ age'[r] = "deleted"
         => age[r] = "old" /\ r \in cleanup.due

LEMMA FinishedFacts ==
    ASSUME HistoryTyped, NEW status \in {"completed", "partial", "failed"},
           NEW main \in {"pending", "completed", "failed"},
           NEW discovery \in {"pending", "completed", "failed"},
           History!Finished(status, main, discovery)
    PROVE  /\ cleanup' = History!Idle
           /\ log' \in Seq(LogRow)
           /\ \A i \in DOMAIN log : log'[i] = log[i] \/ log'[i].status = status
<1> DEFINE row == [status |-> status, main |-> main, discovery |-> discovery]
<1>1. cleanup' = History!Idle /\ log' = [log EXCEPT ![Len(log)] = row]
    BY DEF History!Finished
<1>2. row \in LogRow /\ row.status = status BY DEF LogRow
<1>3. log \in Seq(LogRow) BY DEF HistoryTyped
<1>4. log' \in Seq(LogRow)
    <2>1. DOMAIN log = 1..Len(log) /\ Len(log) \in Nat BY <1>3, LenProperties
    <2>2. CASE Len(log) = 0
        <3>1. [log EXCEPT ![Len(log)] = row] = log BY <2>1, <2>2, <1>3
        <3> QED BY <3>1, <1>1, <1>3
    <2>3. CASE Len(log) # 0
        <3>1. Len(log) \in 1..Len(log) BY <2>1, <2>3
        <3> QED BY <3>1, <1>1, <1>2, <1>3, ExceptSeq
    <2> QED BY <2>2, <2>3
<1>5. \A i \in DOMAIN log : log'[i] = log[i] \/ log'[i] = row BY <1>1
<1> QED BY <1>1, <1>2, <1>4, <1>5

LEMMA DeleteFacts ==
    ASSUME HistoryTyped, NEW S, History!Delete(S)
    PROVE  /\ age' \in [History!Recorded -> {"running", "recent", "old", "deleted"}]
           /\ \A r \in History!Recorded : age'[r] = (IF r \in S THEN "deleted" ELSE age[r])
BY DEF History!Delete, HistoryTyped

\* The rows of a cleanup that is under way.
LEMMA UnderWay ==
    ASSUME HistoryTyped, cleanup.pc # "idle"
    PROVE  /\ cleanup # History!Idle
           /\ cleanup \in [pc : {"main", "discovery", "select", "repairs"},
                           due : SUBSET History!Recorded,
                           dueBatch : SUBSET (1..Len(prescreen)), ids : SUBSET (1..Len(prescreen))]
BY DEF HistoryTyped, History!Idle

LEMMA StartKeeps ==
    ASSUME CleanupInv, History!Start
    PROVE  CleanupInv' /\ Honest
<1> USE DEF CleanupInv
<1> DEFINE row == [status |-> "running", main |-> "pending", discovery |-> "pending"]
           due == History!Old(History!Recorded)
           dueBatch == {b \in DOMAIN prescreen : prescreen[b].old}
<1>1. /\ log' = Append(log, row) /\ UNCHANGED <<age, prescreen, pointer>>
      /\ cleanup' = [pc |-> "main", due |-> due, dueBatch |-> dueBatch, ids |-> {}]
    BY DEF History!Start
<1>2. row \in LogRow /\ log \in Seq(LogRow) BY DEF LogRow, HistoryTyped
<1>3. log' \in Seq(LogRow) /\ \A i \in 1..Len(log) : log'[i] = log[i]
    BY <1>1, <1>2, AppendProperties
<1>4. due \subseteq History!Recorded /\ \A r \in due : age[r] = "old" BY DEF History!Old
<1>5. dueBatch \subseteq 1..Len(prescreen)
    <2>1. prescreen \in Seq(PrescreenRow) BY DEF HistoryTyped
    <2> QED BY <2>1, LenProperties
<1>6. HistoryTyped' BY <1>1, <1>3, <1>4, <1>5 DEF HistoryTyped
<1>7. cleanup'.pc = "main" /\ cleanup'.due = due /\ cleanup'.ids = {} BY <1>1
<1>8. DueWasOld' /\ DeletedByStage' /\ LiveNotSelected' /\ (History!LiveViewKept)'
    BY <1>1, <1>4, <1>7 DEF DueWasOld, DeletedByStage, LiveNotSelected, History!LiveViewKept
<1>9. DOMAIN log = 1..Len(log) BY <1>2, LenProperties
<1>10. Honest BY <1>1, <1>3, <1>9 DEF Honest
<1> QED BY <1>6, <1>8, <1>10

\* A cleanup that ends leaves nothing to keep but the live batch.
LEMMA EndKeeps ==
    ASSUME CleanupInv, cleanup' = History!Idle, log' \in Seq(LogRow),
           age' \in [History!Recorded -> {"running", "recent", "old", "deleted"}],
           prescreen' \in Seq(PrescreenRow), Len(prescreen') = Len(prescreen), pointer' = pointer,
           pointer # 0 => prescreen'[pointer].kept
    PROVE  CleanupInv'
<1>1. HistoryTyped' BY DEF CleanupInv, HistoryTyped
<1> QED BY <1>1 DEF CleanupInv, History!LiveViewKept, DueWasOld, DeletedByStage,
        LiveNotSelected, History!Idle

LEMMA CleanMainKeeps ==
    ASSUME CleanupInv, History!CleanMain
    PROVE  CleanupInv' /\ Honest
<1> USE DEF CleanupInv
<1> DEFINE Ages == {"running", "recent", "old", "deleted"}
<1>w. cleanup # History!Idle /\ cleanup.pc = "main" /\ cleanup.due \subseteq History!Recorded
    BY UnderWay DEF History!CleanMain
<1>l. /\ age \in [History!Recorded -> Ages] /\ prescreen \in Seq(PrescreenRow)
      /\ log \in Seq(LogRow)
      /\ pointer # 0 => prescreen[pointer].kept
    BY DEF HistoryTyped, History!LiveViewKept
<1>p. UNCHANGED <<prescreen, pointer>> BY DEF History!CleanMain
<1>d. ASSUME History!Delete(cleanup.due \cap MainRow)
      PROVE  /\ age' \in [History!Recorded -> Ages]
             /\ \A r \in History!Recorded :
                  age'[r] = (IF r \in cleanup.due \cap MainRow THEN "deleted" ELSE age[r])
             /\ \A r \in History!Recorded : age[r] # "deleted" /\ age'[r] = "deleted"
                  => age[r] = "old" /\ r \in cleanup.due
    BY <1>d, <1>w, DeleteFacts DEF DueWasOld
<1>1. CASE /\ History!Delete(cleanup.due \cap MainRow)
           /\ log' = [log EXCEPT ![Len(log)].main = "completed"]
           /\ cleanup' = [cleanup EXCEPT !.pc = "discovery"]
    <2>1. /\ log' \in Seq(LogRow) /\ \A i \in DOMAIN log : log'[i].status = log[i].status
        <3> DEFINE row == [log[Len(log)] EXCEPT !.main = "completed"]
        <3>1. log' = [log EXCEPT ![Len(log)] = row] BY <1>1
        <3>2. Len(log) \in Nat /\ log \in [1..Len(log) -> LogRow] BY <1>l, LenProperties
        <3>3. Len(log) # 0 => log[Len(log)] \in LogRow BY <3>2
        <3>4. Len(log) # 0 => row \in LogRow /\ row.status = log[Len(log)].status
            BY <3>3 DEF LogRow
        <3> HIDE DEF row
        <3>5. log' \in [1..Len(log) -> LogRow]
            <4>1. CASE Len(log) = 0
                <5>1. Len(log) \notin 1..Len(log) BY <4>1
                <5>2. log' = log BY <3>1, <3>2, <5>1
                <5> QED BY <3>2, <5>2
            <4>2. CASE Len(log) # 0
                <5>1. row \in LogRow BY <3>4, <4>2
                <5> QED BY <3>1, <3>2, <5>1
            <4> QED BY <4>1, <4>2
        <3>6. \A i \in 1..Len(log) : log'[i] = IF i = Len(log) THEN row ELSE log[i]
            BY <3>1, <3>2
        <3>7. log' \in Seq(LogRow) BY <3>2, <3>5, SeqDef
        <3>8. \A i \in 1..Len(log) : Len(log) # 0 BY <3>2
        <3>9. \A i \in 1..Len(log) : log'[i].status = log[i].status BY <3>4, <3>6, <3>8
        <3>10. DOMAIN log = 1..Len(log) BY <3>2
        <3> QED BY <3>7, <3>9, <3>10
    <2>2. cleanup' # History!Idle /\ cleanup'.pc = "discovery" /\ cleanup'.due = cleanup.due
          /\ cleanup'.ids = cleanup.ids
        BY <1>1, UnderWay, <1>w DEF History!Idle
    <2>3. HistoryTyped' BY <1>1, <1>d, <1>p, <1>w, <2>1, UnderWay DEF HistoryTyped
    <2>4. DueWasOld' BY <1>1, <1>d, <1>w, <2>2 DEF DueWasOld
    <2>5. DeletedByStage' BY <1>1, <1>d, <1>w, <2>2 DEF DeletedByStage
    <2>6. LiveNotSelected' /\ (History!LiveViewKept)'
        BY <1>w, <1>p, <2>2 DEF LiveNotSelected, History!LiveViewKept
    <2>7. Honest BY <1>1, <1>d, <2>1 DEF Honest
    <2> QED BY <2>3, <2>4, <2>5, <2>6, <2>7
<1>2. CASE /\ History!Delete(cleanup.due \cap MainRow)
           /\ History!Finished("failed", "completed", "pending")
    <2>1. cleanup' = History!Idle /\ log' \in Seq(LogRow)
          /\ \A i \in DOMAIN log : log'[i] = log[i] \/ log'[i].status = "failed"
        BY <1>2, FinishedFacts
    <2>2. CleanupInv' BY <1>2, <1>d, <1>l, <1>p, <2>1, EndKeeps
    <2>3. Honest BY <1>2, <1>d, <2>1 DEF Honest
    <2> QED BY <2>2, <2>3
<1>3. CASE UNCHANGED age /\ History!Finished("failed", "failed", "pending")
    <2>1. cleanup' = History!Idle /\ log' \in Seq(LogRow)
          /\ \A i \in DOMAIN log : log'[i] = log[i] \/ log'[i].status = "failed"
        BY <1>3, FinishedFacts
    <2>2. CleanupInv' BY <1>3, <1>l, <1>p, <2>1, EndKeeps
    <2>3. Honest BY <1>3, <1>p, <2>1 DEF Honest
    <2> QED BY <2>2, <2>3
<1> QED BY <1>1, <1>2, <1>3 DEF History!CleanMain

LEMMA CleanDiscoveryKeeps ==
    ASSUME CleanupInv, History!CleanDiscovery
    PROVE  CleanupInv' /\ Honest
<1> USE DEF CleanupInv
<1> DEFINE Ages == {"running", "recent", "old", "deleted"}
<1>w. cleanup # History!Idle /\ cleanup.pc = "discovery" /\ cleanup.due \subseteq History!Recorded
    BY UnderWay DEF History!CleanDiscovery
<1>l. /\ age \in [History!Recorded -> Ages] /\ prescreen \in Seq(PrescreenRow)
      /\ log \in Seq(LogRow)
      /\ pointer # 0 => prescreen[pointer].kept
    BY DEF HistoryTyped, History!LiveViewKept
<1>p. UNCHANGED <<prescreen, pointer>> BY DEF History!CleanDiscovery
<1>1. CASE /\ History!Delete(cleanup.due \cap DiscoveryRow)
           /\ cleanup' = [cleanup EXCEPT !.pc = "select"] /\ UNCHANGED log
    <2>1. /\ age' \in [History!Recorded -> Ages]
          /\ \A r \in History!Recorded :
               age'[r] = (IF r \in cleanup.due \cap DiscoveryRow THEN "deleted" ELSE age[r])
          /\ \A r \in History!Recorded : age[r] # "deleted" /\ age'[r] = "deleted"
               => age[r] = "old" /\ r \in cleanup.due
        BY <1>1, <1>w, DeleteFacts DEF DueWasOld
    <2>2. cleanup' # History!Idle /\ cleanup'.pc = "select" /\ cleanup'.due = cleanup.due
          /\ cleanup'.ids = cleanup.ids
        BY <1>1, UnderWay, <1>w DEF History!Idle
    <2>3. HistoryTyped' BY <1>1, <1>p, <1>w, <2>1, UnderWay DEF HistoryTyped
    <2>4. DueWasOld' BY <1>w, <2>1, <2>2 DEF DueWasOld
    <2>5. DeletedByStage' BY <1>w, <2>1, <2>2 DEF DeletedByStage
    <2>6. LiveNotSelected' /\ (History!LiveViewKept)'
        BY <1>w, <1>p, <2>2 DEF LiveNotSelected, History!LiveViewKept
    <2>7. Honest BY <1>1, <2>1 DEF Honest
    <2> QED BY <2>3, <2>4, <2>5, <2>6, <2>7
<1>2. CASE UNCHANGED age /\ History!Finished("partial", "completed", "failed")
    <2>1. cleanup' = History!Idle /\ log' \in Seq(LogRow)
          /\ \A i \in DOMAIN log : log'[i] = log[i] \/ log'[i].status = "partial"
        BY <1>2, FinishedFacts
    <2>2. CleanupInv' BY <1>2, <1>l, <1>p, <2>1, EndKeeps
    <2>3. Honest BY <1>2, <1>p, <2>1 DEF Honest
    <2> QED BY <2>2, <2>3
<1> QED BY <1>1, <1>2 DEF History!CleanDiscovery

LEMMA SelectKeeps ==
    ASSUME CleanupInv, History!SelectRepairs
    PROVE  CleanupInv' /\ Honest
<1> USE DEF CleanupInv
<1>w. cleanup # History!Idle /\ cleanup.pc = "select"
    BY UnderWay DEF History!SelectRepairs
<1>l. /\ age \in [History!Recorded -> {"running", "recent", "old", "deleted"}]
      /\ prescreen \in Seq(PrescreenRow) /\ log \in Seq(LogRow)
      /\ pointer # 0 => prescreen[pointer].kept
    BY DEF HistoryTyped, History!LiveViewKept
<1>p. UNCHANGED <<age, prescreen, pointer>> BY DEF History!SelectRepairs
<1>1. CASE cleanup' = [cleanup EXCEPT !.pc = "repairs", !.ids = History!Superseded] /\ UNCHANGED log
    <2>1. History!Superseded \subseteq 1..Len(prescreen) /\ pointer \notin History!Superseded
        BY UnderWay, <1>w DEF History!Superseded, HistoryTyped
    <2>2. /\ cleanup' # History!Idle /\ cleanup'.pc = "repairs" /\ cleanup'.due = cleanup.due
          /\ cleanup'.ids = History!Superseded
        BY <1>1, UnderWay, <1>w DEF History!Idle
    <2>3. HistoryTyped' BY <1>1, <1>p, <1>w, <2>1, UnderWay DEF HistoryTyped
    <2> QED BY <1>1, <1>w, <1>p, <2>1, <2>2, <2>3
        DEF DueWasOld, DeletedByStage, LiveNotSelected, History!LiveViewKept, Honest
<1>2. CASE History!Finished("partial", "completed", "failed")
    <2>1. cleanup' = History!Idle /\ log' \in Seq(LogRow)
          /\ \A i \in DOMAIN log : log'[i] = log[i] \/ log'[i].status = "partial"
        BY <1>2, FinishedFacts
    <2>2. CleanupInv' BY <1>2, <1>l, <1>p, <2>1, EndKeeps
    <2>3. Honest BY <1>2, <1>p, <2>1 DEF Honest
    <2> QED BY <2>2, <2>3
<1> QED BY <1>1, <1>2 DEF History!SelectRepairs

LEMMA DeleteKeeps ==
    ASSUME CleanupInv, History!DeleteRepairs \/ History!Crash
    PROVE  CleanupInv' /\ Honest
<1> USE DEF CleanupInv
<1>l. /\ age \in [History!Recorded -> {"running", "recent", "old", "deleted"}]
      /\ prescreen \in Seq(PrescreenRow) /\ log \in Seq(LogRow)
      /\ pointer # 0 => prescreen[pointer].kept
    BY DEF HistoryTyped, History!LiveViewKept
<1>p. UNCHANGED <<age, pointer>> BY DEF History!DeleteRepairs, History!Crash
<1>1. CASE /\ cleanup.pc = "repairs"
           /\ prescreen' = [b \in DOMAIN prescreen |->
                IF b \in cleanup.ids THEN [prescreen[b] EXCEPT !.kept = FALSE] ELSE prescreen[b]]
           /\ History!Finished("completed", "completed", "completed")
    <2>1. cleanup' = History!Idle /\ log' \in Seq(LogRow) BY <1>1, FinishedFacts
    <2>2. /\ prescreen' \in Seq(PrescreenRow) /\ Len(prescreen') = Len(prescreen)
          /\ \A b \in 1..Len(prescreen) : b \notin cleanup.ids => prescreen'[b] = prescreen[b]
        <3> DEFINE f == [b \in DOMAIN prescreen |->
                IF b \in cleanup.ids THEN [prescreen[b] EXCEPT !.kept = FALSE] ELSE prescreen[b]]
        <3>1. DOMAIN prescreen = 1..Len(prescreen) /\ Len(prescreen) \in Nat
            BY <1>l, LenProperties
        <3>2. \A b \in 1..Len(prescreen) : prescreen[b] \in PrescreenRow BY <1>l, ElementOfSeq
        <3>3. \A b \in 1..Len(prescreen) : [prescreen[b] EXCEPT !.kept = FALSE] \in PrescreenRow
            BY <3>2 DEF PrescreenRow
        <3>4. f \in [1..Len(prescreen) -> PrescreenRow] BY <3>1, <3>2, <3>3
        <3>5. prescreen' \in Seq(PrescreenRow) /\ Len(prescreen') = Len(prescreen)
            BY <1>1, <3>1, <3>4, SeqDef
        <3> QED BY <1>1, <3>1, <3>5
    <2>3. pointer # 0 => prescreen'[pointer] = prescreen[pointer]
        BY <1>1, <2>2, UnderWay DEF LiveNotSelected, HistoryTyped
    <2>4. CleanupInv' BY <1>l, <1>p, <2>1, <2>2, <2>3, EndKeeps
    <2>5. \A r \in cleanup.due : age[r] = "deleted"
        BY <1>1, UnderWay DEF DeletedByStage, History!Recorded
    <2> QED BY <1>p, <2>4, <2>5 DEF Honest
<1>2. CASE UNCHANGED prescreen /\ History!Finished("partial", "completed", "failed")
    <2>1. cleanup' = History!Idle /\ log' \in Seq(LogRow)
          /\ \A i \in DOMAIN log : log'[i] = log[i] \/ log'[i].status = "partial"
        BY <1>2, FinishedFacts
    <2>2. CleanupInv' BY <1>2, <1>l, <1>p, <2>1, EndKeeps
    <2>3. Honest BY <1>2, <1>p, <2>1 DEF Honest
    <2> QED BY <2>2, <2>3
<1>3. CASE History!Crash
    BY <1>3, <1>l, EndKeeps DEF History!Crash, Honest
<1> QED BY <1>1, <1>2, <1>3 DEF History!DeleteRepairs

LEMMA CleanupStep ==
    ASSUME CleanupInv, [History!Next]_History!vars
    PROVE  CleanupInv' /\ Honest
<1>1. CASE \/ \E r \in History!Recorded : History!Finish(r)
           \/ History!Age
           \/ \E repair \in BOOLEAN : History!Publish(repair)
           \/ UNCHANGED History!vars
    BY <1>1, WorldKeeps DEF Honest
<1> QED BY <1>1, StartKeeps, CleanMainKeeps, CleanDiscoveryKeeps, SelectKeeps, DeleteKeeps
    DEF History!Next

\* The batch the live view is built from is never cleaned, whatever is published
\* between the selection and the deletion, and a cleanup that reports success
\* left nothing of what was due when it began and deleted nothing else.
THEOREM LiveKept == History!Spec => [](History!TypeOK /\ History!LiveViewKept)
<1>1. CleanupInv /\ [History!Next]_History!vars => CleanupInv' BY CleanupStep
<1>2. CleanupInv => History!TypeOK
    <2> SUFFICES ASSUME CleanupInv PROVE History!TypeOK OBVIOUS
    <2>1. \A i \in DOMAIN log : log[i].status \in {"running", "completed", "partial", "failed"}
        <3>1. log \in [1..Len(log) -> LogRow] BY LenProperties DEF CleanupInv, HistoryTyped
        <3> QED BY <3>1 DEF LogRow
    <2> QED BY <2>1 DEF CleanupInv, HistoryTyped, History!TypeOK, History!Idle
<1>3. CleanupInv => History!LiveViewKept BY DEF CleanupInv
<1> QED BY <1>1, <1>2, <1>3, HistoryStarts, PTL DEF History!Spec

\* The run's property of the cleanup.
THEOREM RetentionKept == Operations => CleanupKeeps
<1>1. OperationsInit => History!Init BY PartsStart
<1>2. [OperationsNext]_all => [History!Next]_History!vars
    BY PartsStep DEF History!vars, cleanupVars
<1>3. Operations => History!Spec BY <1>1, <1>2, PTL DEF Operations, History!Spec, all
<1>4. CleanupInv /\ [History!Next]_History!vars => CleanupInv' BY CleanupStep
<1>5. CleanupInv /\ [History!Next]_History!vars =>
        [ /\ (\E i \in DOMAIN log : log[i].status # "completed" /\ log'[i].status = "completed")
               => \A r \in cleanup.due : age'[r] = "deleted"
          /\ \A r \in History!Recorded : age[r] # "deleted" /\ age'[r] = "deleted"
               => age[r] = "old" /\ r \in cleanup.due ]_History!vars
    BY CleanupStep DEF Honest
<1>6. History!Spec => History!CleanupHonest
    BY <1>4, <1>5, HistoryStarts, PTL DEF History!Spec, History!CleanupHonest
<1>7. History!TypeOK /\ History!LiveViewKept
        => (part = "cleanup" => History!TypeOK /\ History!LiveViewKept)
    OBVIOUS
<1> QED BY <1>3, <1>6, <1>7, LiveKept, PTL DEF CleanupKeeps

-----------------------------------------------------------------------------
(* The alerts.  A call under way has, for every target it saw in a state   *)
(* one may act on, told that state already or still has it to tell; it     *)
(* stores what it saw only when nothing is left to tell.                   *)

AlertNumbers ==
    /\ Target \in SUBSET Nat /\ IsFiniteSet(Target)
    /\ MaxPerRun \in Nat /\ MaxDate \in Nat \ {0}

AlertKey == Target \X Alerts!Actionable \X (1..MaxDate)
Closing == [status : Alerts!Status, date : 1..MaxDate]
Call == [pc : {"inbox", "persist", "deliver"}, todo : Seq(AlertKey),
         seen : [Target -> Closing], deliver : BOOLEAN]

AlertsTyped ==
    /\ market \in [Target -> Closing]
    /\ stored \in [Target -> Alerts!Status]
    /\ DOMAIN inbox \subseteq AlertKey /\ inbox \in [DOMAIN inbox -> BOOLEAN]
    /\ run \in [Runner -> {Alerts!Idle} \cup Call]

Told(t, status) ==
    \/ <<t, status>> \in silent
    \/ \E d \in 1..MaxDate : <<t, status, d>> \in DOMAIN inbox

ToldOrToTell ==
    \A r \in Runner : run[r] # Alerts!Idle =>
        \A t \in Target : run[r].seen[t].status \in Alerts!Actionable =>
            \/ Told(t, run[r].seen[t].status)
            \/ /\ run[r].pc = "inbox"
               /\ \E i \in 1..Len(run[r].todo) :
                    run[r].todo[i] = Alerts!EventKey(t, run[r].seen[t])

AlertsInv == AlertsTyped /\ Alerts!StoredIsTold /\ ToldOrToTell

LEMMA OneCardinality == \A S : Alerts!Cardinality(S) = Cardinality(S)
BY Zenon DEF Alerts!Cardinality, Cardinality

\* The events of a call are ranked without gaps, so that each of the first ones
\* names a target (the sort of tradeSetupEvents).
LEMMA Ranked ==
    ASSUME AlertNumbers, NEW i \in 1..Cardinality(Alerts!Eligible)
    PROVE  \E t \in Alerts!Eligible : Alerts!Turn(t) = i
<1> DEFINE E == Alerts!Eligible
           Pri(t) == Alerts!Priority(market[t].status)
           Upto(t) == {u \in E : Pri(u) < Pri(t) \/ (Pri(u) = Pri(t) /\ u <= t)}
           turn == [t \in E |-> Alerts!Turn(t)]
<1>1. E \subseteq Target /\ IsFiniteSet(E)
    <2>1. E \subseteq Target BY DEF Alerts!Eligible
    <2> QED BY <2>1, FS_Subset DEF AlertNumbers
<1>2. \A t \in E : t \in Nat BY <1>1 DEF AlertNumbers
<1>3. \A t \in E : Pri(t) \in Nat BY DEF Alerts!Priority
<1>4. \A t \in E : Alerts!Turn(t) = Cardinality(Upto(t)) BY OneCardinality DEF Alerts!Turn
<1> HIDE DEF Pri, E
<1>5. \A t \in E : Upto(t) \subseteq E /\ t \in Upto(t) BY <1>2, <1>3
<1>6. \A t \in E : IsFiniteSet(Upto(t)) /\ Cardinality(Upto(t)) \in 1..Cardinality(E)
    <2> SUFFICES ASSUME NEW t \in E
                 PROVE  IsFiniteSet(Upto(t)) /\ Cardinality(Upto(t)) \in 1..Cardinality(E)
        OBVIOUS
    <2>1. Upto(t) \in SUBSET E /\ {t} \in SUBSET Upto(t) BY <1>5
    <2>2. IsFiniteSet(Upto(t)) /\ Cardinality(Upto(t)) <= Cardinality(E)
        BY <1>1, <2>1, FS_Subset
    <2>3. Cardinality({t}) = 1 BY FS_Singleton
    <2>4. 1 <= Cardinality(Upto(t)) BY <2>1, <2>2, <2>3, FS_Subset
    <2>5. Cardinality(E) \in Nat /\ Cardinality(Upto(t)) \in Nat
        BY <1>1, <2>2, FS_CardinalityType
    <2> QED BY <2>2, <2>4, <2>5
<1>7. ASSUME NEW t \in E, NEW v \in E, t # v PROVE Alerts!Turn(t) # Alerts!Turn(v)
    <2>1. ASSUME NEW a \in E, NEW b \in E, Upto(a) \subseteq Upto(b), b \notin Upto(a)
          PROVE  Alerts!Turn(a) # Alerts!Turn(b)
        <3>1. Upto(a) # Upto(b) BY <1>5, <2>1
        <3>2. Cardinality(Upto(a)) # Cardinality(Upto(b)) BY <1>6, <2>1, <3>1, FS_Subset
        <3> QED BY <1>4, <3>2
    <2>2. CASE Pri(t) < Pri(v) \/ (Pri(t) = Pri(v) /\ t < v)
        <3>1. Upto(t) \subseteq Upto(v) BY <1>2, <1>3, <2>2
        <3>2. v \notin Upto(t) BY <1>2, <1>3, <2>2
        <3> QED BY <2>1, <3>1, <3>2
    <2>3. CASE Pri(v) < Pri(t) \/ (Pri(v) = Pri(t) /\ v < t)
        <3>1. Upto(v) \subseteq Upto(t) BY <1>2, <1>3, <2>3
        <3>2. t \notin Upto(v) BY <1>2, <1>3, <2>3
        <3> QED BY <2>1, <3>1, <3>2
    <2> QED BY <1>2, <1>3, <1>7, <2>2, <2>3
<1>8. turn \in Injection(E, 1..Cardinality(E))
    <2>1. turn \in [E -> 1..Cardinality(E)] BY <1>4, <1>6
    <2>2. \A a, b \in E : turn[a] = turn[b] => a = b BY <1>7
    <2> QED BY <2>1, <2>2 DEF Injection, IsInjective
<1>9. Cardinality(E) \in Nat BY <1>1, FS_CardinalityType
<1>10. /\ IsFiniteSet(1..Cardinality(E))
       /\ Cardinality(1..Cardinality(E)) = Cardinality(E)
    BY <1>9, FS_Interval
<1>11. turn \in Surjection(E, 1..Cardinality(E)) BY <1>8, <1>10, FS_Injection
<1>12. PICK t \in E : turn[t] = i BY <1>11 DEF Surjection, E
<1> QED BY <1>12 DEF E

LEMMA EventsTyped ==
    ASSUME AlertNumbers, AlertsTyped
    PROVE  Alerts!Events \in Seq(AlertKey)
<1> DEFINE E == Alerts!Eligible
           n == IF Cardinality(E) < MaxPerRun THEN Cardinality(E) ELSE MaxPerRun
           chosen(i) == CHOOSE u \in E : Alerts!Turn(u) = i
<1>1. E \subseteq Target /\ Cardinality(E) \in Nat
    <2>1. E \subseteq Target BY DEF Alerts!Eligible
    <2> QED BY <2>1, FS_Subset, FS_CardinalityType DEF AlertNumbers
<1>2. n \in Nat /\ n <= Cardinality(E) BY <1>1 DEF AlertNumbers
<1>3. ASSUME NEW i \in 1..n
      PROVE  Alerts!EventKey(chosen(i), market[chosen(i)]) \in AlertKey
    <2>1. \E u \in E : Alerts!Turn(u) = i BY <1>1, <1>2, Ranked
    <2>2. chosen(i) \in E BY <2>1
    <2> HIDE DEF chosen
    <2>3. chosen(i) \in Target /\ market[chosen(i)].status \in Alerts!Actionable
        BY <2>2 DEF Alerts!Eligible
    <2>4. market[chosen(i)].date \in 1..MaxDate BY <2>3 DEF AlertsTyped, Closing
    <2> QED BY <2>3, <2>4 DEF AlertKey, Alerts!EventKey
<1>4. Alerts!Events = [i \in 1..n |-> Alerts!EventKey(chosen(i), market[chosen(i)])]
    BY OneCardinality DEF Alerts!Events
<1> HIDE DEF n, chosen
<1>5. Alerts!Events \in [1..n -> AlertKey] BY <1>3, <1>4
<1> QED BY <1>2, <1>5, SeqDef

LEMMA AlertsStart == AlertNumbers /\ Alerts!Init => AlertsInv
<1> SUFFICES ASSUME AlertNumbers, Alerts!Init PROVE AlertsInv OBVIOUS
<1>1. inbox = << >> /\ DOMAIN inbox = {} BY DEF Alerts!Init
<1>2. market \in [Target -> Closing] /\ stored \in [Target -> Alerts!Status]
    BY DEF Alerts!Init, AlertNumbers, Closing, Alerts!Status
<1>3. AlertsTyped BY <1>1, <1>2 DEF Alerts!Init, AlertsTyped
<1>4. \A t \in Target : stored[t] \notin Alerts!Actionable
    BY DEF Alerts!Init, Alerts!Actionable, Alerts!Unavailable
<1>5. \A r \in Runner : run[r] = Alerts!Idle BY DEF Alerts!Init
<1> QED BY <1>3, <1>4, <1>5 DEF AlertsInv, Alerts!StoredIsTold, ToldOrToTell

\* The inbox and what may be stored silently only grow.
TellingGrows ==
    /\ DOMAIN inbox \subseteq DOMAIN inbox' /\ silent \subseteq silent'
    /\ \A k \in DOMAIN inbox : inbox[k] => inbox'[k]

LEMMA ToldStays ==
    ASSUME TellingGrows, NEW t, NEW status, Told(t, status)
    PROVE  Told(t, status)'
BY DEF TellingGrows, Told

LEMMA StoredStays ==
    ASSUME AlertsInv, TellingGrows, stored' = stored
    PROVE  Alerts!StoredIsTold'
BY ToldStays DEF AlertsInv, Alerts!StoredIsTold, Told

\* Closes, switches and reading touch no call.
LEMMA OthersKeep ==
    ASSUME AlertNumbers, AlertsInv,
           \/ \E t \in Target : Alerts!Close(t)
           \/ Alerts!Configure
           \/ \E S \in SUBSET DOMAIN inbox : Alerts!Read(S)
           \/ UNCHANGED Alerts!vars
    PROVE  AlertsInv' /\ TellingGrows
<1>1. UNCHANGED <<stored, run, silent>>
    BY DEF Alerts!Close, Alerts!Configure, Alerts!Read, Alerts!vars
<1>2. market' \in [Target -> Closing]
    <2>1. CASE \E t \in Target : Alerts!Close(t)
        <3>1. PICK t \in Target, s \in Alerts!Status :
                 /\ market[t].date < MaxDate
                 /\ market' = [market EXCEPT ![t] = [status |-> s, date |-> @.date + 1]]
            BY <2>1 DEF Alerts!Close
        <3>2. market[t].date \in 1..MaxDate BY DEF AlertsInv, AlertsTyped, Closing
        <3>3. [status |-> s, date |-> market[t].date + 1] \in Closing
            BY <3>1, <3>2 DEF Closing, AlertNumbers
        <3> QED BY <3>1, <3>3 DEF AlertsInv, AlertsTyped
    <2>2. CASE market' = market BY <2>2 DEF AlertsInv, AlertsTyped
    <2> QED BY <2>1, <2>2 DEF Alerts!Configure, Alerts!Read, Alerts!vars
<1>3. /\ DOMAIN inbox' = DOMAIN inbox /\ inbox' \in [DOMAIN inbox' -> BOOLEAN]
      /\ \A k \in DOMAIN inbox : inbox[k] => inbox'[k]
    <2>1. inbox \in [DOMAIN inbox -> BOOLEAN] BY DEF AlertsInv, AlertsTyped
    <2>2. CASE \E S \in SUBSET DOMAIN inbox : Alerts!Read(S)
        <3>1. PICK S \in SUBSET DOMAIN inbox :
                 inbox' = [k \in DOMAIN inbox |-> inbox[k] \/ k \in S]
            BY <2>2 DEF Alerts!Read
        <3> QED BY <3>1
    <2>3. CASE inbox' = inbox BY <2>1, <2>3
    <2> QED BY <2>2, <2>3 DEF Alerts!Close, Alerts!Configure, Alerts!vars
<1>4. TellingGrows BY <1>1, <1>3 DEF TellingGrows
<1>5. AlertsTyped' BY <1>1, <1>2, <1>3 DEF AlertsInv, AlertsTyped
<1>6. Alerts!StoredIsTold' BY <1>1, <1>4, StoredStays
<1>7. ToldOrToTell'
    BY <1>1, <1>4, ToldStays DEF AlertsInv, ToldOrToTell
<1> QED BY <1>4, <1>5, <1>6, <1>7 DEF AlertsInv

LEMMA PreviewKeeps ==
    ASSUME AlertNumbers, AlertsInv, NEW r \in Runner, Alerts!Preview(r)
    PROVE  AlertsInv' /\ TellingGrows
<1> DEFINE untold(t) == /\ market[t].status \in Alerts!Actionable /\ Alerts!Reason(t) # "unchanged"
                        /\ Alerts!EventKey(t, market[t])
                              \notin {Alerts!Events[i] : i \in DOMAIN Alerts!Events}
           call == [pc |-> "inbox", todo |-> Alerts!Events, seen |-> market,
                    deliver |-> settings.mode = "on" /\ Alerts!Events # << >>]
<1>1. UNCHANGED <<market, stored, inbox>> BY DEF Alerts!Preview
<1>2. run' = [run EXCEPT ![r] = call]
    BY DEF Alerts!Preview, Alerts!Looked
<1>3. silent' = silent \cup {<<t, market[t].status>> : t \in {u \in Target : untold(u)}}
    BY DEF Alerts!Preview, Alerts!Looked
<1>4. Alerts!Events \in Seq(AlertKey) BY EventsTyped DEF AlertsInv
<1>5. market \in [Target -> Closing] BY DEF AlertsInv, AlertsTyped
<1>6. call \in Call BY <1>4, <1>5 DEF Call
<1>7. AlertsTyped' BY <1>1, <1>2, <1>6 DEF AlertsInv, AlertsTyped
<1>8. TellingGrows BY <1>1, <1>3 DEF TellingGrows
<1>9. Alerts!StoredIsTold' BY <1>1, <1>8, StoredStays
<1>10. ASSUME NEW t \in Target, market[t].status \in Alerts!Actionable
       PROVE  \/ Told(t, market[t].status)'
              \/ \E i \in 1..Len(Alerts!Events) :
                    Alerts!Events[i] = Alerts!EventKey(t, market[t])
    <2>1. CASE Alerts!Reason(t) = "unchanged"
        <3>1. stored[t] = market[t].status BY <2>1 DEF Alerts!Reason
        <3>2. Told(t, market[t].status) BY <1>10, <3>1 DEF AlertsInv, Alerts!StoredIsTold, Told
        <3> QED BY <1>1, <1>8, <3>2 DEF Told, TellingGrows
    <2>2. CASE untold(t)
        <3>1. <<t, market[t].status>> \in silent' BY <1>3, <2>2
        <3> QED BY <1>1, <3>1 DEF Told
    <2>3. CASE \E i \in DOMAIN Alerts!Events : Alerts!Events[i] = Alerts!EventKey(t, market[t])
        <3>1. DOMAIN Alerts!Events = 1..Len(Alerts!Events) BY <1>4, LenProperties
        <3> QED BY <2>3, <3>1
    <2> QED BY <1>10, <2>1, <2>2, <2>3
<1>11. ToldOrToTell'
    <2> SUFFICES ASSUME NEW q \in Runner, run'[q] # Alerts!Idle, NEW t \in Target,
                        run'[q].seen[t].status \in Alerts!Actionable
                 PROVE  \/ Told(t, run[q].seen[t].status)'
                        \/ /\ run'[q].pc = "inbox"
                           /\ \E i \in 1..Len(run'[q].todo) :
                                run'[q].todo[i] = Alerts!EventKey(t, run'[q].seen[t])
        BY Zenon DEF ToldOrToTell, Alerts!EventKey
    <2>1. CASE q = r
        <3>1. run'[q] = call BY <1>2, <2>1 DEF AlertsInv, AlertsTyped
        <3>2. /\ run'[q].pc = "inbox" /\ run'[q].todo = Alerts!Events
              /\ run'[q].seen = market
            BY <3>1
        <3> QED BY <1>1, <1>10, <3>2 DEF Told
    <2>2. CASE q # r
        <3>1. run'[q] = run[q] BY <1>2, <2>2 DEF AlertsInv, AlertsTyped
        <3>2. \/ Told(t, run[q].seen[t].status)
              \/ /\ run[q].pc = "inbox"
                 /\ \E i \in 1..Len(run[q].todo) :
                      run[q].todo[i] = Alerts!EventKey(t, run[q].seen[t])
            BY <3>1 DEF AlertsInv, ToldOrToTell
        <3> QED BY <1>8, <3>1, <3>2 DEF Told, TellingGrows
    <2> QED BY <2>1, <2>2
<1> QED BY <1>7, <1>8, <1>9, <1>11 DEF AlertsInv

\* The first event is written, found there already, or its source is off.
LEMMA CreateKeeps ==
    ASSUME AlertNumbers, AlertsInv, NEW r \in Runner, Alerts!CreateInApp(r)
    PROVE  AlertsInv' /\ TellingGrows
<1>1. UNCHANGED <<market, stored>> /\ run[r].pc = "inbox" /\ Alerts!InAppStep(r)
    BY DEF Alerts!CreateInApp
<1>2. run[r] \in Call BY <1>1 DEF AlertsInv, AlertsTyped, Alerts!Idle
<1>5. run[r] # Alerts!Idle BY <1>1 DEF Alerts!Idle
<1>3. CASE run[r].todo = << >>
    <2>1. run' = [run EXCEPT ![r].pc = "persist"] /\ UNCHANGED <<inbox, silent>>
        BY <1>1, <1>3 DEF Alerts!InAppStep
    <2>2. [run[r] EXCEPT !.pc = "persist"] \in Call BY <1>2 DEF Call
    <2>3. AlertsTyped' BY <1>1, <2>1, <2>2 DEF AlertsInv, AlertsTyped
    <2>4. TellingGrows BY <2>1 DEF TellingGrows
    <2>5. Alerts!StoredIsTold' BY <1>1, <2>4, StoredStays
    <2>6. Len(run[r].todo) = 0 BY <1>3
    <2>7. \A q \in Runner : /\ q # r => run'[q] = run[q]
                            /\ q = r => run'[q] = [run[q] EXCEPT !.pc = "persist"]
        BY <2>1 DEF AlertsInv, AlertsTyped
    <2>8. run'[r].seen = run[r].seen BY <1>2, <2>7 DEF Call
    <2>9. \A t \in Target : run[r].seen[t].status \in Alerts!Actionable
              => Told(t, run[r].seen[t].status)
        BY <1>5, <2>6 DEF AlertsInv, ToldOrToTell
    <2>11. ToldOrToTell'
        <3> SUFFICES ASSUME NEW q \in Runner, run'[q] # Alerts!Idle, NEW t \in Target,
                            run'[q].seen[t].status \in Alerts!Actionable
                     PROVE  \/ Told(t, run[q].seen[t].status)'
                            \/ /\ run'[q].pc = "inbox"
                               /\ \E i \in 1..Len(run'[q].todo) :
                                    run'[q].todo[i] = Alerts!EventKey(t, run'[q].seen[t])
            BY Zenon DEF ToldOrToTell, Alerts!EventKey
        <3>1. CASE q = r BY <2>1, <2>8, <2>9, <3>1 DEF Told
        <3>2. CASE q # r
            <4>1. run'[q] = run[q] BY <2>7, <3>2
            <4>2. \/ Told(t, run[q].seen[t].status)
                  \/ /\ run[q].pc = "inbox"
                     /\ \E i \in 1..Len(run[q].todo) :
                          run[q].todo[i] = Alerts!EventKey(t, run[q].seen[t])
                BY <4>1 DEF AlertsInv, ToldOrToTell
            <4> QED BY <2>4, <4>1, <4>2 DEF Told, TellingGrows
        <3> QED BY <3>1, <3>2
    <2> QED BY <2>3, <2>4, <2>5, <2>11 DEF AlertsInv
<1>4. CASE run[r].todo # << >>
    <2> DEFINE key == Head(run[r].todo)
               rest == Tail(run[r].todo)
    <2>1. /\ Alerts!Create(key) /\ run' = [run EXCEPT ![r].todo = Tail(@)]
          /\ silent' = IF settings.inApp THEN silent ELSE silent \cup {<<key[1], key[2]>>}
        BY <1>1, <1>4 DEF Alerts!InAppStep
    <2>2. run[r].todo \in Seq(AlertKey) BY <1>2 DEF Call
    <2>3. /\ key \in AlertKey /\ key = run[r].todo[1] /\ rest \in Seq(AlertKey)
          /\ Len(rest) = Len(run[r].todo) - 1 /\ Len(run[r].todo) \in Nat
          /\ \A i \in 1..Len(rest) : rest[i] = run[r].todo[i + 1]
        BY <1>4, <2>2, HeadTailProperties
    <2> HIDE DEF key, rest
    <2>4. /\ DOMAIN inbox' \subseteq DOMAIN inbox \cup {key} /\ DOMAIN inbox \subseteq DOMAIN inbox'
          /\ inbox' \in [DOMAIN inbox' -> BOOLEAN]
          /\ \A k \in DOMAIN inbox : inbox[k] => inbox'[k]
          /\ settings.inApp => key \in DOMAIN inbox'
        <3>1. inbox \in [DOMAIN inbox -> BOOLEAN] BY DEF AlertsInv, AlertsTyped
        <3>2. CASE key \in DOMAIN inbox \/ ~settings.inApp
            <4>1. inbox' = inbox BY <2>1, <3>2 DEF Alerts!Create, key
            <4> QED BY <3>1, <3>2, <4>1
        <3>3. CASE ~(key \in DOMAIN inbox \/ ~settings.inApp)
            <4>1. inbox' = [k \in DOMAIN inbox \cup {key} |-> IF k = key THEN FALSE ELSE inbox[k]]
                BY <2>1, <3>3 DEF Alerts!Create, Alerts!Unread, key
            <4> QED BY <3>1, <3>3, <4>1
        <3> QED BY <3>2, <3>3
    <2>5. TellingGrows BY <2>1, <2>4 DEF TellingGrows
    <2>6. [run[r] EXCEPT !.todo = rest] \in Call BY <1>2, <2>3 DEF Call
    <2>7. \A q \in Runner : /\ q # r => run'[q] = run[q]
                            /\ q = r => run'[q] = [run[q] EXCEPT !.todo = rest]
        BY <2>1 DEF AlertsInv, AlertsTyped, rest
    <2>8. AlertsTyped'
        <3>1. run' \in [Runner -> {Alerts!Idle} \cup Call]
            BY <2>1, <2>6 DEF AlertsInv, AlertsTyped, rest
        <3>2. DOMAIN inbox' \subseteq AlertKey BY <2>3, <2>4 DEF AlertsInv, AlertsTyped
        <3> QED BY <1>1, <2>4, <3>1, <3>2 DEF AlertsInv, AlertsTyped
    <2>9. Alerts!StoredIsTold' BY <1>1, <2>5, StoredStays
    <2>10. ASSUME NEW t \in Target, key = Alerts!EventKey(t, run[r].seen[t])
           PROVE  Told(t, run[r].seen[t].status)'
        <3> DEFINE s == run[r].seen[t]
        <3>1. s \in Closing BY <1>2 DEF Call
        <3>2. key = <<t, s.status, s.date>> /\ s.date \in 1..MaxDate
            BY <2>10, <3>1 DEF Alerts!EventKey, Closing
        <3>3. CASE settings.inApp
            <4>1. key \in DOMAIN inbox' BY <2>4, <3>3
            <4>2. \E d \in 1..MaxDate : <<t, s.status, d>> \in DOMAIN inbox' BY <3>2, <4>1
            <4>3. run'[r].seen = run[r].seen BY <1>2, <2>7 DEF Call
            <4> QED BY <4>2, <4>3 DEF Told
        <3>4. CASE ~settings.inApp
            <4>1. <<t, s.status>> \in silent' BY <2>1, <3>2, <3>4 DEF key
            <4>2. run'[r].seen = run[r].seen BY <1>2, <2>7 DEF Call
            <4> QED BY <4>1, <4>2 DEF Told
        <3> QED BY <3>3, <3>4
    <2>11. ToldOrToTell'
        <3> SUFFICES ASSUME NEW q \in Runner, run'[q] # Alerts!Idle, NEW t \in Target,
                            run'[q].seen[t].status \in Alerts!Actionable
                     PROVE  \/ Told(t, run[q].seen[t].status)'
                            \/ /\ run'[q].pc = "inbox"
                               /\ \E i \in 1..Len(run'[q].todo) :
                                    run'[q].todo[i] = Alerts!EventKey(t, run'[q].seen[t])
            BY Zenon DEF ToldOrToTell, Alerts!EventKey
        <3>1. run'[q].seen = run[q].seen /\ run'[q].pc = run[q].pc /\ run[q] # Alerts!Idle
            BY <1>2, <1>5, <2>7 DEF Call
        <3>2. CASE Told(t, run[q].seen[t].status)
            BY <2>5, <3>1, <3>2 DEF Told, TellingGrows
        <3>3. CASE /\ run[q].pc = "inbox"
                   /\ \E i \in 1..Len(run[q].todo) :
                        run[q].todo[i] = Alerts!EventKey(t, run[q].seen[t])
            <4>1. CASE q # r BY <2>7, <3>1, <3>3, <4>1
            <4>2. CASE q = r
                <5>1. PICK i \in 1..Len(run[r].todo) :
                         run[r].todo[i] = Alerts!EventKey(t, run[r].seen[t])
                    BY <3>3, <4>2
                <5>2. CASE i = 1
                    <6>1. key = Alerts!EventKey(t, run[r].seen[t]) BY <2>3, <5>1, <5>2
                    <6> QED BY <2>10, <4>2, <6>1
                <5>3. CASE i # 1
                    <6>1. i - 1 \in 1..Len(rest) /\ (i - 1) + 1 = i BY <2>3, <5>3
                    <6>2. rest[i - 1] = Alerts!EventKey(t, run[r].seen[t]) BY <2>3, <5>1, <6>1
                    <6>3. run'[r].todo = rest BY <1>2, <2>7 DEF Call
                    <6> QED BY <3>1, <3>3, <4>2, <6>1, <6>2, <6>3
                <5> QED BY <5>2, <5>3
            <4> QED BY <4>1, <4>2
        <3> QED BY <3>1, <3>2, <3>3 DEF AlertsInv, ToldOrToTell
    <2> QED BY <2>5, <2>8, <2>9, <2>11 DEF AlertsInv
<1> QED BY <1>3, <1>4

\* The states are stored when nothing is left to tell; an interrupted call stores nothing.
LEMMA StoreKeeps ==
    ASSUME AlertNumbers, AlertsInv, NEW r \in Runner,
           Alerts!Persist(r) \/ Alerts!Deliver(r) \/ Alerts!Fail(r)
    PROVE  AlertsInv' /\ TellingGrows
<1>1. UNCHANGED <<market, inbox, silent>> BY DEF Alerts!Persist, Alerts!Deliver, Alerts!Fail
<1>2. TellingGrows BY <1>1 DEF TellingGrows
<1>3. run[r] # Alerts!Idle BY DEF Alerts!Persist, Alerts!Deliver, Alerts!Fail, Alerts!Idle
<1>4. run[r] \in Call BY <1>3 DEF AlertsInv, AlertsTyped
<1>5. /\ stored' \in [Target -> Alerts!Status]
      /\ \A t \in Target : stored'[t] = stored[t]
            \/ (/\ run[r].pc = "persist" /\ stored'[t] = run[r].seen[t].status)
    <2>1. CASE Alerts!Persist(r)
        <3>1. stored' = [t \in Target |-> IF run[r].seen[t].status = Alerts!Unavailable
                                          THEN stored[t] ELSE run[r].seen[t].status]
            BY <2>1 DEF Alerts!Persist, Alerts!Observed
        <3>2. \A t \in Target : run[r].seen[t].status \in Alerts!Status
            BY <1>4 DEF Call, Closing
        <3>3. run[r].pc = "persist" BY <2>1 DEF Alerts!Persist
        <3> QED BY <3>1, <3>2, <3>3 DEF AlertsInv, AlertsTyped
    <2>2. CASE stored' = stored BY <2>2 DEF AlertsInv, AlertsTyped
    <2> QED BY <2>1, <2>2 DEF Alerts!Deliver, Alerts!Fail
<1>6. \/ run' = [run EXCEPT ![r] = Alerts!Idle]
      \/ (/\ run' = [run EXCEPT ![r] = [@ EXCEPT !.pc = "deliver"]] /\ run[r].pc = "persist")
    BY DEF Alerts!Persist, Alerts!Deliver, Alerts!Fail
<1>7. /\ \A q \in Runner : q # r => run'[q] = run[q]
      /\ \/ run'[r] = Alerts!Idle
         \/ (/\ run'[r] = [run[r] EXCEPT !.pc = "deliver"] /\ run[r].pc = "persist")
    BY <1>6 DEF AlertsInv, AlertsTyped
<1>8. AlertsTyped'
    <2>1. [run[r] EXCEPT !.pc = "deliver"] \in Call BY <1>4 DEF Call
    <2>2. run' \in [Runner -> {Alerts!Idle} \cup Call]
        BY <1>6, <2>1 DEF AlertsInv, AlertsTyped
    <2> QED BY <1>1, <1>5, <2>2 DEF AlertsInv, AlertsTyped
<1>9. run[r].pc = "persist" =>
        \A t \in Target : run[r].seen[t].status \in Alerts!Actionable
            => Told(t, run[r].seen[t].status)
    BY <1>3 DEF AlertsInv, ToldOrToTell
<1>10. Alerts!StoredIsTold'
    <2> SUFFICES ASSUME NEW t \in Target, stored'[t] \in Alerts!Actionable
                 PROVE  Told(t, stored[t])'
        BY Zenon DEF Alerts!StoredIsTold, Told
    <2>1. CASE stored'[t] = stored[t]
        BY <1>1, <2>1 DEF AlertsInv, Alerts!StoredIsTold, Told
    <2>2. CASE run[r].pc = "persist" /\ stored'[t] = run[r].seen[t].status
        BY <1>1, <1>9, <2>2 DEF Told
    <2> QED BY <1>5, <2>1, <2>2
<1>11. ToldOrToTell'
    <2> SUFFICES ASSUME NEW q \in Runner, run'[q] # Alerts!Idle, NEW t \in Target,
                        run'[q].seen[t].status \in Alerts!Actionable
                 PROVE  \/ Told(t, run[q].seen[t].status)'
                        \/ /\ run'[q].pc = "inbox"
                           /\ \E i \in 1..Len(run'[q].todo) :
                                run'[q].todo[i] = Alerts!EventKey(t, run'[q].seen[t])
        BY Zenon DEF ToldOrToTell, Alerts!EventKey
    <2>1. CASE q = r
        <3>1. run'[r].seen = run[r].seen /\ run[r].pc = "persist"
            BY <1>4, <1>7, <2>1 DEF Call
        <3> QED BY <1>1, <1>9, <2>1, <3>1 DEF Told
    <2>2. CASE q # r
        <3>1. run'[q] = run[q] BY <1>7, <2>2
        <3>2. \/ Told(t, run[q].seen[t].status)
              \/ /\ run[q].pc = "inbox"
                 /\ \E i \in 1..Len(run[q].todo) :
                      run[q].todo[i] = Alerts!EventKey(t, run[q].seen[t])
            BY <3>1 DEF AlertsInv, ToldOrToTell
        <3> QED BY <1>1, <3>1, <3>2 DEF Told
    <2> QED BY <2>1, <2>2
<1> QED BY <1>2, <1>8, <1>10, <1>11 DEF AlertsInv

LEMMA AlertsStep ==
    ASSUME AlertNumbers, AlertsInv, [Alerts!Next]_Alerts!vars
    PROVE  AlertsInv' /\ TellingGrows
<1>1. CASE \/ \E k \in DOMAIN inbox : Alerts!Read({k})
           \/ Alerts!Read({k \in DOMAIN inbox : ~inbox[k]})
    <2>1. \E S \in SUBSET DOMAIN inbox : Alerts!Read(S) BY <1>1
    <2> QED BY <2>1, OthersKeep
<1>2. CASE (\E t \in Target : Alerts!Close(t)) \/ Alerts!Configure \/ UNCHANGED Alerts!vars
    BY <1>2, OthersKeep
<1>3. CASE \E r \in Runner : \/ Alerts!Preview(r) \/ Alerts!CreateInApp(r)
                             \/ Alerts!Persist(r) \/ Alerts!Deliver(r) \/ Alerts!Fail(r)
    BY <1>3, PreviewKeeps, CreateKeeps, StoreKeeps
<1> QED BY <1>1, <1>2, <1>3 DEF Alerts!Next

\* A state is stored, and never alerted again, only after its alert is in the inbox,
\* whatever fails, stops or runs at the same time (sendWithPreview, persistObservations).
THEOREM StoredWasTold ==
    ASSUME AlertNumbers
    PROVE  Alerts!Spec => [](Alerts!TypeOK /\ Alerts!StoredIsTold)
<1>1. AlertsInv /\ [Alerts!Next]_Alerts!vars => AlertsInv' BY AlertsStep
<1>2. AlertsInv => Alerts!TypeOK
    <2> SUFFICES ASSUME AlertsInv PROVE Alerts!TypeOK OBVIOUS
    <2>1. \A t \in Target : market[t] \in Closing BY DEF AlertsInv, AlertsTyped
    <2>2. \A k \in DOMAIN inbox :
             k[1] \in Target /\ k[2] \in Alerts!Actionable /\ inbox[k] \in BOOLEAN
        BY DEF AlertsInv, AlertsTyped, AlertKey
    <2>3. \A r \in Runner : run[r].pc \in {"idle", "inbox", "persist", "deliver"}
        BY DEF AlertsInv, AlertsTyped, Call, Alerts!Idle
    <2>4. \A t \in Target : stored[t] \in Alerts!Status BY DEF AlertsInv, AlertsTyped
    <2> QED BY <2>1, <2>2, <2>3, <2>4 DEF Alerts!TypeOK, Closing
<1>3. AlertsInv => Alerts!StoredIsTold BY DEF AlertsInv
<1>4. Alerts!Init => AlertsInv BY AlertsStart
<1> QED BY <1>1, <1>2, <1>3, <1>4, PTL DEF Alerts!Spec

\* The run's property of the alerts; an alert told again keeps what the operator
\* made of it (InAppNotificationService.Create).
THEOREM AlertsAreTold ==
    ASSUME AlertNumbers
    PROVE  Operations => AlertsTold
<1>1. OperationsInit => Alerts!Init BY PartsStart
<1>2. [OperationsNext]_all => [Alerts!Next]_Alerts!vars
    BY PartsStep DEF Alerts!vars, alertVars
<1>3. Operations => Alerts!Spec BY <1>1, <1>2, PTL DEF Operations, Alerts!Spec, all
<1>4. AlertsInv /\ [Alerts!Next]_Alerts!vars => AlertsInv' BY AlertsStep
<1>5. AlertsInv /\ [Alerts!Next]_Alerts!vars =>
        [\A k \in DOMAIN inbox : k \in DOMAIN inbox' /\ (inbox[k] => inbox'[k])]_Alerts!vars
    BY AlertsStep DEF TellingGrows
<1>8. Alerts!Init => AlertsInv BY AlertsStart
<1>6. Alerts!Spec => Alerts!InboxKeeps
    BY <1>4, <1>5, <1>8, PTL DEF Alerts!Spec, Alerts!InboxKeeps
<1>7. Alerts!TypeOK /\ Alerts!StoredIsTold
        => (part \in {"alerts", "limit"} => Alerts!TypeOK /\ Alerts!StoredIsTold)
    OBVIOUS
<1> QED BY <1>3, <1>6, <1>7, StoredWasTold, PTL DEF AlertsTold

-----------------------------------------------------------------------------
(* The restore points.  One goroutine works at a time, and its timestamp   *)
(* is that of the newest files, so that the pair it makes is never among   *)
(* those that are pruned.  A pair that waits to be removed is older than   *)
(* two others, and its removal leaves two newer ones to all that had two.  *)

\* Limits the settings are checked for (SQLiteBackupService.keepPairs).
BackupNumbers ==
    /\ MaxStamp \in Nat \ {0} /\ MaxDeaths \in Nat
    /\ KeepPairs \in Nat /\ KeepPairs >= 2
    /\ None \notin Operation

Whole(d, s) == s \in Backup!Complete(d)
NewerPairs(d, s) == {t \in Backup!Complete(d) : t > s}
NewestGood(d) == \E s \in Backup!Complete(d) : NewerPairs(d, s) = {} /\ Backup!Good(d, s)

\* Snapshots are checked before they are published.
LocalGood == \A db \in Backup!DB, s \in Backup!Stamp : file[<<"local", db, s>>] # "bad"

KnownStamps == \A p \in Backup!Path : file[p] # "none" => p[3] <= clock

\* Only a pair is copied, and the newest one is not removed before that.
CopiesOfPairs ==
    \A db \in Backup!DB, s \in Backup!Stamp :
        Backup!Exists("replica", db, s) => s < clock \/ Whole("local", s)

HalvesAreOld ==
    deaths = 0 => \A s \in Backup!Single("local") :
        \/ Backup!Newer("local", s) >= 2
        \/ \E j \in Operation : job[j].pc = "publishing" /\ job[j].stamp = s

Makes(w) == w.kind \in {"backup", "compact"}

\* The files of the pair that w is making are the newest.
NewestStamp(w) ==
    w.stamp \in Backup!Stamp /\ w.stamp <= clock
    /\ \A p \in Backup!Path : file[p] # "none" => p[3] <= w.stamp

Staging(w) ==
    /\ Makes(w) /\ w.dir = "local" /\ w.db = "sec_monitor" /\ w.stage = "age"
    /\ \A db \in Backup!DB : Backup!Exists("replica", db, w.stamp) => Whole("local", w.stamp)

Publishing(w) ==
    /\ Makes(w) /\ w.dir = "local" /\ w.stage = "age"
    /\ file[<<"local", "small_cap", w.stamp>>] = "none"
    /\ file[<<"local", "sec_monitor", w.stamp>>] = IF w.db = "sec_monitor" THEN "none" ELSE "good"
    /\ \A db \in Backup!DB : file[<<"replica", db, w.stamp>>] = "none"

Pruning(w) ==
    /\ w.kind # "drill"
    /\ w.dir = "replica" => Replica
    /\ w.kind = "prune" => w.stage = "count" /\ \A d \in Backup!UsedDir : NewestGood(d)
    /\ Makes(w) =>
        /\ Whole("local", w.stamp)
        /\ w.dir = "local" => \A db \in Backup!DB : file[<<"replica", db, w.stamp>>] = "none"
        /\ w.dir = "replica" => Backup!Good("replica", w.stamp)

Removing(w) ==
    \A f \in w.doomed : Whole(w.dir, f[2]) => Backup!Newer(w.dir, f[2]) >= 2

Copying(w) ==
    /\ Makes(w) /\ w.dir = "replica" /\ Replica /\ Whole("local", w.stamp)
    /\ w.pc = "copying" \/ w.db = "sec_monitor" =>
          file[<<"replica", "small_cap", w.stamp>>] = "none"
    /\ w.pc = "copying" /\ w.db = "sec_monitor" =>
          file[<<"replica", "sec_monitor", w.stamp>>] = "none"
    /\ w.db = "small_cap" => file[<<"replica", "sec_monitor", w.stamp>>] = "good"

Rehearsing(w) ==
    /\ w.kind = "drill"
    /\ w.dir = "replica" => Replica /\ (w.local = "ready" => NewestGood("local"))
    /\ w.pc = "rehearsing" => \/ w.stamp = 0 /\ Backup!Complete(w.dir) = {}
                              \/ Whole(w.dir, w.stamp) /\ NewerPairs(w.dir, w.stamp) = {}

WorkInv(w) ==
    /\ w.pc # "idle" /\ Makes(w) => NewestStamp(w)
    /\ w.pc = "staging" => Staging(w)
    /\ w.pc = "publishing" => Publishing(w)
    /\ w.pc \in {"pruning", "removing"} => Pruning(w)
    /\ w.pc = "removing" => Removing(w)
    /\ w.pc \in {"copying", "checking"} => Copying(w)
    /\ w.pc = "compacting" => Makes(w) /\ Whole("local", w.stamp)
    /\ w.pc = "verifying" => w.kind = "prune" /\ w.dir = "local"
    /\ w.pc \in {"picking", "rehearsing"} => Rehearsing(w)

PairsInv ==
    /\ Backup!TypeOK /\ LocalGood /\ KnownStamps /\ CopiesOfPairs /\ HalvesAreOld
    /\ \A j \in Operation : WorkInv(job[j])

LEMMA BackupCardinality == \A S : Backup!Cardinality(S) = Cardinality(S)
BY Zenon DEF Backup!Cardinality, Cardinality

\* Counting the pairs that are newer than s.
LEMMA NewerCount ==
    ASSUME BackupNumbers, NEW d, NEW s
    PROVE  /\ Backup!Newer(d, s) \in Nat
           /\ Backup!Newer(d, s) = 0 <=> NewerPairs(d, s) = {}
           /\ \A T \in SUBSET NewerPairs(d, s) : Cardinality(T) <= Backup!Newer(d, s)
<1>1. NewerPairs(d, s) \subseteq 1..MaxStamp /\ MaxStamp \in Int
    BY DEF NewerPairs, Backup!Complete, Backup!Stamp, BackupNumbers
<1>2. IsFiniteSet(1..MaxStamp) BY <1>1, FS_Interval
<1>3. IsFiniteSet(NewerPairs(d, s)) BY <1>1, <1>2, FS_Subset
<1>4. Backup!Newer(d, s) = Cardinality(NewerPairs(d, s))
    BY BackupCardinality DEF Backup!Newer, NewerPairs
<1> QED BY <1>3, <1>4, FS_CardinalityType, FS_EmptySet, FS_Subset

\* The newest pair is there as soon as there is one (verifyLatestSQLitePair).
LEMMA NewestIsThere ==
    ASSUME BackupNumbers, NEW d, Backup!Complete(d) # {}
    PROVE  Backup!Newest(d) \in Backup!Complete(d) /\ NewerPairs(d, Backup!Newest(d)) = {}
<1> DEFINE C == Backup!Complete(d)
           Up(s) == NewerPairs(d, s)
           T == {Up(s) : s \in C}
<1>1. C \subseteq 1..MaxStamp /\ MaxStamp \in Int
    BY DEF Backup!Complete, Backup!Stamp, BackupNumbers
<1>2. IsFiniteSet(C) BY <1>1, FS_Interval, FS_Subset
<1>3. \A s \in C : Up(s) \subseteq C BY DEF NewerPairs
<1>4. T \subseteq FiniteSubsetsOf(C) /\ T # {}
    BY <1>2, <1>3, FS_Subset DEF FiniteSubsetsOf
<1>5. PICK U \in T : \A V \in T : ~(<<V, U>> \in StrictSubsetOrdering(C))
    <2>1. IsWellFoundedOn(StrictSubsetOrdering(C), FiniteSubsetsOf(C))
        BY FS_StrictSubsetOrderingWellFounded
    <2> HIDE DEF T, C
    <2> QED BY <1>4, <2>1, WFMin
<1>6. PICK s \in C : U = Up(s) BY <1>5
<1>7. Up(s) = {}
    <2> SUFFICES ASSUME NEW t \in Up(s) PROVE FALSE OBVIOUS
    <2>1. t \in C /\ t > s /\ s \in Int /\ t \in Int BY <1>1 DEF NewerPairs
    <2>2. Up(t) \subseteq Up(s) /\ t \notin Up(t) BY <1>1, <2>1 DEF NewerPairs
    <2>3. <<Up(t), Up(s)>> \in StrictSubsetOrdering(C)
        BY <1>3, <2>1, <2>2 DEF StrictSubsetOrdering
    <2> QED BY <1>5, <1>6, <2>1, <2>3
<1>8. \A r : Backup!Newer(d, r) = 0 <=> NewerPairs(d, r) = {} BY NewerCount
<1> HIDE DEF Up
<1>9. Backup!Newer(d, s) = 0 BY <1>7, <1>8 DEF Up
<1> QED BY <1>6, <1>8, <1>9 DEF Backup!Newest

\* The check before an offline prune, seen without the choice of the newest.
LEMMA RestorableIsGood ==
    ASSUME BackupNumbers, NEW d
    PROVE  Backup!Restorable(d) <=> NewestGood(d)
<1>1. ASSUME Backup!Restorable(d) PROVE NewestGood(d)
    <2>1. Backup!Complete(d) # {} BY <1>1 DEF Backup!Restorable, Backup!Newest
    <2> QED BY <1>1, <2>1, NewestIsThere DEF Backup!Restorable, NewestGood
<1>2. ASSUME NewestGood(d) PROVE Backup!Restorable(d)
    <2>1. PICK s \in Backup!Complete(d) : NewerPairs(d, s) = {} /\ Backup!Good(d, s)
        BY <1>2 DEF NewestGood
    <2>2. LET t == Backup!Newest(d) IN t \in Backup!Complete(d) /\ NewerPairs(d, t) = {}
        BY <2>1, NewestIsThere
    <2>3. \A t \in Backup!Complete(d) : t \in Int /\ t # 0
        BY DEF Backup!Complete, Backup!Stamp, BackupNumbers
    <2>4. Backup!Newest(d) = s BY <2>1, <2>2, <2>3 DEF NewerPairs
    <2> QED BY <2>1, <2>3, <2>4 DEF Backup!Restorable
<1> QED BY <1>1, <1>2

-----------------------------------------------------------------------------
(* Steps that leave the files alone.                                       *)

\* What a step may do to the pairs.
KeepsPairs ==
    \A d \in Backup!Dir :
        /\ \A s \in Backup!Settled(d) : s \notin Backup!Complete(d)' => Backup!Newer(d, s) >= 2
        /\ Backup!Recoverable(d) => Backup!Recoverable(d)'

LEMMA SameFiles ==
    ASSUME UNCHANGED file
    PROVE  \A d : /\ Backup!Complete(d)' = Backup!Complete(d)
                  /\ NewestGood(d)' <=> NewestGood(d)
                  /\ \A s : /\ Backup!Newer(d, s)' = Backup!Newer(d, s)
                            /\ NewerPairs(d, s)' = NewerPairs(d, s)
                            /\ Backup!Good(d, s)' <=> Backup!Good(d, s)
                            /\ Whole(d, s)' <=> Whole(d, s)
<1>1. \A d : Backup!Complete(d)' = Backup!Complete(d) BY DEF Backup!Complete, Backup!Exists
<1>2. \A d, s : /\ Backup!Newer(d, s)' = Backup!Newer(d, s)
               /\ NewerPairs(d, s)' = NewerPairs(d, s)
    BY <1>1 DEF Backup!Newer, NewerPairs
<1>3. \A d, s : Backup!Good(d, s)' <=> Backup!Good(d, s) BY DEF Backup!Good
<1>4. \A d, s : Whole(d, s)' <=> Whole(d, s) BY <1>1 DEF Whole
<1>5. \A d : NewestGood(d)' <=> NewestGood(d) BY <1>1, <1>2, <1>3 DEF NewestGood
<1> QED BY <1>1, <1>2, <1>3, <1>4, <1>5

\* Time passes, and what is known of a piece of work stays.
LEMMA WorkKeeps ==
    ASSUME UNCHANGED file, NEW w \in Backup!Work, clock \in Nat, clock' \in Nat, clock <= clock',
           WorkInv(w)
    PROVE  WorkInv(w)'
<1>1. NewestStamp(w) => NewestStamp(w)'
    BY DEF NewestStamp, Backup!Work, Backup!Stamp
<1>2. /\ Publishing(w)' <=> Publishing(w)
      /\ Staging(w)' <=> Staging(w)
      /\ Copying(w)' <=> Copying(w)
    BY SameFiles DEF Publishing, Staging, Copying, Backup!Exists
<1>3. Pruning(w)' <=> Pruning(w) BY SameFiles DEF Pruning
<1>4. Removing(w)' <=> Removing(w) BY SameFiles DEF Removing
<1>5. Rehearsing(w)' <=> Rehearsing(w) BY SameFiles DEF Rehearsing
<1> QED BY <1>1, <1>2, <1>3, <1>4, <1>5, SameFiles DEF WorkInv

\* The mutex: while a goroutine is at work, no other one is.
LEMMA OneAtWork ==
    ASSUME Backup!TypeOK, BackupNumbers, NEW j \in Operation, job[j].pc # "idle"
    PROVE  mu = j /\ \A i \in Operation : i # j => job[i].pc = "idle"
BY DEF Backup!TypeOK

LEMMA RestIsWork == BackupNumbers => Backup!Rest \in Backup!Work
BY DEF Backup!Rest, Backup!Work, Backup!PC, Backup!Kind, Backup!Dir, Backup!DB, Backup!Stage,
       Backup!DrillStatus, BackupNumbers

\* What goroutine j goes on with, and who holds the mutex then.
Becomes(j, w) ==
    /\ job' = [job EXCEPT ![j] = w]
    /\ mu' = IF w.pc = "idle" THEN None ELSE j

LEMMA JobsKept ==
    ASSUME Backup!TypeOK, BackupNumbers, NEW j \in Operation, NEW w \in Backup!Work, Becomes(j, w),
           mu \in {None, j}
    PROVE  /\ job' \in [Operation -> Backup!Work] /\ mu' \in Operation \cup {None}
           /\ job'[j] = w
           /\ \A i \in Operation : i # j => job'[i] = job[i] /\ job[i].pc = "idle"
           /\ \A i \in Operation : mu' = i <=> job'[i].pc # "idle"
<1>1. /\ job' \in [Operation -> Backup!Work] /\ job'[j] = w
      /\ \A i \in Operation : i # j => job'[i] = job[i]
    BY DEF Backup!TypeOK, Becomes
<1>2. \A i \in Operation : i # j => job[i].pc = "idle" BY DEF Backup!TypeOK, BackupNumbers
<1> QED BY <1>1, <1>2 DEF Becomes, BackupNumbers

LEMMA LeaveBecomes ==
    ASSUME Backup!TypeOK, BackupNumbers, NEW j \in Operation, job[j].pc # "idle", Backup!Leave(j)
    PROVE  Becomes(j, Backup!Rest)
BY OneAtWork DEF Backup!Leave, Becomes, Backup!Rest

\* A goroutine at rest has nothing to keep.
LEMMA IdleWork == \A w : w.pc = "idle" => WorkInv(w) /\ WorkInv(w)'
BY DEF WorkInv

\* A step that only moves goroutine j on.
LEMMA MoveKeeps ==
    ASSUME PairsInv, BackupNumbers, NEW j \in Operation, NEW w \in Backup!Work, Becomes(j, w),
           UNCHANGED <<clock, cutoff, file, deaths>>, drill' \in Backup!DrillStatus \cup {"none"},
           mu \in {None, j}, WorkInv(w),
           job[j].pc = "publishing" => w.pc = "publishing" /\ w.stamp = job[j].stamp,
           w.pc # "checking"
    PROVE  PairsInv' /\ KeepsPairs
<1> USE DEF PairsInv
<1>1. /\ job' \in [Operation -> Backup!Work] /\ mu' \in Operation \cup {None}
      /\ job'[j] = w
      /\ \A i \in Operation : i # j => job'[i] = job[i] /\ job[i].pc = "idle"
      /\ \A i \in Operation : mu' = i <=> job'[i].pc # "idle"
    BY JobsKept
<1>2. Backup!TypeOK' BY <1>1 DEF Backup!TypeOK
<1>3. LocalGood' /\ KnownStamps' BY DEF LocalGood, KnownStamps
<1>4. CopiesOfPairs' BY SameFiles DEF CopiesOfPairs, Backup!Exists
<1>5. Backup!Single("local")' = Backup!Single("local")
    BY SameFiles DEF Backup!Single, Backup!Exists
<1>6. HalvesAreOld'
    <2> SUFFICES ASSUME deaths' = 0, NEW s \in Backup!Single("local"), Backup!Newer("local", s) < 2
                 PROVE  \E i \in Operation : job'[i].pc = "publishing" /\ job'[i].stamp = s
        BY <1>5, SameFiles, NewerCount DEF HalvesAreOld
    <2>1. PICK i \in Operation : job[i].pc = "publishing" /\ job[i].stamp = s
        BY NewerCount DEF HalvesAreOld
    <2> QED BY <1>1, <2>1
<1>7. clock \in Nat BY DEF Backup!TypeOK, Backup!Stamp, BackupNumbers
<1>8. WorkInv(w)' BY <1>7, WorkKeeps
<1>9. \A i \in Operation : WorkInv(job[i])'
    BY <1>1, <1>8, IdleWork
<1>10. \A d : Backup!Settled(d) \subseteq Backup!Settled(d)'
    BY <1>1, SameFiles DEF Backup!Settled
<1>11. KeepsPairs
    BY <1>10, SameFiles DEF KeepsPairs, Backup!Settled, Backup!Recoverable
<1> QED BY <1>2, <1>3, <1>4, <1>6, <1>9, <1>11

LEMMA BeginKeeps ==
    ASSUME PairsInv, BackupNumbers, NEW j \in Operation, NEW kind \in Backup!Kind,
           Backup!Begin(j, kind)
    PROVE  PairsInv' /\ KeepsPairs
<1> DEFINE w == [Backup!Rest EXCEPT !.kind = kind, !.stamp = clock,
                                    !.pc = CASE kind = "drill" -> "picking"
                                             [] kind = "prune" -> "verifying"
                                             [] OTHER -> "staging"]
<1>1. mu = None /\ mu' = j /\ job' = [job EXCEPT ![j] = w]
      /\ UNCHANGED <<clock, cutoff, file, drill, deaths>> /\ job[j].pc = "idle"
    BY DEF Backup!Begin
<1>2. clock \in Backup!Stamp /\ clock \in 0..MaxStamp
      /\ drill \in Backup!DrillStatus \cup {"none"}
    BY DEF PairsInv, Backup!TypeOK, Backup!Stamp, BackupNumbers, Backup!DrillStatus
<1>3. /\ w.pc = CASE kind = "drill" -> "picking" [] kind = "prune" -> "verifying"
                  [] OTHER -> "staging"
      /\ w.kind = kind /\ w.stamp = clock /\ w.dir = "local" /\ w.db = "sec_monitor"
      /\ w.stage = "age"
    BY DEF Backup!Rest
<1>4. w \in Backup!Work
    BY <1>2, RestIsWork DEF Backup!Work, Backup!PC, Backup!Kind
<1>5. w.pc \in {"picking", "verifying", "staging"} /\ (w.pc = "staging" <=> Makes(w))
      /\ (w.pc = "verifying" <=> kind = "prune") /\ (w.pc = "picking" <=> kind = "drill")
    BY <1>3 DEF Makes, Backup!Kind
<1> HIDE DEF w
<1>6. NewestStamp(w)
    BY <1>2, <1>3 DEF PairsInv, KnownStamps, NewestStamp, Backup!Stamp
<1>7. w.pc = "staging" => Staging(w)
    <2>1. \A db \in Backup!DB : Backup!Exists("replica", db, clock) => Whole("local", clock)
        BY <1>2 DEF PairsInv, CopiesOfPairs, Backup!Stamp
    <2> QED BY <1>3, <1>5, <2>1 DEF Staging
<1>8. WorkInv(w) BY <1>3, <1>5, <1>6, <1>7 DEF WorkInv, Rehearsing
<1>9. Becomes(j, w) BY <1>1, <1>5 DEF Becomes
<1> QED BY <1>1, <1>2, <1>4, <1>5, <1>8, <1>9, MoveKeeps

\* Giving up without a change of the files.
LEMMA GiveUpKeeps ==
    ASSUME PairsInv, BackupNumbers, NEW j \in Operation, job[j].pc \notin {"idle", "publishing"},
           Backup!Leave(j), UNCHANGED <<clock, cutoff, file, deaths>>,
           drill' \in Backup!DrillStatus \cup {"none"}
    PROVE  PairsInv' /\ KeepsPairs
<1>1. Becomes(j, Backup!Rest) /\ mu = j BY LeaveBecomes, OneAtWork DEF PairsInv
<1>2. Backup!Rest \in Backup!Work /\ Backup!Rest.pc = "idle" BY RestIsWork DEF Backup!Rest
<1> QED BY <1>1, <1>2, IdleWork, MoveKeeps

\* Going on without a change of the files.
LEMMA GoOnKeeps ==
    ASSUME PairsInv, BackupNumbers, NEW j \in Operation, job[j].pc \notin {"idle", "publishing"},
           NEW w \in Backup!Work, job' = [job EXCEPT ![j] = w], WorkInv(w),
           w.pc \notin {"idle", "checking"},
           UNCHANGED <<clock, cutoff, file, mu, drill, deaths>>
    PROVE  PairsInv' /\ KeepsPairs
<1>1. mu = j /\ drill \in Backup!DrillStatus \cup {"none"}
    BY OneAtWork DEF PairsInv, Backup!TypeOK
<1>2. Becomes(j, w) BY <1>1 DEF Becomes
<1> QED BY <1>1, <1>2, MoveKeeps

LEMMA StagePairKeeps ==
    ASSUME PairsInv, BackupNumbers, NEW j \in Operation, Backup!StagePair(j)
    PROVE  PairsInv' /\ KeepsPairs
<1> DEFINE v == job[j]
           w == [v EXCEPT !.pc = "publishing"]
<1>1. v \in Backup!Work /\ v.pc = "staging" /\ WorkInv(v)
    BY DEF Backup!StagePair, PairsInv, Backup!TypeOK
<1>2. w \in Backup!Work /\ w.pc = "publishing" /\ w.kind = v.kind /\ w.stamp = v.stamp
      /\ w.dir = v.dir /\ w.db = v.db /\ w.stage = v.stage
    BY <1>1 DEF Backup!Work, Backup!PC
<1>3. Staging(v) /\ NewestStamp(v) BY <1>1 DEF WorkInv, Staging
<1>4. \A db \in Backup!DB : file[<<"local", db, v.stamp>>] = "none"
    BY DEF Backup!StagePair, Backup!Exists
<1>5. ~Whole("local", v.stamp) BY <1>4 DEF Whole, Backup!Complete, Backup!Exists, Backup!DB
<1>6. \A db \in Backup!DB : file[<<"replica", db, v.stamp>>] = "none"
    BY <1>3, <1>5 DEF Staging, Backup!Exists
<1>7. Publishing(w) /\ NewestStamp(w)
    BY <1>2, <1>3, <1>4, <1>6 DEF Publishing, Staging, Makes, NewestStamp, Backup!DB
<1>8. WorkInv(w) BY <1>2, <1>7 DEF WorkInv
<1> QED BY <1>1, <1>2, <1>8, GoOnKeeps DEF Backup!StagePair

\* What a stage is going to remove.
LEMMA DoomedIsOld ==
    ASSUME BackupNumbers, NEW d \in Backup!Dir, NEW upTo,
           NEW doomed \in {Backup!DoomedByAge(d), Backup!DoomedByCount(d),
                           Backup!DoomedByBudget(d, upTo)}
    PROVE  /\ doomed \subseteq Backup!DB \X Backup!Stamp
           /\ \A f \in doomed : Whole(d, f[2]) => Backup!Newer(d, f[2]) >= 2
<1>1. \A s : Backup!Newer(d, s) \in Nat BY NewerCount
<1>2. Backup!Complete(d) \subseteq Backup!Stamp /\ Backup!Single(d) \subseteq Backup!Stamp
    BY DEF Backup!Complete, Backup!Single
<1>3. \A s \in Backup!Single(d) : ~Whole(d, s) BY DEF Backup!Single, Whole
<1>4. CASE doomed = Backup!DoomedByAge(d)
    BY <1>1, <1>2, <1>3, <1>4 DEF Backup!DoomedByAge, Backup!PairFiles
<1>5. CASE doomed = Backup!DoomedByCount(d)
    BY <1>1, <1>2, <1>5 DEF Backup!DoomedByCount, Backup!PairFiles, BackupNumbers
<1>6. CASE doomed = Backup!DoomedByBudget(d, upTo)
    BY <1>1, <1>2, <1>6 DEF Backup!DoomedByBudget, Backup!PairFiles
<1> QED BY <1>4, <1>5, <1>6

LEMMA StartStageKeeps ==
    ASSUME PairsInv, BackupNumbers, NEW j \in Operation, Backup!StartStage(j)
    PROVE  PairsInv' /\ KeepsPairs
<1> DEFINE v == job[j]
<1>1. v \in Backup!Work /\ v.pc = "pruning" /\ WorkInv(v)
    BY DEF Backup!StartStage, PairsInv, Backup!TypeOK
<1>2. PICK upTo \in {0} \cup Backup!Stamp :
          job' = [job EXCEPT ![j].pc = "removing",
                    ![j].doomed = CASE v.stage = "age" -> Backup!DoomedByAge(v.dir)
                                    [] v.stage = "count" -> Backup!DoomedByCount(v.dir)
                                    [] OTHER -> Backup!DoomedByBudget(v.dir, upTo)]
    BY DEF Backup!StartStage
<1> DEFINE doomed == CASE v.stage = "age" -> Backup!DoomedByAge(v.dir)
                       [] v.stage = "count" -> Backup!DoomedByCount(v.dir)
                       [] OTHER -> Backup!DoomedByBudget(v.dir, upTo)
           w == [v EXCEPT !.pc = "removing", !.doomed = doomed]
<1>3. v.dir \in Backup!Dir BY <1>1 DEF Backup!Work
<1>4. doomed \in {Backup!DoomedByAge(v.dir), Backup!DoomedByCount(v.dir),
                  Backup!DoomedByBudget(v.dir, upTo)}
    OBVIOUS
<1>5. job' = [job EXCEPT ![j] = w] BY <1>2
<1> HIDE DEF doomed
<1>6. /\ doomed \subseteq Backup!DB \X Backup!Stamp
      /\ \A f \in doomed : Whole(v.dir, f[2]) => Backup!Newer(v.dir, f[2]) >= 2
    BY <1>3, <1>4, DoomedIsOld
<1>7. w \in Backup!Work /\ w.pc = "removing" /\ w.kind = v.kind /\ w.stamp = v.stamp
      /\ w.dir = v.dir /\ w.db = v.db /\ w.stage = v.stage /\ w.doomed = doomed
    BY <1>1, <1>6 DEF Backup!Work, Backup!PC
<1> HIDE DEF w
<1>8. Pruning(w) /\ Removing(w) /\ (Makes(w) => NewestStamp(w))
    BY <1>1, <1>6, <1>7 DEF WorkInv, Pruning, Removing, Makes, NewestStamp
<1>9. WorkInv(w) BY <1>7, <1>8 DEF WorkInv
<1> QED BY <1>1, <1>5, <1>7, <1>9, GoOnKeeps DEF Backup!StartStage

LEMMA EndStageKeeps ==
    ASSUME PairsInv, BackupNumbers, NEW j \in Operation, Backup!EndStage(j)
    PROVE  PairsInv' /\ KeepsPairs
<1> DEFINE v == job[j]
<1>1. v \in Backup!Work /\ v.pc = "removing" /\ WorkInv(v) /\ Pruning(v)
      /\ (Makes(v) => NewestStamp(v)) /\ drill \in Backup!DrillStatus \cup {"none"}
      /\ UNCHANGED <<clock, cutoff, file, drill, deaths>>
    BY DEF Backup!EndStage, PairsInv, Backup!TypeOK, WorkInv
<1>2. ASSUME NEW then \in {"count", "budget"}, then = "budget" => v.kind # "prune",
             Backup!Then(j, [v EXCEPT !.pc = "pruning", !.stage = then]),
             v.kind = "prune" => then = "count"
      PROVE  PairsInv' /\ KeepsPairs
    <2> DEFINE w == [v EXCEPT !.pc = "pruning", !.stage = then]
    <2>1. w \in Backup!Work /\ w.pc = "pruning" /\ w.kind = v.kind /\ w.stamp = v.stamp
          /\ w.dir = v.dir /\ w.stage = then
        BY <1>1 DEF Backup!Work, Backup!PC, Backup!Stage
    <2>2. Pruning(w) /\ (Makes(w) => NewestStamp(w))
        BY <1>1, <1>2, <2>1 DEF Pruning, Makes, NewestStamp
    <2>3. WorkInv(w) BY <2>1, <2>2 DEF WorkInv
    <2> QED BY <1>1, <1>2, <2>1, <2>3, GoOnKeeps DEF Backup!Then
<1>3. CASE Backup!EndPruning(j)
    <2>1. CASE v.dir = "local" /\ Replica /\ v.kind = "prune"
        <3> DEFINE w == [v EXCEPT !.pc = "pruning", !.dir = "replica"]
        <3>1. w \in Backup!Work /\ w.pc = "pruning" /\ w.kind = v.kind /\ w.stamp = v.stamp
              /\ w.dir = "replica" /\ w.stage = v.stage
            BY <1>1 DEF Backup!Work, Backup!PC, Backup!Dir
        <3>2. Pruning(w) /\ ~Makes(w) BY <1>1, <2>1, <3>1 DEF Pruning, Makes
        <3>3. WorkInv(w) BY <3>1, <3>2 DEF WorkInv
        <3> QED BY <1>1, <1>3, <2>1, <3>1, <3>3, GoOnKeeps DEF Backup!EndPruning, Backup!Then
    <2>2. CASE v.dir = "local" /\ Replica /\ v.kind # "prune"
        <3> DEFINE w == [v EXCEPT !.pc = "copying", !.dir = "replica", !.db = "sec_monitor"]
        <3>1. w \in Backup!Work /\ w.pc = "copying" /\ w.kind = v.kind /\ w.stamp = v.stamp
              /\ w.dir = "replica" /\ w.db = "sec_monitor"
            BY <1>1 DEF Backup!Work, Backup!PC, Backup!Dir, Backup!DB
        <3>2. Makes(v) BY <1>1, <2>2 DEF Pruning, Makes, Backup!Work, Backup!Kind
        <3>3. Copying(w) /\ NewestStamp(w)
            BY <1>1, <2>2, <3>1, <3>2 DEF Pruning, Copying, Makes, NewestStamp, Backup!DB
        <3>4. WorkInv(w) BY <3>1, <3>3 DEF WorkInv
        <3> QED BY <1>1, <1>3, <2>2, <3>1, <3>4, GoOnKeeps DEF Backup!EndPruning, Backup!Then
    <2>3. CASE ~(v.dir = "local" /\ Replica) /\ v.kind = "compact"
        <3> DEFINE w == [v EXCEPT !.pc = "compacting"]
        <3>1. w \in Backup!Work /\ w.pc = "compacting" /\ w.kind = v.kind /\ w.stamp = v.stamp
            BY <1>1 DEF Backup!Work, Backup!PC
        <3>2. Makes(w) /\ Whole("local", w.stamp) /\ NewestStamp(w)
            BY <1>1, <2>3, <3>1 DEF Pruning, Makes, NewestStamp
        <3>3. WorkInv(w) BY <3>1, <3>2 DEF WorkInv
        <3> QED BY <1>1, <1>3, <2>3, <3>1, <3>3, GoOnKeeps DEF Backup!EndPruning, Backup!Then
    <2>4. CASE Backup!Leave(j)
        BY <1>1, <2>4, GiveUpKeeps
    <2> QED BY <1>3, <2>1, <2>2, <2>3, <2>4 DEF Backup!EndPruning
<1>4. v.kind = "prune" => v.stage = "count" BY <1>1 DEF Pruning
<1> QED BY <1>2, <1>3, <1>4 DEF Backup!EndStage

LEMMA CheckKeeps ==
    ASSUME PairsInv, BackupNumbers, NEW j \in Operation, Backup!Check(j)
    PROVE  PairsInv' /\ KeepsPairs
<1> DEFINE v == job[j]
<1>1. v \in Backup!Work /\ v.pc = "checking" /\ Copying(v) /\ Makes(v) /\ NewestStamp(v)
      /\ file[<<"replica", v.db, v.stamp>>] = "good"
    BY DEF Backup!Check, PairsInv, Backup!TypeOK, WorkInv, Copying
<1>2. CASE v.db = "sec_monitor"
    <2> DEFINE w == [v EXCEPT !.pc = "copying", !.db = "small_cap"]
    <2>1. w \in Backup!Work /\ w.pc = "copying" /\ w.kind = v.kind /\ w.stamp = v.stamp
          /\ w.dir = v.dir /\ w.db = "small_cap"
        BY <1>1 DEF Backup!Work, Backup!PC, Backup!DB
    <2>2. Copying(w) /\ NewestStamp(w)
        BY <1>1, <1>2, <2>1 DEF Copying, Makes, NewestStamp
    <2>3. WorkInv(w) BY <2>1, <2>2 DEF WorkInv
    <2> QED BY <1>1, <1>2, <2>1, <2>3, GoOnKeeps DEF Backup!Check
<1>3. CASE v.db # "sec_monitor"
    <2> DEFINE w == [v EXCEPT !.pc = "pruning", !.stage = "age"]
    <2>1. w \in Backup!Work /\ w.pc = "pruning" /\ w.kind = v.kind /\ w.stamp = v.stamp
          /\ w.dir = v.dir
        BY <1>1 DEF Backup!Work, Backup!PC, Backup!Stage
    <2>2. v.db = "small_cap" BY <1>1, <1>3 DEF Backup!Work, Backup!DB
    <2>3. Backup!Good("replica", v.stamp)
        BY <1>1, <2>2 DEF Copying, Backup!Good, Backup!DB
    <2>4. Pruning(w) /\ NewestStamp(w)
        BY <1>1, <2>1, <2>3 DEF Copying, Pruning, Makes, NewestStamp
    <2>5. WorkInv(w) BY <2>1, <2>4 DEF WorkInv
    <2> QED BY <1>1, <1>3, <2>1, <2>5, GoOnKeeps DEF Backup!Check
<1> QED BY <1>2, <1>3

LEMMA VerifyKeeps ==
    ASSUME PairsInv, BackupNumbers, NEW j \in Operation, Backup!VerifyBeforePruning(j)
    PROVE  PairsInv' /\ KeepsPairs
<1> DEFINE v == job[j]
           w == [v EXCEPT !.pc = "pruning", !.stage = "count"]
<1>1. v \in Backup!Work /\ v.pc = "verifying" /\ v.kind = "prune" /\ v.dir = "local"
      /\ drill \in Backup!DrillStatus \cup {"none"}
    BY DEF Backup!VerifyBeforePruning, PairsInv, Backup!TypeOK, WorkInv
<1>2. CASE \A d \in Backup!UsedDir : Backup!Restorable(d)
    <2>1. w \in Backup!Work /\ w.pc = "pruning" /\ w.kind = v.kind /\ w.dir = "local"
          /\ w.stage = "count"
        BY <1>1 DEF Backup!Work, Backup!PC, Backup!Stage
    <2>2. \A d \in Backup!UsedDir : NewestGood(d) BY <1>2, RestorableIsGood
    <2>3. Pruning(w) /\ ~Makes(w) BY <1>1, <2>1, <2>2 DEF Pruning, Makes
    <2>4. WorkInv(w) BY <2>1, <2>3 DEF WorkInv
    <2> QED BY <1>1, <1>2, <2>1, <2>4, GoOnKeeps DEF Backup!VerifyBeforePruning, Backup!Then
<1>3. CASE ~\A d \in Backup!UsedDir : Backup!Restorable(d)
    BY <1>1, <1>3, GiveUpKeeps DEF Backup!VerifyBeforePruning
<1> QED BY <1>2, <1>3

LEMMA PickKeeps ==
    ASSUME PairsInv, BackupNumbers, NEW j \in Operation, Backup!Pick(j)
    PROVE  PairsInv' /\ KeepsPairs
<1> DEFINE v == job[j]
           w == [v EXCEPT !.stamp = Backup!Newest(v.dir), !.pc = "rehearsing"]
<1>1. v \in Backup!Work /\ v.pc = "picking" /\ Rehearsing(v)
      /\ job' = [job EXCEPT ![j].stamp = Backup!Newest(v.dir), ![j].pc = "rehearsing"]
    BY DEF Backup!Pick, PairsInv, Backup!TypeOK, WorkInv
<1>2. \/ Backup!Newest(v.dir) = 0 /\ Backup!Complete(v.dir) = {}
      \/ /\ Whole(v.dir, Backup!Newest(v.dir))
         /\ NewerPairs(v.dir, Backup!Newest(v.dir)) = {}
    BY NewestIsThere DEF Backup!Newest, Whole
<1>3. Backup!Newest(v.dir) \in 0..MaxStamp
    BY <1>2 DEF Whole, Backup!Complete, Backup!Stamp, BackupNumbers
<1>4. w \in Backup!Work /\ w.pc = "rehearsing" /\ w.kind = v.kind
      /\ w.stamp = Backup!Newest(v.dir) /\ w.dir = v.dir /\ w.local = v.local
    BY <1>1, <1>3 DEF Backup!Work, Backup!PC
<1>5. job' = [job EXCEPT ![j] = w] BY <1>1
<1>6. Rehearsing(w) /\ ~Makes(w) BY <1>1, <1>2, <1>4 DEF Rehearsing, Makes
<1>7. WorkInv(w) BY <1>4, <1>6 DEF WorkInv
<1> QED BY <1>1, <1>4, <1>5, <1>7, GoOnKeeps DEF Backup!Pick

\* A pair that was picked and found good restores.
LEMMA PickedRestores ==
    ASSUME NEW w \in Backup!Work, Rehearsing(w), w.pc = "rehearsing", w.stamp # 0,
           Backup!Good(w.dir, w.stamp)
    PROVE  NewestGood(w.dir)
BY DEF Rehearsing, NewestGood, Whole

LEMMA RehearseKeeps ==
    ASSUME PairsInv, BackupNumbers, NEW j \in Operation, Backup!Rehearse(j)
    PROVE  PairsInv' /\ KeepsPairs
           /\ (drill' = "ready" /\ job'[j].pc = "idle"
                 => \A d \in Backup!UsedDir : Backup!Restorable(d))
<1> DEFINE v == job[j]
           status == IF v.stamp = 0 THEN "unavailable"
                     ELSE IF Backup!Good(v.dir, v.stamp) THEN "ready" ELSE "failed"
           w == [v EXCEPT !.pc = "picking", !.dir = "replica", !.local = status]
<1>1. v \in Backup!Work /\ v.pc = "rehearsing" /\ Rehearsing(v) /\ v.kind = "drill"
      /\ drill \in Backup!DrillStatus \cup {"none"}
      /\ UNCHANGED <<clock, cutoff, file, deaths>> /\ v.dir \in Backup!Dir
      /\ v.local \in Backup!DrillStatus
    BY DEF Backup!Rehearse, PairsInv, Backup!TypeOK, WorkInv, Rehearsing, Backup!Work
<1>2. status \in Backup!DrillStatus /\ (status = "ready" => NewestGood(v.dir))
    BY <1>1, PickedRestores DEF Backup!DrillStatus
<1> HIDE DEF status
<1>3. CASE v.dir = "local" /\ Replica
    <2>1. job' = [job EXCEPT ![j] = w] /\ UNCHANGED <<mu, drill>>
        BY <1>3 DEF Backup!Rehearse, Backup!Then, status
    <2>2. w \in Backup!Work /\ w.pc = "picking" /\ w.kind = v.kind /\ w.dir = "replica"
          /\ w.local = status
        BY <1>1, <1>2 DEF Backup!Work, Backup!PC, Backup!Dir
    <2>3. Rehearsing(w) /\ ~Makes(w) BY <1>1, <1>2, <1>3, <2>2 DEF Rehearsing, Makes
    <2>4. WorkInv(w) BY <2>2, <2>3 DEF WorkInv
    <2>5. job'[j] = w BY <2>1 DEF PairsInv, Backup!TypeOK
    <2> QED BY <1>1, <2>1, <2>2, <2>4, <2>5, GoOnKeeps
<1>4. CASE ~(v.dir = "local" /\ Replica)
    <2>1. drill' = Backup!Overall(IF Replica THEN v.local ELSE status, status) /\ Backup!Leave(j)
        BY <1>4 DEF Backup!Rehearse, status
    <2>2. drill' \in Backup!DrillStatus BY <1>1, <1>2, <2>1 DEF Backup!Overall, Backup!DrillStatus
    <2>3. PairsInv' /\ KeepsPairs BY <1>1, <2>1, <2>2, GiveUpKeeps
    <2>4. ASSUME drill' = "ready" PROVE \A d \in Backup!UsedDir : NewestGood(d)
        <3>1. status = "ready" /\ (Replica => v.local = "ready")
            BY <2>1, <2>4 DEF Backup!Overall
        <3>2. CASE Replica
            <4>1. v.dir = "replica" BY <1>1, <1>4, <3>2 DEF Backup!Dir
            <4> QED BY <1>1, <1>2, <3>1, <3>2, <4>1 DEF Rehearsing, Backup!UsedDir, Backup!Dir
        <3>3. CASE ~Replica
            BY <1>1, <1>2, <3>1, <3>3 DEF Rehearsing, Backup!UsedDir, Backup!Dir
        <3> QED BY <3>2, <3>3
    <2> QED BY <2>3, <2>4, RestorableIsGood
<1> QED BY <1>3, <1>4

-----------------------------------------------------------------------------
(* Steps that make or remove a file.                                       *)

\* Counting over a step.
LEMMA NewerCompare ==
    ASSUME BackupNumbers, NEW d, NEW r, NEW s, NewerPairs(d, r) \subseteq NewerPairs(d, s)'
    PROVE  Backup!Newer(d, r) <= Backup!Newer(d, s)'
<1>1. NewerPairs(d, s)' \subseteq 1..MaxStamp /\ MaxStamp \in Int
    BY DEF NewerPairs, Backup!Complete, Backup!Stamp, BackupNumbers
<1>2. IsFiniteSet(NewerPairs(d, s)')
    <2>1. IsFiniteSet(1..MaxStamp) BY <1>1, FS_Interval
    <2> QED BY <1>1, <2>1, FS_Subset
<1>3. Backup!Newer(d, r) = Cardinality(NewerPairs(d, r))
    BY BackupCardinality DEF Backup!Newer, NewerPairs
<1>4. Backup!Newer(d, s)' = Cardinality(NewerPairs(d, s)')
    BY BackupCardinality DEF Backup!Newer, NewerPairs
<1> QED BY <1>2, <1>3, <1>4, FS_Subset

LEMMA PrimedCount ==
    ASSUME BackupNumbers PROVE \A d, s : Backup!Newer(d, s)' \in Nat
<1> SUFFICES ASSUME NEW d, NEW s PROVE Backup!Newer(d, s)' \in Nat OBVIOUS
<1>1. NewerPairs(d, s)' \subseteq 1..MaxStamp /\ MaxStamp \in Int
    BY DEF NewerPairs, Backup!Complete, Backup!Stamp, BackupNumbers
<1>2. IsFiniteSet(NewerPairs(d, s)')
    <2>1. IsFiniteSet(1..MaxStamp) BY <1>1, FS_Interval
    <2> QED BY <1>1, <2>1, FS_Subset
<1>3. Backup!Newer(d, s)' = Cardinality(NewerPairs(d, s)')
    BY BackupCardinality DEF Backup!Newer, NewerPairs
<1> QED BY <1>2, <1>3, FS_CardinalityType

\* A whole pair in the local directory restores.
LEMMA LocalPairsGood ==
    ASSUME PairsInv
    PROVE  \A s : Whole("local", s) => Backup!Good("local", s)
BY DEF PairsInv, Backup!TypeOK, LocalGood, Whole, Backup!Complete, Backup!Exists, Backup!Good,
       Backup!Path, Backup!Dir, Backup!DB, Backup!Content

\* The pair that is being made is newer than all others.
LEMMA OwnIsNewest ==
    ASSUME NEW w, NewestStamp(w), NEW d \in Backup!Dir
    PROVE  NewerPairs(d, w.stamp) = {}
<1> SUFFICES ASSUME NEW t \in NewerPairs(d, w.stamp) PROVE FALSE OBVIOUS
<1>1. t \in Backup!Stamp /\ t > w.stamp /\ file[<<d, "sec_monitor", t>>] # "none"
    BY DEF NewerPairs, Backup!Complete, Backup!Exists, Backup!DB
<1>2. <<d, "sec_monitor", t>> \in Backup!Path BY <1>1 DEF Backup!Path, Backup!DB
<1>3. t <= w.stamp BY <1>1, <1>2 DEF NewestStamp
<1> QED BY <1>1, <1>3 DEF NewestStamp, Backup!Stamp

LEMMA PairsAreKnown ==
    ASSUME PairsInv, NEW d \in Backup!Dir, NEW s, Whole(d, s)
    PROVE  s \in Backup!Stamp /\ s <= clock
<1>1. s \in Backup!Stamp /\ file[<<d, "sec_monitor", s>>] # "none"
    BY DEF Whole, Backup!Complete, Backup!Exists, Backup!DB
<1>2. <<d, "sec_monitor", s>> \in Backup!Path BY <1>1 DEF Backup!Path, Backup!DB
<1> QED BY <1>1, <1>2 DEF PairsInv, KnownStamps

\* Without a copy that is being checked every pair is settled.
LEMMA AllSettled ==
    ASSUME NEW d, \A i \in Operation : job[i].pc # "checking" \/ job[i].dir # d
    PROVE  Backup!Settled(d) = Backup!Complete(d)
BY DEF Backup!Settled

\* What the next state is made of, when goroutine j changed files.
LEMMA FilesKeep ==
    ASSUME PairsInv, BackupNumbers, NEW j \in Operation, NEW w \in Backup!Work, Becomes(j, w),
           mu = j, UNCHANGED <<clock, cutoff, drill, deaths>>,
           file' \in [Backup!Path -> Backup!Content], LocalGood', KnownStamps', CopiesOfPairs',
           HalvesAreOld', WorkInv(w)'
    PROVE  PairsInv'
<1> USE DEF PairsInv
<1>1. /\ job' \in [Operation -> Backup!Work] /\ mu' \in Operation \cup {None}
      /\ job'[j] = w
      /\ \A i \in Operation : i # j => job'[i] = job[i] /\ job[i].pc = "idle"
      /\ \A i \in Operation : mu' = i <=> job'[i].pc # "idle"
    BY JobsKept
<1>2. Backup!TypeOK' BY <1>1 DEF Backup!TypeOK
<1>3. \A i \in Operation : WorkInv(job[i])' BY <1>1, IdleWork
<1> QED BY <1>2, <1>3

LEMMA PublishKeeps ==
    ASSUME PairsInv, BackupNumbers, NEW j \in Operation, Backup!Publish(j)
    PROVE  PairsInv' /\ KeepsPairs
<1>v. PICK v : v = job[j] OBVIOUS
<1>w. PICK w : w = IF v.db = "sec_monitor" THEN [v EXCEPT !.db = "small_cap"]
                                           ELSE [v EXCEPT !.pc = "pruning"]
    OBVIOUS
<1>1. /\ v \in Backup!Work /\ v.pc = "publishing" /\ Publishing(v) /\ NewestStamp(v) /\ Makes(v)
      /\ v.dir = "local" /\ v.db \in Backup!DB /\ v.stamp \in Backup!Stamp
      /\ job' = [job EXCEPT ![j] = w] /\ UNCHANGED <<clock, cutoff, mu, drill, deaths>>
      /\ file' = [file EXCEPT ![<<"local", v.db, v.stamp>>] = "good"]
      /\ file \in [Backup!Path -> Backup!Content]
    BY <1>v, <1>w
    DEF Backup!Publish, PairsInv, Backup!TypeOK, WorkInv, Publishing, NewestStamp, Backup!Work
<1>2. /\ w \in Backup!Work /\ w.kind = v.kind /\ w.stamp = v.stamp /\ w.dir = v.dir
      /\ w.stage = v.stage
      /\ v.db = "sec_monitor" => w.pc = "publishing" /\ w.db = "small_cap"
      /\ v.db = "small_cap" => w.pc = "pruning"
    BY <1>1, <1>w DEF Backup!Work, Backup!PC, Backup!DB
<1>3. mu = j /\ Becomes(j, w) /\ \A i \in Operation : i # j => job[i].pc = "idle"
    BY <1>1, <1>2, <1>v, OneAtWork DEF PairsInv, Becomes, Backup!DB
<1>4. /\ <<"local", v.db, v.stamp>> \in Backup!Path
      /\ file'[<<"local", v.db, v.stamp>>] = "good"
      /\ \A p \in Backup!Path : p # <<"local", v.db, v.stamp>> => file'[p] = file[p]
      /\ file' \in [Backup!Path -> Backup!Content]
    BY <1>1 DEF Backup!Path, Backup!Dir, Backup!Content
<1>5. LocalGood' /\ KnownStamps'
    <2>1. LocalGood'
        BY <1>4 DEF PairsInv, LocalGood, Backup!Path, Backup!Dir
    <2>2. KnownStamps' BY <1>1, <1>4 DEF PairsInv, KnownStamps, NewestStamp
    <2> QED BY <2>1, <2>2
<1>6. \A d \in Backup!Dir, db \in Backup!DB, s \in Backup!Stamp :
          d # "local" \/ s # v.stamp => file'[<<d, db, s>>] = file[<<d, db, s>>]
    BY <1>4 DEF Backup!Path
<1>7. \A d \in Backup!Dir :
          /\ Backup!Complete(d) \subseteq Backup!Complete(d)'
          /\ \A s \in Backup!Complete(d) : Backup!Good(d, s) => Backup!Good(d, s)'
    BY <1>4 DEF Backup!Complete, Backup!Exists, Backup!Good, Backup!Path
<1>8. CopiesOfPairs'
    BY <1>1, <1>6, <1>7 DEF PairsInv, CopiesOfPairs, Backup!Exists, Whole, Backup!Dir
<1>9. v.db = "small_cap" => Whole("local", v.stamp)'
    BY <1>1, <1>4, <1>6 DEF Publishing, Whole, Backup!Complete, Backup!Exists, Backup!DB,
        Backup!Path, Backup!Dir
<1>10. HalvesAreOld'
    <2> SUFFICES ASSUME deaths = 0, NEW s \in Backup!Single("local")', s # v.stamp
                 PROVE  Backup!Newer("local", s)' >= 2
        <3>1. ASSUME Backup!Newer("local", v.stamp)' < 2, v.stamp \in Backup!Single("local")'
              PROVE  \E i \in Operation : job'[i].pc = "publishing" /\ job'[i].stamp = v.stamp
            <4>1. v.db = "sec_monitor"
                BY <1>1, <1>9, <3>1 DEF Backup!Single, Whole, Backup!DB
            <4> QED BY <1>1, <1>2, <4>1 DEF PairsInv, Backup!TypeOK
        <3> QED BY <1>1, <3>1, PrimedCount DEF HalvesAreOld
    <2>1. s \in Backup!Single("local")
        BY <1>6, <1>7 DEF Backup!Single, Backup!Complete, Backup!Exists, Backup!Dir
    <2>2. Backup!Newer("local", s) >= 2 BY <1>1, <1>3, <1>v, <2>1 DEF PairsInv, HalvesAreOld
    <2>3. NewerPairs("local", s) \subseteq NewerPairs("local", s)'
        BY <1>7 DEF NewerPairs, Backup!Dir
    <2>4. Backup!Newer("local", s) <= Backup!Newer("local", s)' BY <2>3, NewerCompare
    <2>5. Backup!Newer("local", s) \in Nat /\ Backup!Newer("local", s)' \in Nat
        BY NewerCount, PrimedCount
    <2> QED BY <2>2, <2>4, <2>5
<1>11. NewestStamp(w)'
    BY <1>1, <1>2, <1>4 DEF NewestStamp, Backup!Stamp, BackupNumbers
<1>12. WorkInv(w)'
    <2>1. CASE v.db = "sec_monitor"
        <3>1. Publishing(w)'
            BY <1>1, <1>2, <1>4, <1>6, <2>1
            DEF Publishing, Makes, Backup!DB, Backup!Dir, Backup!Path
        <3> QED BY <1>2, <1>11, <2>1, <3>1 DEF WorkInv
    <2>2. CASE v.db = "small_cap"
        <3>1. Pruning(w)'
            BY <1>1, <1>2, <1>6, <1>9, <2>2 DEF Pruning, Publishing, Makes, Backup!Dir
        <3> QED BY <1>2, <1>11, <2>2, <3>1 DEF WorkInv
    <2> QED BY <1>1, <2>1, <2>2 DEF Backup!DB
<1>13. PairsInv' BY <1>1, <1>2, <1>3, <1>4, <1>5, <1>8, <1>10, <1>12, FilesKeep
<1>14. \A d : Backup!Settled(d) = Backup!Complete(d) BY <1>1, <1>3, <1>v, AllSettled
<1>15. \A i \in Operation : job'[i].pc # "checking"
    BY <1>1, <1>2, <1>3 DEF PairsInv, Backup!TypeOK, Backup!DB
<1>16. \A d : Backup!Settled(d)' = Backup!Complete(d)' BY <1>15 DEF Backup!Settled
<1> QED BY <1>7, <1>13, <1>14, <1>16 DEF KeepsPairs, Backup!Recoverable

LEMMA PublishFailsKeeps ==
    ASSUME PairsInv, BackupNumbers, NEW j \in Operation, Backup!PublishFails(j)
    PROVE  PairsInv' /\ KeepsPairs
<1>v. PICK v : v = job[j] OBVIOUS
<1>w. PICK w : w = Backup!Rest OBVIOUS
<1>1. /\ v \in Backup!Work /\ v.pc = "publishing" /\ Publishing(v) /\ v.stamp \in Backup!Stamp
      /\ Backup!Leave(j) /\ UNCHANGED <<clock, cutoff, drill, deaths>>
      /\ file' = [p \in Backup!Path |-> IF p[1] = "local" /\ p[3] = v.stamp
                                        THEN "none" ELSE file[p]]
      /\ file \in [Backup!Path -> Backup!Content]
    BY <1>v DEF Backup!PublishFails, PairsInv, Backup!TypeOK, WorkInv, Publishing, NewestStamp
<1>2. w \in Backup!Work /\ w.pc = "idle" BY <1>w, RestIsWork DEF Backup!Rest
<1>3. mu = j /\ Becomes(j, w) /\ \A i \in Operation : i # j => job[i].pc = "idle"
    BY <1>1, <1>v, <1>w, OneAtWork, LeaveBecomes DEF PairsInv
<1>4. /\ file' \in [Backup!Path -> Backup!Content]
      /\ \A p \in Backup!Path : file'[p] = IF p[1] = "local" /\ p[3] = v.stamp
                                           THEN "none" ELSE file[p]
    BY <1>1 DEF Backup!Content
<1>5. \A d \in Backup!Dir, db \in Backup!DB, s \in Backup!Stamp :
          /\ d # "local" \/ s # v.stamp => file'[<<d, db, s>>] = file[<<d, db, s>>]
          /\ d = "local" /\ s = v.stamp => file'[<<d, db, s>>] = "none"
    BY <1>4 DEF Backup!Path
<1>6. ~Whole("local", v.stamp)
    BY <1>1 DEF Publishing, Whole, Backup!Complete, Backup!Exists, Backup!DB
<1>7. \A d \in Backup!Dir : Backup!Complete(d)' = Backup!Complete(d)
    BY <1>5, <1>6 DEF Backup!Complete, Backup!Exists, Whole, Backup!DB
<1>8. \A d \in Backup!Dir : \A s \in Backup!Complete(d) :
          Backup!Good(d, s)' <=> Backup!Good(d, s)
    BY <1>5, <1>6 DEF Backup!Complete, Backup!Good, Whole
<1>9. LocalGood' /\ KnownStamps' /\ CopiesOfPairs'
    <2>1. LocalGood' BY <1>5 DEF PairsInv, LocalGood, Backup!Dir
    <2>2. KnownStamps' BY <1>1, <1>4 DEF PairsInv, KnownStamps
    <2>3. CopiesOfPairs'
        BY <1>1, <1>5, <1>7 DEF PairsInv, CopiesOfPairs, Backup!Exists, Whole, Backup!Dir
    <2> QED BY <2>1, <2>2, <2>3
<1>10. HalvesAreOld'
    <2> SUFFICES ASSUME deaths = 0, NEW s \in Backup!Single("local")'
                 PROVE  Backup!Newer("local", s)' >= 2
        BY <1>1 DEF HalvesAreOld
    <2>1. s \in Backup!Single("local") /\ s # v.stamp
        BY <1>5, <1>7 DEF Backup!Single, Backup!Exists, Backup!Dir
    <2>2. Backup!Newer("local", s) >= 2 BY <1>1, <1>3, <1>v, <2>1 DEF PairsInv, HalvesAreOld
    <2>3. Backup!Newer("local", s)' = Backup!Newer("local", s)
        BY <1>7 DEF Backup!Newer, Backup!Dir
    <2> QED BY <2>2, <2>3
<1>11. WorkInv(w)' BY <1>2, IdleWork
<1>12. PairsInv' BY <1>1, <1>2, <1>3, <1>4, <1>9, <1>10, <1>11, FilesKeep
<1>13. \A d : Backup!Settled(d) \subseteq Backup!Complete(d) BY DEF Backup!Settled
<1>14. \A i \in Operation : job'[i].pc # "checking"
    BY <1>2, <1>3 DEF PairsInv, Backup!TypeOK, Becomes
<1>15. \A d : Backup!Settled(d)' = Backup!Complete(d)' BY <1>14 DEF Backup!Settled
<1> QED BY <1>7, <1>8, <1>12, <1>13, <1>15 DEF KeepsPairs, Backup!Recoverable

\* While files are removed a pair restores, and it is the newest one.
LEMMA PruningKeepsNewest ==
    ASSUME PairsInv, NEW w, Pruning(w), Makes(w) => NewestStamp(w), w.dir \in Backup!Dir,
           w.kind \in Backup!Kind
    PROVE  NewestGood(w.dir)
<1>1. CASE w.kind = "prune"
    BY <1>1 DEF Pruning, Backup!UsedDir, Backup!Dir
<1>2. CASE Makes(w) /\ w.dir = "local"
    <2>1. Whole("local", w.stamp) /\ Backup!Good("local", w.stamp)
        BY <1>2, LocalPairsGood DEF Pruning
    <2> QED BY <1>2, <2>1, OwnIsNewest DEF NewestGood, Whole, Backup!Dir
<1>3. CASE Makes(w) /\ w.dir = "replica"
    <2>1. Backup!Good("replica", w.stamp) /\ w.stamp \in Backup!Stamp
        BY <1>3 DEF Pruning, NewestStamp
    <2>2. Whole("replica", w.stamp)
        BY <2>1 DEF Whole, Backup!Complete, Backup!Exists, Backup!Good
    <2> QED BY <1>3, <2>1, <2>2, OwnIsNewest DEF NewestGood, Whole, Backup!Dir
<1> QED BY <1>1, <1>2, <1>3 DEF Pruning, Makes, Backup!Kind, Backup!Dir

LEMMA RemoveKeeps ==
    ASSUME PairsInv, BackupNumbers, NEW j \in Operation, Backup!Remove(j)
    PROVE  PairsInv' /\ KeepsPairs
<1>v. PICK v : v = job[j] OBVIOUS
<1>1. /\ v \in Backup!Work /\ v.pc = "removing" /\ Pruning(v) /\ Removing(v)
      /\ (Makes(v) => NewestStamp(v)) /\ v.dir \in Backup!Dir /\ v.kind \in Backup!Kind
      /\ v.doomed \subseteq Backup!DB \X Backup!Stamp
      /\ file \in [Backup!Path -> Backup!Content]
      /\ UNCHANGED <<clock, cutoff, mu, drill, deaths>>
    BY <1>v DEF Backup!Remove, PairsInv, Backup!TypeOK, WorkInv, Backup!Work
<1>f. PICK f \in v.doomed :
          /\ \A g \in v.doomed \ {f} : Backup!Before(f, g)
          /\ file' = [file EXCEPT ![<<v.dir, f[1], f[2]>>] = "none"]
          /\ job' = [job EXCEPT ![j].doomed = @ \ {f}]
    BY <1>v DEF Backup!Remove
<1>w. PICK w : w = [v EXCEPT !.doomed = v.doomed \ {f}] OBVIOUS
<1>d. PICK d \in Backup!Dir : d = v.dir BY <1>1
<1>s. PICK s \in Backup!Stamp : s = f[2] BY <1>1, <1>f
<1>2. /\ w \in Backup!Work /\ w.kind = v.kind /\ w.stamp = v.stamp /\ w.dir = d
      /\ w.stage = v.stage /\ w.pc = "removing" /\ w.doomed = v.doomed \ {f}
    BY <1>1, <1>w, <1>d DEF Backup!Work
<1>3. /\ mu = j /\ Becomes(j, w) /\ \A i \in Operation : i # j => job[i].pc = "idle"
    <2>1. job' = [job EXCEPT ![j] = w] BY <1>f, <1>v, <1>w
    <2> QED BY <1>1, <1>2, <1>v, <2>1, OneAtWork DEF PairsInv, Becomes
<1>4. /\ file' \in [Backup!Path -> Backup!Content]
      /\ \A p \in Backup!Path : file'[p] = file[p] \/ file'[p] = "none"
      /\ \A p \in Backup!Path : p[1] # d \/ p[3] # s => file'[p] = file[p]
      /\ file'[<<d, f[1], s>>] = "none"
    <2>1. <<d, f[1], s>> \in Backup!Path /\ file' = [file EXCEPT ![<<d, f[1], s>>] = "none"]
        BY <1>1, <1>d, <1>f, <1>s DEF Backup!Path
    <2> QED BY <1>1, <2>1 DEF Backup!Content, Backup!Path
<1>5. \A e \in Backup!Dir, db \in Backup!DB, t \in Backup!Stamp :
          /\ file'[<<e, db, t>>] = file[<<e, db, t>>] \/ file'[<<e, db, t>>] = "none"
          /\ e # d \/ t # s => file'[<<e, db, t>>] = file[<<e, db, t>>]
    BY <1>4 DEF Backup!Path
<1>6. /\ Backup!Complete(d)' = Backup!Complete(d) \ {s}
      /\ \A e \in Backup!Dir : e # d => Backup!Complete(e)' = Backup!Complete(e)
      /\ \A e \in Backup!Dir, t \in Backup!Stamp :
            e # d \/ t # s => (Backup!Good(e, t)' <=> Backup!Good(e, t))
    <2>1. f[1] \in Backup!DB BY <1>1, <1>f
    <2> QED BY <1>4, <1>5, <2>1 DEF Backup!Complete, Backup!Exists, Backup!Good
<1>7. Whole(d, s) => Backup!Newer(d, s) >= 2 BY <1>1, <1>d, <1>f, <1>s DEF Removing
<1>8. \A e, t : Backup!Newer(e, t) \in Nat /\ Backup!Newer(e, t)' \in Nat
    BY NewerCount, PrimedCount
\* Whatever has two newer pairs keeps two.
<1>9. ASSUME NEW e \in Backup!Dir, NEW t \in Backup!Stamp, Backup!Newer(e, t) >= 2
      PROVE  Backup!Newer(e, t)' >= 2
    <2>1. CASE e = d /\ s \in NewerPairs(d, t)
        <3>1. Whole(d, s) BY <2>1 DEF NewerPairs, Whole
        <3>2. NewerPairs(d, s) \subseteq NewerPairs(d, t)'
            BY <1>6, <2>1 DEF NewerPairs, Backup!Complete, Backup!Stamp, BackupNumbers
        <3>3. Backup!Newer(d, s) <= Backup!Newer(d, t)' BY <3>2, NewerCompare
        <3> QED BY <1>7, <1>8, <2>1, <3>1, <3>3
    <2>2. CASE ~(e = d /\ s \in NewerPairs(d, t))
        <3>1. NewerPairs(e, t) \subseteq NewerPairs(e, t)' BY <1>6, <2>2 DEF NewerPairs
        <3>2. Backup!Newer(e, t) <= Backup!Newer(e, t)' BY <3>1, NewerCompare
        <3> QED BY <1>8, <1>9, <3>2
    <2> QED BY <2>1, <2>2
\* The newest pair is not the one that goes.
<1>10. ASSUME NEW e \in Backup!Dir, NewestGood(e)
       PROVE  NewestGood(e)' /\ \E t \in Backup!Complete(e) : Backup!Good(e, t) /\ (e # d \/ t # s)
    <2>1. PICK t \in Backup!Complete(e) : NewerPairs(e, t) = {} /\ Backup!Good(e, t)
        BY <1>10 DEF NewestGood
    <2>2. e # d \/ t # s
        <3>1. Backup!Newer(e, t) = 0 BY <2>1, NewerCount
        <3> QED BY <1>7, <2>1, <3>1 DEF Whole
    <2>3. t \in Backup!Complete(e)' /\ NewerPairs(e, t)' = {} /\ Backup!Good(e, t)'
        BY <1>6, <2>1, <2>2 DEF NewerPairs, Backup!Complete
    <2> QED BY <2>1, <2>2, <2>3 DEF NewestGood
<1>11. NewestGood(d) BY <1>1, <1>d, PruningKeepsNewest
<1>12. LocalGood' /\ KnownStamps'
    <2>1. LocalGood' BY <1>5 DEF PairsInv, LocalGood, Backup!Dir
    <2>2. KnownStamps' BY <1>1, <1>4 DEF PairsInv, KnownStamps
    <2> QED BY <2>1, <2>2
<1>13. CopiesOfPairs'
    <2> SUFFICES ASSUME NEW db \in Backup!DB, NEW t \in Backup!Stamp,
                        Backup!Exists("replica", db, t)'
                 PROVE  t < clock \/ Whole("local", t)'
        BY <1>1 DEF CopiesOfPairs
    <2>1. Backup!Exists("replica", db, t) BY <1>5 DEF Backup!Exists, Backup!Dir
    <2>2. t < clock \/ Whole("local", t) BY <2>1 DEF PairsInv, CopiesOfPairs
    <2>3. CASE Whole("local", t) /\ d = "local" /\ t = s
        <3>1. NewerPairs("local", s) # {} BY <1>7, <1>8, <2>3, NewerCount
        <3>2. PICK u \in NewerPairs("local", s) : TRUE BY <3>1
        <3>3. u \in Backup!Stamp /\ u > s /\ u <= clock
            BY <3>2, PairsAreKnown DEF NewerPairs, Whole, Backup!Dir
        <3>4. clock \in Int /\ u \in Int /\ s \in Int
            BY <3>3 DEF PairsInv, Backup!TypeOK, Backup!Stamp, BackupNumbers
        <3> QED BY <2>3, <3>3, <3>4
    <2>4. CASE Whole("local", t) /\ ~(d = "local" /\ t = s)
        BY <1>6, <2>4 DEF Whole, Backup!Dir
    <2> QED BY <2>2, <2>3, <2>4
<1>14. HalvesAreOld'
    <2> SUFFICES ASSUME deaths = 0, NEW t \in Backup!Single("local")'
                 PROVE  Backup!Newer("local", t)' >= 2
        BY <1>1 DEF HalvesAreOld
    <2>1. t \in Backup!Single("local") \/ (d = "local" /\ t = s /\ Whole(d, s))
        BY <1>5, <1>6 DEF Backup!Single, Backup!Exists, Whole, Backup!Dir
    <2>2. Backup!Newer("local", t) >= 2
        BY <1>1, <1>3, <1>7, <1>v, <2>1 DEF PairsInv, HalvesAreOld
    <2> QED BY <1>9, <2>2 DEF Backup!Dir, Backup!Single
<1>15. Makes(w) => NewestStamp(w)'
    BY <1>1, <1>2, <1>4 DEF Makes, NewestStamp
<1>16. Pruning(w)'
    <2>1. ASSUME w.kind = "prune" PROVE \A e \in Backup!UsedDir : NewestGood(e)'
        <3>1. \A e \in Backup!UsedDir : NewestGood(e) /\ e \in Backup!Dir
            BY <1>1, <1>2, <2>1 DEF Pruning, Backup!UsedDir, Backup!Dir
        <3> QED BY <1>10, <3>1
    <2>2. ASSUME Makes(w)
          PROVE  /\ Whole("local", w.stamp)'
                 /\ w.dir = "local" =>
                       \A db \in Backup!DB : file'[<<"replica", db, w.stamp>>] = "none"
                 /\ w.dir = "replica" => Backup!Good("replica", w.stamp)'
        <3>1. Makes(v) /\ NewestStamp(v) /\ Whole("local", v.stamp) /\ v.stamp \in Backup!Stamp
            BY <1>1, <1>2, <2>2 DEF Makes, Pruning, NewestStamp
        <3>2. Backup!Newer(d, v.stamp) = 0 BY <3>1, OwnIsNewest, NewerCount
        <3>3. Whole(d, v.stamp)
            BY <1>1, <1>d, <3>1
            DEF Pruning, Whole, Backup!Complete, Backup!Exists, Backup!Good, Backup!Dir
        <3>4. v.stamp # s BY <1>7, <3>2, <3>3
        <3>5. Whole("local", v.stamp)' BY <1>6, <3>1, <3>4 DEF Whole, Backup!Dir
        <3>6. d = "local" => \A db \in Backup!DB : file'[<<"replica", db, v.stamp>>] = "none"
            BY <1>1, <1>5, <1>d, <3>1 DEF Pruning, Backup!Dir
        <3>7. d = "replica" => Backup!Good("replica", v.stamp)'
            BY <1>1, <1>6, <1>d, <3>1, <3>4 DEF Pruning, Backup!Dir
        <3> QED BY <1>2, <3>5, <3>6, <3>7
    <2>3. w.kind # "drill" /\ (w.dir = "replica" => Replica)
          /\ (w.kind = "prune" => w.stage = "count")
        BY <1>1, <1>2, <1>d DEF Pruning
    <2> QED BY <2>1, <2>2, <2>3 DEF Pruning
<1>17. Removing(w)'
    <2> SUFFICES ASSUME NEW g \in v.doomed, g # f, Whole(d, g[2])'
                 PROVE  Backup!Newer(d, g[2])' >= 2
        BY <1>2 DEF Removing
    <2>1. Whole(d, g[2]) BY <1>6 DEF Whole
    <2>2. Backup!Newer(d, g[2]) >= 2 BY <1>1, <1>d, <2>1 DEF Removing
    <2> QED BY <1>1, <1>9, <2>2
<1>18. WorkInv(w)' BY <1>2, <1>15, <1>16, <1>17 DEF WorkInv
<1>19. PairsInv' BY <1>1, <1>2, <1>3, <1>4, <1>12, <1>13, <1>14, <1>18, FilesKeep
<1>20. \A e : Backup!Settled(e) = Backup!Complete(e) BY <1>1, <1>3, <1>v, AllSettled
<1>21. \A i \in Operation : job'[i].pc # "checking"
    BY <1>2, <1>3 DEF PairsInv, Backup!TypeOK, Becomes
<1>22. \A e : Backup!Settled(e)' = Backup!Complete(e)' BY <1>21 DEF Backup!Settled
<1>23. ASSUME NEW e \in Backup!Dir
       PROVE  /\ \A t \in Backup!Complete(e) : t \notin Backup!Complete(e)' =>
                    Backup!Newer(e, t) >= 2
              /\ (\E t \in Backup!Complete(e) : Backup!Good(e, t))
                    => \E t \in Backup!Complete(e)' : Backup!Good(e, t)'
    <2>1. CASE e # d BY <1>6, <2>1 DEF Backup!Complete
    <2>2. CASE e = d
        BY <1>6, <1>7, <1>10, <1>11, <2>2 DEF Whole, Backup!Complete
    <2> QED BY <2>1, <2>2
<1> QED BY <1>19, <1>20, <1>22, <1>23 DEF KeepsPairs, Backup!Recoverable

\* Only the copies of the pair in the making change.
LEMMA CopyFiles ==
    ASSUME PairsInv, BackupNumbers, NEW v \in Backup!Work, Copying(v), NewestStamp(v),
           UNCHANGED <<clock, deaths>>,
           file' \in [Backup!Path -> Backup!Content],
           \A p \in Backup!Path : p[1] # "replica" \/ p[3] # v.stamp => file'[p] = file[p],
           \A i \in Operation : job[i].pc # "publishing"
    PROVE  /\ \A d \in Backup!Dir, db \in Backup!DB, s \in Backup!Stamp :
                 d # "replica" \/ s # v.stamp => file'[<<d, db, s>>] = file[<<d, db, s>>]
           /\ Backup!Complete("local")' = Backup!Complete("local")
           /\ \A s \in Backup!Stamp : s # v.stamp =>
                 (s \in Backup!Complete("replica")' <=> s \in Backup!Complete("replica"))
           /\ \A d \in Backup!Dir, s \in Backup!Stamp : d # "replica" \/ s # v.stamp =>
                 (Backup!Good(d, s)' <=> Backup!Good(d, s))
           /\ LocalGood' /\ KnownStamps' /\ CopiesOfPairs' /\ HalvesAreOld'
           /\ NewestStamp(v)'
<1>1. \A d \in Backup!Dir, db \in Backup!DB, s \in Backup!Stamp :
          d # "replica" \/ s # v.stamp => file'[<<d, db, s>>] = file[<<d, db, s>>]
    BY DEF Backup!Path
<1>2. Backup!Complete("local")' = Backup!Complete("local")
    BY <1>1 DEF Backup!Complete, Backup!Exists, Backup!Dir
<1>3. \A s \in Backup!Stamp : s # v.stamp =>
          (s \in Backup!Complete("replica")' <=> s \in Backup!Complete("replica"))
    BY <1>1 DEF Backup!Complete, Backup!Exists, Backup!Dir
<1>4. \A d \in Backup!Dir, s \in Backup!Stamp : d # "replica" \/ s # v.stamp =>
          (Backup!Good(d, s)' <=> Backup!Good(d, s))
    BY <1>1 DEF Backup!Good
<1>5. LocalGood' BY <1>1 DEF PairsInv, LocalGood, Backup!Dir
<1>6. v.stamp \in Backup!Stamp /\ v.stamp <= clock BY DEF NewestStamp
<1>7. KnownStamps' BY <1>6 DEF PairsInv, KnownStamps
<1>8. CopiesOfPairs'
    BY <1>1, <1>2 DEF PairsInv, CopiesOfPairs, Backup!Exists, Whole, Copying, Backup!Dir
<1>9. HalvesAreOld'
    <2>1. Backup!Single("local")' = Backup!Single("local")
        BY <1>1, <1>2 DEF Backup!Single, Backup!Exists, Backup!Dir
    <2>2. \A s : Backup!Newer("local", s)' = Backup!Newer("local", s)
        BY <1>2 DEF Backup!Newer
    <2> QED BY <2>1, <2>2 DEF PairsInv, HalvesAreOld
<1>10. NewestStamp(v)'
    BY <1>6 DEF NewestStamp, Backup!Stamp, BackupNumbers
<1> QED BY <1>1, <1>2, <1>3, <1>4, <1>5, <1>7, <1>8, <1>9, <1>10

LEMMA CopyKeeps ==
    ASSUME PairsInv, BackupNumbers, NEW j \in Operation, Backup!Copy(j)
    PROVE  PairsInv' /\ KeepsPairs
<1>v. PICK v : v = job[j] OBVIOUS
<1>1. /\ v \in Backup!Work /\ v.pc = "copying" /\ Copying(v) /\ NewestStamp(v) /\ Makes(v)
      /\ v.stamp \in Backup!Stamp /\ v.db \in Backup!DB
      /\ file \in [Backup!Path -> Backup!Content]
      /\ UNCHANGED <<clock, cutoff, mu, drill, deaths>>
    BY <1>v
    DEF Backup!Copy, PairsInv, Backup!TypeOK, WorkInv, Copying, NewestStamp, Backup!Work
<1>w. PICK w : w = [v EXCEPT !.pc = "checking"] OBVIOUS
<1>2. /\ w \in Backup!Work /\ w.pc = "checking" /\ w.kind = v.kind /\ w.stamp = v.stamp
      /\ w.dir = v.dir /\ w.db = v.db
    BY <1>1, <1>w DEF Backup!Work, Backup!PC
<1>3. mu = j /\ Becomes(j, w) /\ \A i \in Operation : i # j => job[i].pc = "idle"
    <2>1. job' = [job EXCEPT ![j] = w] BY <1>v, <1>w DEF Backup!Copy
    <2> QED BY <1>1, <1>2, <1>v, <2>1, OneAtWork DEF PairsInv, Becomes
<1>4. PICK content \in {"good", "bad"} :
          file' = [file EXCEPT ![<<"replica", v.db, v.stamp>>] = content]
    BY <1>v DEF Backup!Copy
<1>5. /\ file' \in [Backup!Path -> Backup!Content]
      /\ \A p \in Backup!Path : p # <<"replica", v.db, v.stamp>> => file'[p] = file[p]
    BY <1>1, <1>4 DEF Backup!Content
<1>6. /\ \A d \in Backup!Dir, db \in Backup!DB, s \in Backup!Stamp :
            d # "replica" \/ s # v.stamp => file'[<<d, db, s>>] = file[<<d, db, s>>]
      /\ Backup!Complete("local")' = Backup!Complete("local")
      /\ \A s \in Backup!Stamp : s # v.stamp =>
            (s \in Backup!Complete("replica")' <=> s \in Backup!Complete("replica"))
      /\ \A d \in Backup!Dir, s \in Backup!Stamp : d # "replica" \/ s # v.stamp =>
            (Backup!Good(d, s)' <=> Backup!Good(d, s))
      /\ LocalGood' /\ KnownStamps' /\ CopiesOfPairs' /\ HalvesAreOld'
      /\ NewestStamp(v)'
    <2>1. \A i \in Operation : job[i].pc # "publishing" BY <1>1, <1>3, <1>v
    <2>2. \A p \in Backup!Path : p[1] # "replica" \/ p[3] # v.stamp => file'[p] = file[p]
        BY <1>5
    <2> QED BY <1>1, <1>5, <2>1, <2>2, CopyFiles
<1>7. \A db \in Backup!DB : db # v.db =>
          file'[<<"replica", db, v.stamp>>] = file[<<"replica", db, v.stamp>>]
    BY <1>1, <1>5 DEF Backup!Path, Backup!Dir
<1>8. Copying(w)' /\ Makes(w)
    BY <1>1, <1>2, <1>6, <1>7 DEF Copying, Makes, Whole, Backup!DB
<1>9. NewestStamp(w)' BY <1>2, <1>6 DEF NewestStamp
<1>10. WorkInv(w)' BY <1>2, <1>8, <1>9 DEF WorkInv
<1>11. PairsInv' BY <1>1, <1>2, <1>3, <1>5, <1>6, <1>10, FilesKeep
<1>12. v.stamp \notin Backup!Complete("replica")
    BY <1>1 DEF Copying, Backup!Complete, Backup!Exists, Backup!DB
<1>13. \A d : Backup!Settled(d) = Backup!Complete(d) BY <1>1, <1>3, <1>v, AllSettled
<1>14. /\ \A i \in Operation : job'[i].pc = "checking" => job'[i].stamp = v.stamp
                                                        /\ job'[i].dir = "replica"
    BY <1>1, <1>2, <1>3 DEF PairsInv, Backup!TypeOK, Becomes, Copying
<1>15. Backup!Settled("local")' = Backup!Complete("local")'
       /\ Backup!Complete("replica") \subseteq Backup!Settled("replica")'
    <2>1. Backup!Settled("local")' = Backup!Complete("local")' BY <1>14 DEF Backup!Settled
    <2>2. Backup!Complete("replica") \subseteq Backup!Stamp BY DEF Backup!Complete
    <2> QED BY <1>6, <1>12, <1>14, <2>1, <2>2 DEF Backup!Settled
<1>16. \A d \in Backup!Dir :
           /\ Backup!Complete(d) \subseteq Backup!Complete(d)'
           /\ Backup!Complete(d) \subseteq Backup!Settled(d)'
           /\ \A s \in Backup!Complete(d) : Backup!Good(d, s) => Backup!Good(d, s)'
    BY <1>6, <1>12, <1>15 DEF Backup!Dir, Backup!Complete
<1> QED BY <1>11, <1>13, <1>16 DEF KeepsPairs, Backup!Recoverable

LEMMA ReplicateFailsKeeps ==
    ASSUME PairsInv, BackupNumbers, NEW j \in Operation, Backup!ReplicateFails(j)
    PROVE  PairsInv' /\ KeepsPairs
<1>v. PICK v : v = job[j] OBVIOUS
<1>w. PICK w : w = Backup!Rest OBVIOUS
<1>1. /\ v \in Backup!Work /\ v.pc \in {"copying", "checking"} /\ Copying(v) /\ NewestStamp(v)
      /\ v.stamp \in Backup!Stamp /\ v.dir = "replica"
      /\ file \in [Backup!Path -> Backup!Content]
      /\ UNCHANGED <<clock, cutoff, drill, deaths>> /\ Backup!Leave(j)
      /\ file' = IF v.db = "small_cap"
                 THEN [file EXCEPT ![<<"replica", "sec_monitor", v.stamp>>] = "none"]
                 ELSE file
    BY <1>v
    DEF Backup!ReplicateFails, PairsInv, Backup!TypeOK, WorkInv, Copying, Makes, NewestStamp
<1>2. w \in Backup!Work /\ w.pc = "idle" BY <1>w, RestIsWork DEF Backup!Rest
<1>3. mu = j /\ Becomes(j, w) /\ \A i \in Operation : i # j => job[i].pc = "idle"
    BY <1>1, <1>v, <1>w, OneAtWork, LeaveBecomes DEF PairsInv
<1>4. /\ file' \in [Backup!Path -> Backup!Content]
      /\ \A p \in Backup!Path : p[1] # "replica" \/ p[3] # v.stamp => file'[p] = file[p]
    <2>1. CASE v.db = "small_cap"
        <3>1. file' = [file EXCEPT ![<<"replica", "sec_monitor", v.stamp>>] = "none"]
            BY <1>1, <2>1
        <3>2. "none" \in Backup!Content BY DEF Backup!Content
        <3>3. file' \in [Backup!Path -> Backup!Content] BY <1>1, <3>1, <3>2
        <3>4. \A p \in Backup!Path : p # <<"replica", "sec_monitor", v.stamp>> => file'[p] = file[p]
            BY <1>1, <3>1
        <3> QED BY <3>3, <3>4
    <2>2. CASE v.db # "small_cap" BY <1>1, <2>2
    <2> QED BY <2>1, <2>2
<1>5. /\ Backup!Complete("local")' = Backup!Complete("local")
      /\ \A s \in Backup!Stamp : s # v.stamp =>
            (s \in Backup!Complete("replica")' <=> s \in Backup!Complete("replica"))
      /\ \A d \in Backup!Dir, s \in Backup!Stamp : d # "replica" \/ s # v.stamp =>
            (Backup!Good(d, s)' <=> Backup!Good(d, s))
      /\ LocalGood' /\ KnownStamps' /\ CopiesOfPairs' /\ HalvesAreOld'
    <2>1. \A i \in Operation : job[i].pc # "publishing" BY <1>1, <1>3, <1>v
    <2> QED BY <1>1, <1>4, <2>1, CopyFiles
<1>6. PairsInv' BY <1>1, <1>2, <1>3, <1>4, <1>5, IdleWork, FilesKeep
<1>7. v.stamp \notin Backup!Settled("replica")
    <2>1. CASE v.pc = "checking" BY <1>1, <1>v, <2>1 DEF Backup!Settled
    <2>2. CASE v.pc = "copying"
        BY <1>1, <2>2 DEF Copying, Backup!Settled, Backup!Complete, Backup!Exists, Backup!DB
    <2> QED BY <1>1, <2>1, <2>2
<1>8. \A i \in Operation : job'[i].pc # "checking"
    BY <1>2, <1>3 DEF PairsInv, Backup!TypeOK, Becomes
<1>9. \A d : Backup!Settled(d)' = Backup!Complete(d)' BY <1>8 DEF Backup!Settled
<1>10. \A d : Backup!Settled(d) \subseteq Backup!Complete(d)
              /\ Backup!Complete(d) \subseteq Backup!Stamp
    BY DEF Backup!Settled, Backup!Complete
<1>11. \A d \in Backup!Dir :
           /\ Backup!Settled(d) \subseteq Backup!Complete(d)'
           /\ \A s \in Backup!Settled(d) : Backup!Good(d, s) => Backup!Good(d, s)'
    BY <1>5, <1>7, <1>10 DEF Backup!Dir
<1> QED BY <1>6, <1>9, <1>11 DEF KeepsPairs, Backup!Recoverable

-----------------------------------------------------------------------------
(* Time, crashes, and all steps together.                                  *)

LEMMA PassKeeps ==
    ASSUME PairsInv, BackupNumbers, Backup!Tick \/ Backup!Expire \/ Backup!Crash
           \/ UNCHANGED Backup!vars
    PROVE  PairsInv' /\ KeepsPairs
<1> USE DEF PairsInv
<1>1. /\ UNCHANGED file /\ clock \in Nat /\ clock' \in Backup!Stamp /\ clock' \in Nat
      /\ clock <= clock'
    BY DEF Backup!Tick, Backup!Expire, Backup!Crash, Backup!vars, Backup!TypeOK, Backup!Stamp,
           BackupNumbers
<1>2. CASE Backup!Crash
    <2>1. /\ UNCHANGED <<clock, cutoff, file, drill>> /\ deaths' = deaths + 1 /\ deaths < MaxDeaths
          /\ mu' = None /\ job' = [j \in Operation |-> Backup!Rest]
        BY <1>2 DEF Backup!Crash
    <2>2. deaths' \in 0..MaxDeaths /\ deaths' # 0 /\ Backup!Rest \in Backup!Work
        BY <2>1, RestIsWork DEF Backup!TypeOK, BackupNumbers
    <2>3. \A j \in Operation : job'[j] = Backup!Rest /\ job'[j].pc = "idle"
        BY <2>1 DEF Backup!Rest
    <2>4. Backup!TypeOK' BY <2>1, <2>2, <2>3 DEF Backup!TypeOK, BackupNumbers
    <2>5. LocalGood' /\ KnownStamps' BY <2>1 DEF LocalGood, KnownStamps
    <2>6. CopiesOfPairs' BY <2>1, SameFiles DEF CopiesOfPairs, Backup!Exists
    <2>7. HalvesAreOld' BY <2>2 DEF HalvesAreOld
    <2>8. \A j \in Operation : WorkInv(job[j])' BY <2>3, IdleWork
    <2>9. \A d : Backup!Settled(d) \subseteq Backup!Settled(d)'
        BY <1>1, <2>3, SameFiles DEF Backup!Settled
    <2>10. KeepsPairs
        BY <1>1, <2>9, SameFiles DEF KeepsPairs, Backup!Settled, Backup!Recoverable
    <2> QED BY <2>4, <2>5, <2>6, <2>7, <2>8, <2>10
<1>3. CASE Backup!Tick \/ Backup!Expire \/ UNCHANGED Backup!vars
    <2>1. UNCHANGED <<mu, job, drill, deaths>> /\ cutoff' \in 0..MaxStamp
        BY <1>3 DEF Backup!Tick, Backup!Expire, Backup!vars, Backup!TypeOK, Backup!Stamp,
            BackupNumbers
    <2>2. Backup!TypeOK' BY <1>1, <2>1 DEF Backup!TypeOK
    <2>3. LocalGood' /\ KnownStamps'
        BY <1>1 DEF LocalGood, KnownStamps, Backup!Path, Backup!Stamp, BackupNumbers
    <2>4. CopiesOfPairs'
        BY <1>1, SameFiles DEF CopiesOfPairs, Backup!Exists, Backup!Stamp, BackupNumbers
    <2>5. Backup!Single("local")' = Backup!Single("local")
        BY <1>1, SameFiles DEF Backup!Single, Backup!Exists
    <2>6. HalvesAreOld' BY <1>1, <2>1, <2>5, SameFiles DEF HalvesAreOld
    <2>7. \A j \in Operation : WorkInv(job[j])'
        <3> SUFFICES ASSUME NEW j \in Operation PROVE WorkInv(job[j])' OBVIOUS
        <3>1. PICK w \in Backup!Work : w = job[j] BY DEF Backup!TypeOK
        <3>2. WorkInv(w)' BY <1>1, <3>1, WorkKeeps
        <3>3. job'[j] = w BY <2>1, <3>1
        <3> QED BY <3>2, <3>3
    <2>8. \A d : Backup!Settled(d)' = Backup!Settled(d)
        BY <1>1, <2>1, SameFiles DEF Backup!Settled
    <2>9. KeepsPairs
        BY <1>1, <2>8, SameFiles DEF KeepsPairs, Backup!Settled, Backup!Recoverable
    <2> QED BY <2>2, <2>3, <2>4, <2>6, <2>7, <2>9
<1> QED BY <1>2, <1>3

\* A drill that ends as ready has seen every newest pair restore.
DrillTells ==
    \A j \in Operation :
        job[j].pc = "rehearsing" /\ job'[j].pc = "idle" /\ drill' = "ready" /\ deaths' = deaths
            => \A d \in Backup!UsedDir : Backup!Restorable(d)

LEMMA StepTells ==
    ASSUME PairsInv, BackupNumbers, [Backup!Next]_Backup!vars
    PROVE  DrillTells
<1> SUFFICES ASSUME NEW j \in Operation, job[j].pc = "rehearsing", job'[j].pc = "idle",
                    drill' = "ready", deaths' = deaths
             PROVE  Backup!Rehearse(j)
    BY RehearseKeeps DEF DrillTells
<1>1. mu = j /\ \A i \in Operation : i # j => job[i].pc = "idle"
    BY OneAtWork DEF PairsInv
<1>2. deaths \in Nat /\ None \notin Operation
    BY DEF PairsInv, Backup!TypeOK, BackupNumbers
<1>3. ~Backup!Crash BY <1>2 DEF Backup!Crash
<1>4. ~Backup!Tick /\ ~Backup!Expire /\ ~UNCHANGED Backup!vars
    BY DEF Backup!Tick, Backup!Expire, Backup!vars
<1>5. \A i \in Operation, kind \in Backup!Kind : ~Backup!Begin(i, kind)
    BY <1>1, <1>2 DEF Backup!Begin
<1>6. PICK i \in Operation : Backup!JobStep(i) BY <1>3, <1>4, <1>5 DEF Backup!Next
<1>7. job[i].pc # "idle"
    BY <1>6 DEF Backup!JobStep, Backup!StagePair, Backup!StageFails, Backup!Publish,
        Backup!PublishFails, Backup!StartStage, Backup!Remove, Backup!PruneFails,
        Backup!EndStage, Backup!Copy, Backup!Check, Backup!ReplicateFails, Backup!Compact,
        Backup!VerifyBeforePruning, Backup!Pick, Backup!Rehearse
<1>8. i = j BY <1>1, <1>7
<1> QED
    BY <1>6, <1>8 DEF Backup!JobStep, Backup!StagePair, Backup!StageFails, Backup!Publish,
        Backup!PublishFails, Backup!StartStage, Backup!Remove, Backup!PruneFails,
        Backup!EndStage, Backup!Copy, Backup!Check, Backup!ReplicateFails, Backup!Compact,
        Backup!VerifyBeforePruning, Backup!Pick

LEMMA PairsStart ==
    ASSUME BackupNumbers, Backup!Init
    PROVE  PairsInv
<1>1. \A j \in Operation : job[j] = Backup!Rest /\ job[j].pc = "idle"
    BY DEF Backup!Init, Backup!Rest
<1>2. Backup!TypeOK
    BY <1>1, RestIsWork DEF Backup!Init, Backup!TypeOK, Backup!Stamp, Backup!Content, BackupNumbers
<1>3. \A d \in Backup!Dir, db \in Backup!DB, s \in Backup!Stamp : file[<<d, db, s>>] = "none"
    BY DEF Backup!Init, Backup!Path
<1>4. LocalGood /\ KnownStamps /\ CopiesOfPairs
    BY <1>3 DEF Backup!Init, LocalGood, KnownStamps, CopiesOfPairs, Backup!Exists, Backup!Dir
<1>5. Backup!Single("local") = {} BY <1>3 DEF Backup!Single, Backup!Exists, Backup!Dir
<1> QED BY <1>1, <1>2, <1>4, <1>5, IdleWork DEF PairsInv, HalvesAreOld

LEMMA PairsStep ==
    ASSUME PairsInv, BackupNumbers, [Backup!Next]_Backup!vars
    PROVE  PairsInv' /\ KeepsPairs
<1>1. ASSUME NEW j \in Operation,
             Backup!StageFails(j) \/ Backup!PruneFails(j) \/ Backup!Compact(j)
      PROVE  PairsInv' /\ KeepsPairs
    <2>1. job[j].pc \notin {"idle", "publishing"} /\ Backup!Leave(j)
          /\ UNCHANGED <<clock, cutoff, file, drill, deaths>>
          /\ drill' \in Backup!DrillStatus \cup {"none"}
        BY <1>1 DEF Backup!StageFails, Backup!PruneFails, Backup!Compact, PairsInv, Backup!TypeOK
    <2> QED BY <2>1, GiveUpKeeps
<1>2. ASSUME NEW j \in Operation, Backup!JobStep(j) PROVE PairsInv' /\ KeepsPairs
    BY <1>1, <1>2, StagePairKeeps, PublishKeeps, PublishFailsKeeps, StartStageKeeps, RemoveKeeps,
       EndStageKeeps, CopyKeeps, CheckKeeps, ReplicateFailsKeeps, VerifyKeeps, PickKeeps,
       RehearseKeeps
    DEF Backup!JobStep
<1> QED BY <1>2, BeginKeeps, PassKeeps DEF Backup!Next

LEMMA PairsPromise ==
    ASSUME PairsInv
    PROVE  Backup!TypeOK /\ Backup!NoHalfPublished /\ Backup!CompactionBackedUp
<1>1. Backup!NoHalfPublished BY DEF PairsInv, HalvesAreOld, Backup!NoHalfPublished
<1>2. Backup!CompactionBackedUp
    BY LocalPairsGood DEF PairsInv, WorkInv, Backup!CompactionBackedUp
<1> QED BY <1>1, <1>2 DEF PairsInv

\* Whatever fails, crashes or comes damaged: no half pair is published, nothing
\* is compacted without its backup, the newest two pairs of a directory and the
\* last one that restores are never removed, and a drill reports what it found
\* (SQLiteBackupService).
THEOREM PairsAreSafe ==
    ASSUME BackupNumbers
    PROVE  Backup!Spec =>
               /\ [](Backup!TypeOK /\ Backup!NoHalfPublished /\ Backup!CompactionBackedUp)
               /\ Backup!NewestTwoKept /\ Backup!StaysRecoverable /\ Backup!DrillHonest
<1>1. Backup!Init => PairsInv BY PairsStart
<1>2. PairsInv /\ [Backup!Next]_Backup!vars => PairsInv' BY PairsStep
<1>3. PairsInv => Backup!TypeOK /\ Backup!NoHalfPublished /\ Backup!CompactionBackedUp
    BY PairsPromise
<1>4. PairsInv /\ [Backup!Next]_Backup!vars =>
        [\A d \in Backup!Dir : \A s \in Backup!Settled(d) :
            s \notin Backup!Complete(d)' => Backup!Newer(d, s) >= 2]_Backup!vars
    BY PairsStep DEF KeepsPairs
<1>5. PairsInv /\ [Backup!Next]_Backup!vars =>
        [\A d \in Backup!Dir : Backup!Recoverable(d) => Backup!Recoverable(d)']_Backup!vars
    BY PairsStep DEF KeepsPairs
<1>6. PairsInv /\ [Backup!Next]_Backup!vars =>
        [\A j \in Operation : job[j].pc = "rehearsing" /\ job'[j].pc = "idle"
            /\ drill' = "ready" /\ deaths' = deaths
          => \A d \in Backup!UsedDir : Backup!Restorable(d)]_Backup!vars
    BY StepTells DEF DrillTells
<1> QED BY <1>1, <1>2, <1>3, <1>4, <1>5, <1>6, PTL
    DEF Backup!Spec, Backup!NewestTwoKept, Backup!StaysRecoverable, Backup!DrillHonest

\* The run's property of the backups.
THEOREM RestorePointsSafe ==
    ASSUME BackupNumbers
    PROVE  Operations => RestorePointsKept
<1>1. OperationsInit => Backup!Init BY PartsStart
<1>2. [OperationsNext]_all => [Backup!Next]_Backup!vars
    BY PartsStep DEF Backup!vars, backupVars
<1>3. Operations => Backup!Spec BY <1>1, <1>2, PTL DEF Operations, Backup!Spec, all
<1>4. Backup!TypeOK /\ Backup!NoHalfPublished /\ Backup!CompactionBackedUp
        => (part = "backup" =>
                Backup!TypeOK /\ Backup!NoHalfPublished /\ Backup!CompactionBackedUp)
    OBVIOUS
<1> QED BY <1>3, <1>4, PairsAreSafe, PTL DEF RestorePointsKept

-----------------------------------------------------------------------------
(* The building of a universe.  One attempt works at a time, on the        *)
(* payloads its own stages brought; it writes its rows to the batch these  *)
(* name, and to no other, and leaves a batch that is published alone.  So  *)
(* all rows of a batch are made from the inputs it is named by, whichever  *)
(* attempts wrote them.                                                    *)

\* There is a source, none is fetched twice, and the first one for everything.
UniverseValues ==
    /\ Stages \in Seq(Universe!Stage) /\ Stages # << >>
    /\ \A i, j \in 1..Len(Stages) : Stages[i] = Stages[j] => i = j
    /\ Stages[1] \notin Narrowed
    /\ Chunks \in Nat \ {0} /\ MaxEdition \in Nat \ {0}

SourceRow ==
    [status : {"none", "running", "completed", "failed"}, sha : 0..MaxEdition, expired : BOOLEAN]
Gathered == UNION {[S -> Universe!Payload] : S \in SUBSET Universe!Stage}
Sources == {"look", "fetch", "rename", "record"}
Writing == {"chunk", "write", "publish"}
Attempt ==
    [pc : Sources \cup {"idle", "draft"} \cup Writing, stage : Nat, payload : Gathered,
     fetched : 0..MaxEdition, chunk : 1..Chunks]
BatchOf(n) ==
    [status : {"draft", "failed", "published"},
     checkpoint : [1..Chunks -> {"none", "running", "completed", "failed"}],
     rows : [1..Chunks -> {<< >>, n}]]

SourcesTyped ==
    /\ source \in [Universe!Stage -> Universe!Edition]
    /\ artifact \in [Universe!Stage \X Universe!Scope -> SourceRow]
    /\ payload \in [Universe!Stage \X Universe!Scope -> 0..MaxEdition + 1]
    \* A row that says completed has the hash of a whole file.
    /\ \A k \in Universe!Stage \X Universe!Scope :
          artifact[k].status = "completed" => artifact[k].sha \in Universe!Edition

AttemptFits ==
    /\ stage \in Attempt
    /\ stage.pc \in Sources =>
          /\ stage.stage \in 1..Len(Stages)
          /\ DOMAIN stage.payload = {Stages[i] : i \in 1..stage.stage - 1}
    /\ stage.pc \in {"rename", "record"} => stage.fetched \in Universe!Edition
    /\ stage.pc \in {"draft"} \cup Writing => stage.payload \in Universe!Name
    /\ Universe!PayloadsBelong

\* The batch an attempt writes is a draft; a published one has its rows.
BatchesFit ==
    /\ DOMAIN universe \subseteq Universe!Name
    /\ \A n \in DOMAIN universe :
          /\ universe[n] \in BatchOf(n)
          /\ universe[n].status = "published" => \A c \in 1..Chunks : universe[n].rows[c] = n
    /\ stage.pc \in Writing =>
          stage.payload \in DOMAIN universe /\ universe[stage.payload].status = "draft"
    /\ newest = << >> \/ (newest \in DOMAIN universe /\ universe[newest].status = "published")

UniverseInv == SourcesTyped /\ AttemptFits /\ BatchesFit

-----------------------------------------------------------------------------
LEMMA StagesNumbered ==
    ASSUME UniverseValues
    PROVE  /\ Len(Stages) \in Nat \ {0}
           /\ DOMAIN Stages = 1..Len(Stages)
           /\ \A i \in 1..Len(Stages) : Stages[i] \in Universe!Stage
           /\ Universe!Stage = {Stages[i] : i \in 1..Len(Stages)}
           /\ Stages[1] \in Universe!Stage
<1>1. Len(Stages) \in Nat /\ DOMAIN Stages = 1..Len(Stages)
    BY LenProperties DEF UniverseValues
<1>2. Len(Stages) # 0 BY EmptySeq, <1>1 DEF UniverseValues
<1>3. Universe!Stage = {Stages[i] : i \in 1..Len(Stages)} BY <1>1 DEF Universe!Stage
<1>4. 1 \in 1..Len(Stages) BY <1>1, <1>2
<1> QED BY <1>1, <1>2, <1>3, <1>4

\* An attempt that has not begun has no payload.
LEMMA NothingGathered ==
    ASSUME UniverseValues
    PROVE  /\ << >> \in Gathered /\ DOMAIN << >> = {}
           /\ Universe!Idle \in Attempt /\ Universe!Idle.pc = "idle"
           /\ << >> \notin Universe!Name
<1>1. << >> \in [{} -> Universe!Payload]
    <2>1. << >> \in Seq(Universe!Payload) /\ Len(<< >>) = 0 BY EmptySeq
    <2>2. << >> \in [1..0 -> Universe!Payload] BY <2>1, LenProperties
    <2>3. 1..0 = {} OBVIOUS
    <2> QED BY <2>2, <2>3
<1>2. << >> \in Gathered BY <1>1 DEF Gathered
<1>3. DOMAIN << >> = {} BY <1>1
<1>4. Universe!Idle \in Attempt /\ Universe!Idle.pc = "idle"
    BY <1>2 DEF Universe!Idle, Attempt, Universe!Absent, UniverseValues
<1>5. << >> \notin Universe!Name BY <1>3, StagesNumbered DEF Universe!Name
<1> QED BY <1>2, <1>3, <1>4, <1>5

\* The scope of the stage that is looked for is one there is.
LEMMA KeyFits ==
    ASSUME UniverseValues, UniverseInv, stage.pc \in Sources
    PROVE  /\ stage.stage \in 1..Len(Stages)
           /\ Universe!Current \in Universe!Stage
           /\ Universe!Key \in Universe!Stage \X Universe!Scope
           /\ Universe!Key[2] = Universe!ScopeOf(Universe!Current)
           /\ Universe!Current \notin DOMAIN stage.payload
           /\ Universe!Current = Stages[1] => DOMAIN stage.payload = {}
           /\ Universe!Current \in Narrowed =>
                 /\ Stages[1] \in DOMAIN stage.payload
                 /\ Universe!ScopeOf(Universe!Current) = stage.payload[Stages[1]].edition
<1> USE StagesNumbered DEF UniverseInv, AttemptFits
<1>1. stage.stage \in 1..Len(Stages) OBVIOUS
<1>2. Universe!Current = Stages[stage.stage] /\ Universe!Current \in Universe!Stage
    BY <1>1 DEF Universe!Current
<1>3. Universe!Current \notin DOMAIN stage.payload
    <2> SUFFICES ASSUME NEW i \in 1..stage.stage - 1, Stages[i] = Stages[stage.stage] PROVE FALSE
        BY <1>2
    <2>1. i \in 1..Len(Stages) /\ i # stage.stage BY <1>1
    <2> QED BY <1>1, <2>1 DEF UniverseValues
<1>4. Universe!Current = Stages[1] => DOMAIN stage.payload = {}
    <2> HAVE Universe!Current = Stages[1]
    <2>1. 1 \in 1..Len(Stages) OBVIOUS
    <2>2. stage.stage = 1 BY <1>1, <1>2, <2>1 DEF UniverseValues
    <2>3. 1..stage.stage - 1 = {} BY <2>2
    <2> QED BY <2>3
<1>5. Universe!Current \in Narrowed =>
        /\ Stages[1] \in DOMAIN stage.payload
        /\ Universe!ScopeOf(Universe!Current) = stage.payload[Stages[1]].edition
        /\ Universe!ScopeOf(Universe!Current) \in Universe!Edition
    <2> HAVE Universe!Current \in Narrowed
    <2>1. stage.stage # 1 BY <1>2 DEF UniverseValues
    <2>2. 1 \in 1..stage.stage - 1 BY <1>1, <2>1
    <2>3. Stages[1] \in DOMAIN stage.payload BY <2>2
    <2>4. stage.payload[Stages[1]].edition \in Universe!Edition BY <2>3 DEF Universe!PayloadsBelong
    <2> QED BY <2>3, <2>4 DEF Universe!ScopeOf
<1>6. Universe!ScopeOf(Universe!Current) \in Universe!Scope
    <2>1. Universe!Edition \subseteq Universe!Scope /\ 0 \in Universe!Scope
        BY DEF Universe!Edition, Universe!Scope, UniverseValues
    <2>2. CASE Universe!Current \in Narrowed BY <1>5, <2>1, <2>2
    <2>3. CASE Universe!Current \notin Narrowed BY <2>1, <2>3 DEF Universe!ScopeOf
    <2> QED BY <2>2, <2>3
<1> QED BY <1>1, <1>2, <1>3, <1>4, <1>5, <1>6 DEF Universe!Key

LEMMA UniverseStarts ==
    ASSUME UniverseValues, Universe!Init
    PROVE  UniverseInv
<1> USE NothingGathered, StagesNumbered DEF Universe!Init
<1>1. SourcesTyped
    BY DEF SourcesTyped, SourceRow, Universe!NoRow, Universe!Absent, Universe!Edition, UniverseValues
<1>2. AttemptFits
    <2>1. stage = Universe!Idle /\ stage.payload = << >> BY DEF Universe!Idle
    <2>2. Universe!PayloadsBelong BY <2>1 DEF Universe!PayloadsBelong
    <2> QED BY <2>1, <2>2 DEF AttemptFits, Sources, Writing
<1>3. BatchesFit BY DEF BatchesFit, Writing
<1> QED BY <1>1, <1>2, <1>3 DEF UniverseInv

\* A payload for the stage that is looked for, of the scope its attempt calls for.
LEMMA TakeKeeps ==
    ASSUME UniverseValues, UniverseInv, stage.pc \in Sources,
           NEW e \in Universe!Edition,
           Universe!Take([scope |-> Universe!ScopeOf(Universe!Current), edition |-> e])
    PROVE  AttemptFits' /\ stage'.pc \notin Writing
<1> DEFINE cur == Universe!Current
           own == [scope |-> Universe!ScopeOf(cur), edition |-> e]
           P == [s \in DOMAIN stage.payload \cup {cur} |->
                    IF s = cur THEN own ELSE stage.payload[s]]
<1>1. /\ cur \in Universe!Stage /\ cur \notin DOMAIN stage.payload
      /\ cur = Stages[1] => DOMAIN stage.payload = {}
      /\ cur \in Narrowed => Stages[1] \in DOMAIN stage.payload
                             /\ Universe!ScopeOf(cur) = stage.payload[Stages[1]].edition
      /\ own \in Universe!Payload
      /\ stage.stage \in 1..Len(Stages)
    BY KeyFits DEF Universe!Key, Universe!Payload
<1>2. /\ stage \in Attempt /\ DOMAIN stage.payload = {Stages[i] : i \in 1..stage.stage - 1}
      /\ DOMAIN stage.payload \subseteq Universe!Stage
      /\ \A s \in DOMAIN stage.payload : stage.payload[s] \in Universe!Payload
    BY DEF UniverseInv, AttemptFits, Attempt, Gathered
<1>3. P \in [DOMAIN stage.payload \cup {cur} -> Universe!Payload]
    BY <1>1, <1>2
<1>4. P \in Gathered BY <1>1, <1>2, <1>3 DEF Gathered
<1>5. /\ stage' \in Attempt /\ stage'.payload = P /\ stage'.stage = stage.stage + 1
      /\ stage'.pc = IF stage.stage < Len(Stages) THEN "look" ELSE "draft"
    <2>1. PICK q \in Gathered : q = P BY <1>4
    <2>2. PICK pc \in {"look", "draft"} : pc = IF stage.stage < Len(Stages) THEN "look" ELSE "draft"
        OBVIOUS
    <2>3. stage' = [stage EXCEPT !.payload = q, !.stage = @ + 1, !.fetched = 0, !.pc = pc]
        BY <2>1, <2>2 DEF Universe!Take, Universe!Absent
    <2>4. 0 \in 0..MaxEdition /\ stage.stage + 1 \in Nat BY <1>1, StagesNumbered DEF UniverseValues
    <2>5. PICK n \in Nat : n = stage.stage + 1 BY <2>4
    <2>6. stage' = [stage EXCEPT !.payload = q, !.stage = n, !.fetched = 0, !.pc = pc]
        BY <2>3, <2>5
    <2>7. stage' \in Attempt /\ stage'.payload = q /\ stage'.stage = n /\ stage'.pc = pc
        BY <1>2, <2>4, <2>6 DEF Attempt, Sources
    <2> QED BY <2>1, <2>2, <2>5, <2>7
<1>6. cur = Stages[stage.stage] BY DEF Universe!Current
<1>7. DOMAIN P = {Stages[i] : i \in 1..stage.stage}
    <2>1. 1..stage.stage = (1..stage.stage - 1) \cup {stage.stage} BY <1>1
    <2> QED BY <1>2, <1>6, <2>1
<1>8. Universe!PayloadsBelong'
    <2> SUFFICES ASSUME NEW s \in DOMAIN P
                 PROVE  /\ P[s].edition \in Universe!Edition
                        /\ s \in Narrowed => P[s].scope = P[Stages[1]].edition
        BY <1>5 DEF Universe!PayloadsBelong
    <2>1. CASE s = cur
        <3>1. P[s] = own BY <2>1
        <3>2. cur \in Narrowed => P[Stages[1]] = stage.payload[Stages[1]] BY <1>1
        <3> QED BY <1>1, <2>1, <3>1, <3>2
    <2>2. CASE s # cur
        <3>1. s \in DOMAIN stage.payload /\ P[s] = stage.payload[s] BY <2>2
        <3>2. cur # Stages[1] BY <1>1, <3>1
        <3>3. s \in Narrowed => P[Stages[1]] = stage.payload[Stages[1]]
            <4>1. stage.stage # 1 BY <1>6, <3>2
            <4>2. 1 \in 1..stage.stage - 1 BY <1>1, <4>1
            <4> QED BY <1>2, <3>2, <4>2
        <3> QED BY <3>1, <3>3 DEF UniverseInv, AttemptFits, Universe!PayloadsBelong
    <2> QED BY <2>1, <2>2
<1>9. CASE stage.stage < Len(Stages)
    <2>1. stage'.pc = "look" /\ stage'.stage \in 1..Len(Stages)
        BY <1>1, <1>5, <1>9, StagesNumbered
    <2>2. DOMAIN stage'.payload = {Stages[i] : i \in 1..stage'.stage - 1}
        BY <1>1, <1>5, <1>7, StagesNumbered
    <2> QED BY <1>5, <1>8, <2>1, <2>2 DEF AttemptFits, Writing, Sources
<1>10. CASE ~ stage.stage < Len(Stages)
    <2>1. stage.stage = Len(Stages) BY <1>1, <1>10, StagesNumbered
    <2>2. DOMAIN P = Universe!Stage BY <1>7, <2>1, StagesNumbered
    <2>3. P \in Universe!Name BY <1>2, <1>3, <2>2 DEF Universe!Name
    <2>4. stage'.pc = "draft" /\ stage'.payload \in Universe!Name BY <1>5, <1>10, <2>3
    <2> QED BY <1>5, <1>8, <2>4 DEF AttemptFits, Writing, Sources
<1> QED BY <1>9, <1>10

\* Steps outside the attempts, and those that end one before it wrote.
LEMMA UniverseWorldKeeps ==
    ASSUME UniverseValues, UniverseInv,
           \/ \E s \in Universe!Stage : Universe!Change(s)
           \/ \E k \in Universe!Stage \X Universe!Scope : Universe!Expire(k) \/ Universe!Damage(k)
           \/ Universe!Crash \/ Universe!Start \/ Universe!CreateDraftFails
           \/ UNCHANGED Universe!vars
    PROVE  UniverseInv'
<1> USE NothingGathered DEF UniverseInv
<1>0. MaxEdition \in Nat \ {0} BY DEF UniverseValues
<1>1. ASSUME NEW s \in Universe!Stage, Universe!Change(s)
      PROVE  UniverseInv'
    <2>1. SourcesTyped' BY <1>0, <1>1 DEF Universe!Change, SourcesTyped, Universe!Edition
    <2>2. AttemptFits' BY <1>1 DEF Universe!Change, AttemptFits, Universe!PayloadsBelong
    <2>3. BatchesFit' BY <1>1 DEF Universe!Change, BatchesFit
    <2> QED BY <2>1, <2>2, <2>3
<1>2. ASSUME NEW k \in Universe!Stage \X Universe!Scope, Universe!Expire(k)
      PROVE  UniverseInv'
    <2>1. SourcesTyped' BY <1>2 DEF Universe!Expire, SourcesTyped, SourceRow
    <2>2. AttemptFits' BY <1>2 DEF Universe!Expire, AttemptFits, Universe!PayloadsBelong
    <2>3. BatchesFit' BY <1>2 DEF Universe!Expire, BatchesFit
    <2> QED BY <2>1, <2>2, <2>3
<1>3. ASSUME NEW k \in Universe!Stage \X Universe!Scope, Universe!Damage(k)
      PROVE  UniverseInv'
    <2>0. Universe!Torn \in 0..MaxEdition + 1 BY <1>0 DEF Universe!Torn
    <2>1. SourcesTyped' BY <1>3, <2>0 DEF Universe!Damage, SourcesTyped
    <2>2. AttemptFits' BY <1>3 DEF Universe!Damage, AttemptFits, Universe!PayloadsBelong
    <2>3. BatchesFit' BY <1>3 DEF Universe!Damage, BatchesFit
    <2> QED BY <2>1, <2>2, <2>3
<1>4. CASE Universe!Crash \/ Universe!CreateDraftFails
    <2>1. /\ stage' = Universe!Idle /\ stage'.payload = << >>
          /\ UNCHANGED <<source, artifact, payload, universe, newest>>
        BY <1>4 DEF Universe!Crash, Universe!CreateDraftFails, Universe!Idle
    <2>2. SourcesTyped' BY <2>1 DEF SourcesTyped
    <2>3. AttemptFits' BY <2>1 DEF AttemptFits, Universe!PayloadsBelong, Sources, Writing
    <2>4. BatchesFit' BY <2>1 DEF BatchesFit, Writing
    <2> QED BY <2>2, <2>3, <2>4
<1>5. CASE Universe!Start
    <2>1. /\ stage' = [Universe!Idle EXCEPT !.pc = "look"]
          /\ UNCHANGED <<source, artifact, payload, universe, newest>>
        BY <1>5 DEF Universe!Start
    <2>2. stage' \in Attempt /\ stage'.pc = "look" /\ stage'.payload = << >> /\ stage'.stage = 1
        BY <2>1 DEF Attempt, Sources, Universe!Idle
    <2>3. 1 \in 1..Len(Stages) /\ {Stages[i] : i \in 1..1 - 1} = {} BY StagesNumbered
    <2>4. SourcesTyped' BY <2>1 DEF SourcesTyped
    <2>5. AttemptFits' BY <2>2, <2>3 DEF AttemptFits, Universe!PayloadsBelong, Sources, Writing
    <2>6. BatchesFit' BY <2>1, <2>2 DEF BatchesFit, Writing
    <2> QED BY <2>4, <2>5, <2>6
<1>6. CASE UNCHANGED Universe!vars
    <2>1. UNCHANGED <<source, artifact, payload, stage, universe, newest>>
        BY <1>6 DEF Universe!vars
    <2>2. SourcesTyped' BY <2>1 DEF SourcesTyped
    <2>3. AttemptFits' BY <2>1 DEF AttemptFits, Universe!PayloadsBelong
    <2>4. BatchesFit' BY <2>1 DEF BatchesFit
    <2> QED BY <2>2, <2>3, <2>4
<1> QED BY <1>1, <1>2, <1>3, <1>4, <1>5, <1>6

\* Steps of an attempt that only move it, among the sources.
LEMMA SourceStep ==
    ASSUME UniverseValues, UniverseInv,
           \/ Universe!Reuse \/ Universe!Begin \/ Universe!Fetch \/ Universe!Rename
           \/ Universe!Record \/ Universe!SourceFails
    PROVE  UniverseInv'
<1> USE DEF UniverseInv
<1>0. /\ MaxEdition \in Nat \ {0} /\ stage.pc \in Sources /\ stage.pc \notin Writing
      /\ Universe!Edition \subseteq 0..MaxEdition /\ Universe!Absent = 0 /\ Universe!Absent \notin Universe!Edition
    BY DEF UniverseValues, Universe!Reuse, Universe!Begin, Universe!Fetch, Universe!Rename,
           Universe!Record, Universe!SourceFails, Sources, Writing, Universe!Edition, Universe!Absent
<1>z. 0 \in 0..MaxEdition /\ \A n \in 0..MaxEdition : n \in 0..MaxEdition + 1 BY <1>0
<1>k. /\ Universe!Current \in Universe!Stage /\ Universe!Key \in Universe!Stage \X Universe!Scope
      /\ Universe!Key[2] = Universe!ScopeOf(Universe!Current)
    BY <1>0, KeyFits
<1>b. ASSUME stage'.pc \notin Writing, UNCHANGED <<universe, newest>> PROVE BatchesFit'
    BY <1>b DEF BatchesFit
<1>1. CASE Universe!Reuse
    <2>1. payload[Universe!Key] \in Universe!Edition
        BY <1>1, <1>k DEF Universe!Reuse, Universe!Reusable, SourcesTyped
    <2>2. AttemptFits' /\ stage'.pc \notin Writing
        BY <1>0, <1>1, <1>k, <2>1, TakeKeeps DEF Universe!Reuse
    <2>3. SourcesTyped' BY <1>1 DEF Universe!Reuse, SourcesTyped
    <2> QED BY <1>1, <1>b, <2>2, <2>3 DEF Universe!Reuse
<1>2. CASE Universe!Begin
    <2>1. [Universe!NoRow EXCEPT !.status = "running"] \in SourceRow
          /\ [Universe!NoRow EXCEPT !.status = "running"].status = "running"
        BY <1>0, <1>z DEF Universe!NoRow, SourceRow
    <2>2. SourcesTyped' BY <1>2, <1>k, <2>1 DEF Universe!Begin, SourcesTyped
    <2>3. /\ stage' \in Attempt /\ stage'.pc = "fetch" /\ stage'.payload = stage.payload
          /\ stage'.stage = stage.stage
        BY <1>2 DEF Universe!Begin, AttemptFits, Attempt, Sources
    <2>4. AttemptFits' BY <1>0, <2>3 DEF AttemptFits, Universe!PayloadsBelong, Sources, Writing
    <2> QED BY <1>2, <1>b, <2>2, <2>3, <2>4 DEF Universe!Begin, Writing
<1>3. CASE Universe!Fetch
    <2>1. source[Universe!Current] \in Universe!Edition BY <1>k DEF SourcesTyped
    <2>2. /\ stage' \in Attempt /\ stage'.pc = "rename" /\ stage'.payload = stage.payload
          /\ stage'.stage = stage.stage /\ stage'.fetched = source[Universe!Current]
        BY <1>3, <1>0, <2>1 DEF Universe!Fetch, AttemptFits, Attempt, Sources
    <2>3. AttemptFits' BY <1>0, <2>1, <2>2 DEF AttemptFits, Universe!PayloadsBelong, Sources, Writing
    <2>4. SourcesTyped' BY <1>3 DEF Universe!Fetch, SourcesTyped
    <2> QED BY <1>3, <1>b, <2>2, <2>3, <2>4 DEF Universe!Fetch, Writing
<1>4. CASE Universe!Rename
    <2>1. stage.fetched \in Universe!Edition BY <1>4 DEF Universe!Rename, AttemptFits
    <2>2. /\ stage' \in Attempt /\ stage'.pc = "record" /\ stage'.payload = stage.payload
          /\ stage'.stage = stage.stage /\ stage'.fetched = stage.fetched
        BY <1>4 DEF Universe!Rename, AttemptFits, Attempt, Sources
    <2>3. AttemptFits' BY <1>0, <2>1, <2>2 DEF AttemptFits, Universe!PayloadsBelong, Sources, Writing
    <2>4. stage.fetched \in 0..MaxEdition + 1 BY <1>0, <1>z, <2>1
    <2>5. SourcesTyped' BY <1>4, <1>k, <2>4 DEF Universe!Rename, SourcesTyped
    <2> QED BY <1>4, <1>b, <2>2, <2>3, <2>5 DEF Universe!Rename, Writing
<1>5. CASE Universe!Record
    <2>1. stage.fetched \in Universe!Edition BY <1>5 DEF Universe!Record, AttemptFits
    <2>2. AttemptFits' /\ stage'.pc \notin Writing
        BY <1>0, <1>5, <2>1, TakeKeeps DEF Universe!Record
    <2>3. [status |-> "completed", sha |-> stage.fetched, expired |-> FALSE] \in SourceRow
        BY <1>0, <2>1 DEF SourceRow
    <2>4. SourcesTyped' BY <1>5, <1>k, <2>1, <2>3 DEF Universe!Record, SourcesTyped
    <2> QED BY <1>5, <1>b, <2>2, <2>4 DEF Universe!Record
<1>6. CASE Universe!SourceFails
    <2>1. stage' = Universe!Idle /\ stage'.payload = << >> /\ UNCHANGED <<source, payload>>
        BY <1>6 DEF Universe!SourceFails, Universe!Idle
    <2>2. AttemptFits'
        BY <2>1, NothingGathered DEF AttemptFits, Universe!PayloadsBelong, Sources, Writing
    <2>3. SourcesTyped' BY <1>6, <1>k, <2>1 DEF Universe!SourceFails, SourcesTyped, SourceRow
    <2>4. stage'.pc \notin Writing BY <2>1 DEF Universe!Idle, Writing
    <2> QED BY <1>6, <1>b, <2>2, <2>3, <2>4 DEF Universe!SourceFails
<1> QED BY <1>1, <1>2, <1>3, <1>4, <1>5, <1>6

\* A step of the attempt that changes its own batch, at most, and the pointer to it.
LEMMA BatchStep ==
    ASSUME UniverseValues, UniverseInv, stage.payload \in Universe!Name,
           NEW b \in BatchOf(stage.payload),
           b.status = "published" => \A c \in 1..Chunks : b.rows[c] = stage.payload,
           stage.payload \in DOMAIN universe => universe[stage.payload].status # "published",
           DOMAIN universe' = DOMAIN universe \cup {stage.payload},
           universe'[stage.payload] = b,
           \A n \in DOMAIN universe : n # stage.payload => universe'[n] = universe[n],
           stage' \in Attempt,
           \/ stage' = Universe!Idle
           \/ stage'.pc \in Writing /\ stage'.payload = stage.payload /\ b.status = "draft",
           UNCHANGED <<source, artifact, payload>>,
           newest' = newest \/ (newest' = stage.payload /\ b.status = "published")
    PROVE  UniverseInv'
<1> USE DEF UniverseInv
<1>1. SourcesTyped' BY DEF SourcesTyped
<1>2. AttemptFits'
    <2>1. CASE stage' = Universe!Idle
        <3>1. stage'.payload = << >> /\ stage'.pc = "idle" BY <2>1 DEF Universe!Idle
        <3> QED BY <3>1, NothingGathered DEF AttemptFits, Universe!PayloadsBelong, Sources, Writing
    <2>2. CASE stage'.pc \in Writing /\ stage'.payload = stage.payload
        BY <2>2 DEF AttemptFits, Universe!PayloadsBelong, Sources, Writing
    <2> QED BY <2>1, <2>2
<1>3. BatchesFit'
    <2>1. ASSUME NEW n \in DOMAIN universe'
          PROVE  /\ universe'[n] \in BatchOf(n) /\ n \in Universe!Name
                 /\ universe'[n].status = "published" => \A c \in 1..Chunks : universe'[n].rows[c] = n
        BY DEF BatchesFit
    <2>2. stage'.pc \in Writing =>
            stage'.payload \in DOMAIN universe' /\ universe'[stage'.payload].status = "draft"
        BY DEF Universe!Idle, Writing
    <2>3. newest' = << >> \/ (newest' \in DOMAIN universe' /\ universe'[newest'].status = "published")
        BY DEF BatchesFit
    <2> QED BY <2>1, <2>2, <2>3 DEF BatchesFit
<1> QED BY <1>1, <1>2, <1>3

LEMMA ChunkStep ==
    ASSUME UniverseValues, UniverseInv,
           \/ Universe!CreateDraft \/ Universe!SkipChunk \/ Universe!MarkChunk
           \/ Universe!WriteChunk \/ Universe!StagingFails \/ Universe!Publish
    PROVE  UniverseInv'
<1> USE DEF UniverseInv
<1>0. /\ Chunks \in Nat \ {0} /\ stage \in Attempt /\ stage.chunk \in 1..Chunks
      /\ stage.payload \in Universe!Name
      /\ stage.pc = "draft" \/ stage.pc \in Writing
      /\ Universe!This = stage.payload
      /\ UNCHANGED <<source, artifact, payload>>
    BY DEF UniverseValues, AttemptFits, Attempt, Universe!CreateDraft, Universe!SkipChunk,
           Universe!MarkChunk, Universe!WriteChunk, Universe!StagingFails, Universe!Publish,
           Writing, Universe!This, Universe!Identity
<1>a. stage.pc \in Writing => /\ stage.payload \in DOMAIN universe
                              /\ universe[stage.payload].status = "draft"
                              /\ universe[stage.payload] \in BatchOf(stage.payload)
    BY DEF BatchesFit
<1>b. Universe!Idle \in Attempt BY NothingGathered
<1>c. ASSUME NEW c \in 1..Chunks, c = stage.chunk
      PROVE  /\ Universe!After(c) \in Attempt /\ Universe!After(c).payload = stage.payload
             /\ Universe!After(c).pc \in {stage.pc, "publish"}
             /\ stage.pc \in Writing => Universe!After(c).pc \in Writing
    <2>1. CASE c < Chunks
        <3>1. PICK d \in 1..Chunks : d = c + 1 BY <1>0, <2>1
        <3>2. Universe!After(c) = [stage EXCEPT !.chunk = d] BY <2>1, <3>1 DEF Universe!After
        <3> QED BY <1>0, <3>2 DEF Attempt
    <2>2. CASE ~ c < Chunks
        <3>1. Universe!After(c) = [stage EXCEPT !.pc = "publish"] BY <2>2 DEF Universe!After
        <3> QED BY <1>0, <3>1 DEF Attempt, Writing
    <2> QED BY <2>1, <2>2
<1>1. CASE Universe!CreateDraft
    <2>1. CASE stage.payload \in DOMAIN universe /\ universe[stage.payload].status = "published"
        <3>1. stage' = Universe!Idle /\ UNCHANGED <<universe, newest>>
            BY <1>0, <1>1, <2>1 DEF Universe!CreateDraft, Universe!Known
        <3>2. stage'.payload = << >> /\ stage'.pc = "idle" BY <3>1 DEF Universe!Idle
        <3>3. AttemptFits' BY <1>b, <3>1, <3>2 DEF AttemptFits, Universe!PayloadsBelong, Sources, Writing
        <3>4. BatchesFit' BY <3>1, <3>2 DEF BatchesFit, Writing
        <3> QED BY <1>0, <3>3, <3>4 DEF SourcesTyped
    <2>2. CASE ~ (stage.payload \in DOMAIN universe /\ universe[stage.payload].status = "published")
        <3> DEFINE d == IF stage.payload \in DOMAIN universe
                        THEN [universe[stage.payload] EXCEPT !.status = "draft"]
                        ELSE [Universe!NoBatch EXCEPT !.status = "draft"]
        <3>1. d \in BatchOf(stage.payload) /\ d.status = "draft"
            <4>1. stage.payload \in DOMAIN universe => universe[stage.payload] \in BatchOf(stage.payload)
                BY DEF BatchesFit
            <4>2. CASE stage.payload \in DOMAIN universe
                BY <4>1, <4>2 DEF BatchOf
            <4>3. CASE stage.payload \notin DOMAIN universe
                BY <4>3 DEF BatchOf, Universe!NoBatch
            <4> QED BY <4>2, <4>3
        <3>2. /\ universe' = [n \in DOMAIN universe \cup {stage.payload} |->
                                 IF n = stage.payload THEN d ELSE universe[n]]
              /\ stage' = [stage EXCEPT !.pc = "chunk"] /\ newest' = newest
            BY <1>0, <1>1, <2>2 DEF Universe!CreateDraft, Universe!Known, Universe!SetBatch
        <3>3. stage' \in Attempt /\ stage'.pc = "chunk" /\ stage'.payload = stage.payload
            BY <1>0, <3>2 DEF Attempt, Writing
        <3> HIDE DEF d
        <3>4. /\ DOMAIN universe' = DOMAIN universe \cup {stage.payload}
              /\ universe'[stage.payload] = d
              /\ \A n \in DOMAIN universe : n # stage.payload => universe'[n] = universe[n]
            BY <3>2
        <3> QED BY <1>0, <2>2, <3>1, <3>2, <3>3, <3>4, BatchStep DEF Writing
    <2> QED BY <2>1, <2>2
<1>2. CASE Universe!SkipChunk
    <2>1. stage.pc = "chunk" /\ stage' = Universe!After(stage.chunk) /\ UNCHANGED <<universe, newest>>
        BY <1>2 DEF Universe!SkipChunk
    <2>2. stage' \in Attempt /\ stage'.payload = stage.payload /\ stage'.pc \in {"chunk", "publish"}
        BY <1>0, <1>c, <2>1
    <2> QED BY <1>0, <1>a, <2>1, <2>2, BatchStep DEF Writing
<1>3. CASE Universe!MarkChunk
    <2>1. /\ stage.pc = "chunk" /\ stage' = [stage EXCEPT !.pc = "write"] /\ newest' = newest
          /\ universe' = [universe EXCEPT ![stage.payload].checkpoint[stage.chunk] = "running"]
        BY <1>0, <1>3 DEF Universe!MarkChunk
    <2>2. stage' \in Attempt /\ stage'.payload = stage.payload /\ stage'.pc = "write"
        BY <1>0, <2>1 DEF Attempt, Writing
    <2>3. PICK b : b = [universe[stage.payload] EXCEPT !.checkpoint[stage.chunk] = "running"] OBVIOUS
    <2>4. b \in BatchOf(stage.payload) /\ b.status = "draft"
        BY <1>0, <1>a, <2>1, <2>3 DEF BatchOf, Writing
    <2>5. /\ DOMAIN universe' = DOMAIN universe /\ universe'[stage.payload] = b
          /\ \A n \in DOMAIN universe : n # stage.payload => universe'[n] = universe[n]
        BY <1>a, <2>1, <2>3 DEF Writing
    <2> QED BY <1>0, <1>a, <2>1, <2>2, <2>4, <2>5, BatchStep DEF Writing
<1>4. CASE Universe!WriteChunk
    <2>1. /\ stage.pc = "write" /\ newest' = newest
          /\ universe' = [universe EXCEPT
                ![stage.payload].checkpoint[stage.chunk] = "completed",
                ![stage.payload].rows[stage.chunk] = IF @ = << >> THEN stage.payload ELSE @]
          /\ stage' = [Universe!After(stage.chunk) EXCEPT
                !.pc = IF stage.chunk < Chunks THEN "chunk" ELSE "publish"]
        BY <1>0, <1>4 DEF Universe!WriteChunk
    <2>2. stage' \in Attempt /\ stage'.payload = stage.payload /\ stage'.pc \in Writing
        <3>1. Universe!After(stage.chunk) \in Attempt
              /\ Universe!After(stage.chunk).payload = stage.payload
            BY <1>0, <1>c
        <3>2. PICK a \in Attempt : a = Universe!After(stage.chunk) BY <3>1
        <3>3. PICK pc \in {"chunk", "publish"} : pc = IF stage.chunk < Chunks THEN "chunk" ELSE "publish"
            OBVIOUS
        <3>4. stage' = [a EXCEPT !.pc = pc] BY <2>1, <3>2, <3>3
        <3> QED BY <3>1, <3>2, <3>4 DEF Attempt, Writing
    <2>3. PICK r : r = IF universe[stage.payload].rows[stage.chunk] = << >> THEN stage.payload
                       ELSE universe[stage.payload].rows[stage.chunk]
        OBVIOUS
    <2>4. PICK b : b = [universe[stage.payload] EXCEPT !.checkpoint[stage.chunk] = "completed",
                                                       !.rows[stage.chunk] = r]
        OBVIOUS
    <2>5. r \in {<< >>, stage.payload} BY <1>0, <1>a, <2>1, <2>3 DEF BatchOf, Writing
    <2>6. b \in BatchOf(stage.payload) /\ b.status = "draft"
        BY <1>0, <1>a, <2>1, <2>4, <2>5 DEF BatchOf, Writing
    <2>7. /\ DOMAIN universe' = DOMAIN universe /\ universe'[stage.payload] = b
          /\ \A n \in DOMAIN universe : n # stage.payload => universe'[n] = universe[n]
        BY <1>0, <1>a, <2>1, <2>3, <2>4 DEF Writing, BatchOf
    <2> QED BY <1>0, <1>a, <2>1, <2>2, <2>6, <2>7, BatchStep DEF Writing
<1>5. CASE Universe!StagingFails
    <2>1. PICK v : v = IF stage.pc = "write" THEN "failed"
                       ELSE universe[stage.payload].checkpoint[stage.chunk]
        OBVIOUS
    <2>2. /\ stage.pc \in Writing /\ newest' = newest /\ stage' = Universe!Idle
          /\ universe' = [universe EXCEPT ![stage.payload].status = "failed",
                                          ![stage.payload].checkpoint[stage.chunk] =
                                             IF stage.pc = "write" THEN "failed" ELSE @]
        BY <1>0, <1>5 DEF Universe!StagingFails, Writing
    <2>3. PICK b : b = [universe[stage.payload] EXCEPT !.status = "failed",
                                                       !.checkpoint[stage.chunk] = v]
        OBVIOUS
    <2>4. v \in {"none", "running", "completed", "failed"} BY <1>0, <1>a, <2>1, <2>2 DEF BatchOf
    <2>5. b \in BatchOf(stage.payload) /\ b.status = "failed"
        BY <1>0, <1>a, <2>2, <2>3, <2>4 DEF BatchOf
    <2>6. /\ DOMAIN universe' = DOMAIN universe /\ universe'[stage.payload] = b
          /\ \A n \in DOMAIN universe : n # stage.payload => universe'[n] = universe[n]
        BY <1>0, <1>a, <2>1, <2>2, <2>3 DEF BatchOf
    <2>7. stage.pc \in Writing /\ newest' = newest /\ stage' = Universe!Idle BY <2>2
    <2>8. b.status # "published" BY <2>5
    <2> QED BY <1>0, <1>a, <1>b, <2>5, <2>6, <2>7, <2>8, BatchStep
<1>6. CASE Universe!Publish
    <2>1. /\ stage.pc \in Writing /\ newest' = stage.payload /\ stage' = Universe!Idle
          /\ universe' = [universe EXCEPT ![stage.payload].status = "published"]
          /\ \A c \in 1..Chunks : universe[stage.payload].rows[c] # << >>
        BY <1>0, <1>6 DEF Universe!Publish, Writing
    <2>2. PICK b : b = [universe[stage.payload] EXCEPT !.status = "published"] OBVIOUS
    <2>3. /\ b \in BatchOf(stage.payload) /\ b.status = "published"
          /\ \A c \in 1..Chunks : b.rows[c] = stage.payload
        BY <1>0, <1>a, <2>1, <2>2 DEF BatchOf
    <2>4. /\ DOMAIN universe' = DOMAIN universe /\ universe'[stage.payload] = b
          /\ \A n \in DOMAIN universe : n # stage.payload => universe'[n] = universe[n]
        BY <1>a, <2>1, <2>2
    <2> QED BY <1>0, <1>a, <1>b, <2>1, <2>3, <2>4, BatchStep
<1> QED BY <1>1, <1>2, <1>3, <1>4, <1>5, <1>6

LEMMA UniverseStep ==
    ASSUME UniverseValues, UniverseInv, [Universe!Next]_Universe!vars
    PROVE  UniverseInv'
BY UniverseWorldKeeps, SourceStep, ChunkStep DEF Universe!Next

\* The types are those of the module; a published batch has all of its rows, made from
\* the inputs it is named by; and these belong together.
LEMMA UniverseWhole ==
    ASSUME UniverseValues, UniverseInv
    PROVE  Universe!TypeOK /\ Universe!PublishedWhole /\ Universe!PayloadsBelong
<1> USE DEF UniverseInv
<1>1. Universe!TypeOK
    BY DEF Universe!TypeOK, SourcesTyped, SourceRow, BatchesFit, UniverseValues,
           Universe!Absent, Universe!Torn, Universe!Edition
<1>2. Universe!PublishedWhole
    <2>1. ASSUME NEW n \in DOMAIN universe, universe[n].status = "published", NEW c \in 1..Chunks
          PROVE  universe[n].rows[c] = n /\ n # << >>
        BY <2>1, NothingGathered DEF BatchesFit
    <2> QED BY <2>1 DEF BatchesFit, Universe!PublishedWhole, Universe!Identity
<1> QED BY <1>1, <1>2 DEF AttemptFits

-----------------------------------------------------------------------------
(* The batches of prices.  Sync and repair exclude each other, so what a   *)
(* builder decided about the current batch is still so when it publishes.  *)
(* Beneath the current batch there is the sync it descends from: no        *)
(* measured batch is younger, so it is the one the next sync is held       *)
(* against, however many repairs and retries came between.                 *)

MarketValues ==
    /\ IsFiniteSet(Security) /\ Candidate \subseteq Security
    /\ MaxDay \in Nat \ {0} /\ MaxDrop \in Nat /\ MaxStarts \in Nat /\ MaxFaults \in Nat

Priced == [close : 0..MaxDay, source : {"live", "local", "none"}]
Repair == [security : Security, close : 1..MaxDay]
SheetName == [day : 1..MaxDay, quote : [Security -> Priced], repairs : Seq(Repair)]
Sheet ==
    [status : {"draft", "failed", "published"}, started : 0..MaxStarts, old : BOOLEAN,
     coverage : Nat, rows : [Security -> 0..MaxDay + 1]]
Pricing ==
    [pc : {"idle", "draft", "prices", "diagnose", "gates", "rows", "copy", "publish"},
     name : SheetName \cup {<< >>}, base : SheetName \cup {<< >>}]

Root(n) == [n EXCEPT !.repairs = << >>]
Last(n) == n.repairs[Len(n.repairs)]
Breadth(n) == Market!Cardinality(Market!Covered(n))

MarketTyped ==
    /\ day \in 1..MaxDay /\ starts \in 0..MaxStarts /\ faults \in 0..MaxFaults
    /\ closes \in [Security -> SUBSET (1..day)]
    /\ DOMAIN sheet \subseteq SheetName
    /\ \A n \in DOMAIN sheet : sheet[n] \in Sheet
    /\ builder \in [Market!Job -> Pricing]

\* Rows are stored closes, and only syncs are measured.
SheetsFit ==
    \A n \in DOMAIN sheet :
        /\ sheet[n].started <= starts
        /\ \A s \in Security : sheet[n].rows[s] \in closes[s] \cup {0, Market!Unset}
        /\ n.repairs # << >> => sheet[n].coverage = 0

CurrentStands ==
    valued # << >> =>
        /\ valued \in DOMAIN sheet /\ sheet[valued].status = "published"
        /\ \A s \in Security : sheet[valued].rows[s] # Market!Unset
        /\ Root(valued) \in DOMAIN sheet /\ sheet[Root(valued)].status = "published"
        /\ sheet[Root(valued)].coverage = Breadth(Root(valued))
        /\ sheet[Root(valued)].coverage # 0
        /\ \A n \in DOMAIN sheet : sheet[n].status = "published" /\ sheet[n].coverage # 0 =>
               sheet[n].started <= sheet[Root(valued)].started

\* A builder past its first step has the youngest draft.
Drafting(b) ==
    /\ b.name \in DOMAIN sheet /\ sheet[b.name].status = "draft"
    /\ sheet[b.name].started = starts
    /\ \A n \in DOMAIN sheet \ {b.name} : sheet[n].started < starts

SyncFits(b) ==
    /\ b.pc # "copy"
    /\ b.pc # "idle" =>
          /\ b.name \in SheetName /\ b.name.repairs = << >> /\ Market!Covered(b.name) # {}
          /\ \A s \in Security : b.name.quote[s].close <= day
    /\ b.pc \notin {"idle", "draft"} => Drafting(b)
    /\ b.pc \in {"gates", "rows", "publish"} => sheet[b.name].coverage = Breadth(b.name)
    /\ b.pc \in {"diagnose", "gates", "rows", "publish"} =>
          \A s \in Market!Covered(b.name) : b.name.quote[s].close \in closes[s]
    /\ b.pc \in {"rows", "publish"} /\ valued # << >> =>
          Breadth(Root(valued)) <= Breadth(b.name) + MaxDrop
    /\ b.pc = "publish" => \A s \in Security : sheet[b.name].rows[s] # Market!Unset

RepairFits(b) ==
    /\ b.pc \in {"idle", "draft", "copy", "publish"}
    /\ b.pc # "idle" =>
          /\ valued # << >> /\ b.base = valued
          /\ Last(b.name) \in Repair
          /\ b.name = [valued EXCEPT !.repairs = Append(valued.repairs, Last(b.name))]
          /\ Last(b.name).close \in closes[Last(b.name).security]
          /\ sheet[valued].rows[Last(b.name).security] <= Last(b.name).close
    /\ b.pc \notin {"idle", "draft"} => Drafting(b)
    /\ b.pc = "publish" =>
          sheet[b.name].rows = [sheet[valued].rows EXCEPT ![Last(b.name).security] = Last(b.name).close]

BuildersFit ==
    /\ SyncFits(builder["sync"]) /\ RepairFits(builder["repair"])
    /\ builder["sync"].pc = "idle" \/ builder["repair"].pc = "idle"

MarketInv == MarketTyped /\ SheetsFit /\ CurrentStands /\ BuildersFit

-----------------------------------------------------------------------------
\* The newest of some days.
LEMMA NewestDay ==
    ASSUME MarketValues, NEW S, S \subseteq 1..MaxDay, S # {}
    PROVE  Market!Max(S) \in S /\ \A d \in S : Market!Max(S) >= d
<1> DEFINE Up(s) == {d \in S : d > s}
           T == {Up(s) : s \in S}
<1>1. IsFiniteSet(S)
    <2>1. MaxDay \in Int /\ 1 \in Int BY DEF MarketValues
    <2>2. IsFiniteSet(1..MaxDay) BY <2>1, FS_Interval
    <2> QED BY <2>2, FS_Subset
<1>2. T \subseteq FiniteSubsetsOf(S) /\ T # {}
    <2>1. \A s \in S : Up(s) \subseteq S /\ IsFiniteSet(Up(s)) BY <1>1, FS_Subset
    <2> QED BY <2>1 DEF FiniteSubsetsOf
<1>3. PICK U \in T : \A V \in T : ~(<<V, U>> \in StrictSubsetOrdering(S))
    <2>1. IsWellFoundedOn(StrictSubsetOrdering(S), FiniteSubsetsOf(S))
        BY FS_StrictSubsetOrderingWellFounded
    <2> HIDE DEF T
    <2> QED BY <1>2, <2>1, WFMin
<1>4. PICK s \in S : U = Up(s) BY <1>3
<1>5. \A d \in S : s >= d
    <2> SUFFICES ASSUME NEW d \in S, d > s PROVE FALSE BY DEF MarketValues
    <2>1. S \subseteq Int BY DEF MarketValues
    <2>2. \A x \in S : x > d => x > s BY <2>1
    <2>3. d \in Up(s) /\ d \notin Up(d) BY <2>1
    <2>4. Up(d) \subseteq Up(s) BY <2>2
    <2>5. <<Up(d), Up(s)>> \in StrictSubsetOrdering(S) BY <2>3, <2>4 DEF StrictSubsetOrdering
    <2> QED BY <1>3, <1>4, <2>5
<1> HIDE DEF Up, T
<1>6. \E x \in S : \A y \in S : x >= y BY <1>5
<1> QED BY <1>6, Zenon DEF Market!Max

LEMMA NameParts ==
    ASSUME MarketValues, NEW n \in SheetName
    PROVE  /\ n.day \in 1..MaxDay /\ n.quote \in [Security -> Priced] /\ n.repairs \in Seq(Repair)
           /\ Root(n) \in SheetName /\ Root(n).repairs = << >> /\ Root(n).quote = n.quote
           /\ n.repairs = << >> => Root(n) = n
           /\ Market!Covered(Root(n)) = Market!Covered(n)
           /\ Breadth(n) \in Nat /\ (Breadth(n) = 0 <=> Market!Covered(n) = {})
           /\ Market!Covered(n) \subseteq Security
<1>1. << >> \in Seq(Repair) BY EmptySeq
<1>2. /\ n.day \in 1..MaxDay /\ n.quote \in [Security -> Priced] /\ n.repairs \in Seq(Repair)
      /\ Root(n) \in SheetName /\ Root(n).repairs = << >> /\ Root(n).quote = n.quote
      /\ n.repairs = << >> => Root(n) = n
    BY <1>1 DEF SheetName, Root
<1>3. Market!Covered(n) \subseteq Security BY DEF Market!Covered
<1>4. IsFiniteSet(Market!Covered(n)) BY <1>3, FS_Subset DEF MarketValues
<1>5. Breadth(n) = Cardinality(Market!Covered(n))
    BY Zenon DEF Breadth, Market!Cardinality, Cardinality
<1> QED BY <1>2, <1>3, <1>4, <1>5, FS_CardinalityType, FS_EmptySet DEF Market!Covered

\* A copy with one repair more.
LEMMA RepairedName ==
    ASSUME MarketValues, NEW n \in SheetName, NEW r \in Repair, NEW m,
           m = [n EXCEPT !.repairs = Append(n.repairs, r)]
    PROVE  /\ m \in SheetName /\ m # n /\ m # Root(n) /\ m.repairs # << >> /\ Last(m) = r
           /\ Root(m) = Root(n) /\ m.day = n.day
<1>0. n.repairs \in Seq(Repair) BY DEF SheetName
<1>1. /\ Append(n.repairs, r) \in Seq(Repair) /\ Append(n.repairs, r) # << >>
      /\ Len(Append(n.repairs, r)) = Len(n.repairs) + 1
      /\ Append(n.repairs, r)[Len(n.repairs) + 1] = r
      /\ Len(n.repairs) \in Nat
    BY <1>0, AppendProperties, LenProperties
<1>2. PICK q \in Seq(Repair) : q = Append(n.repairs, r) BY <1>1
<1>3. m = [n EXCEPT !.repairs = q] /\ q # << >> /\ q # n.repairs /\ q[Len(q)] = r
    BY <1>1, <1>2
<1>4. m \in SheetName /\ m.repairs = q /\ m.day = n.day BY <1>3 DEF SheetName
<1>5. Root(m) = Root(n) BY <1>3 DEF Root, SheetName
<1>6. Root(n).repairs = << >> BY DEF Root, SheetName
<1> QED BY <1>3, <1>4, <1>5, <1>6 DEF Last

LEMMA MarketStarts ==
    ASSUME MarketValues, Market!Init
    PROVE  MarketInv
<1>1. MarketTyped
    BY DEF MarketTyped, MarketValues, Market!Init, Market!Idle, Market!NoBatch, Pricing
<1> QED BY <1>1 DEF MarketInv, SheetsFit, CurrentStands, BuildersFit, SyncFits, RepairFits,
                    Market!Init, Market!Idle, Market!NoBatch, Market!Job

\* What is measured does not change, nor the rows of the current batch.
PublishedKeep ==
    /\ valued' = valued
    /\ \A n \in DOMAIN sheet : sheet[n].status = "published" /\ (n.repairs = << >> \/ n = valued) =>
          /\ n \in DOMAIN sheet' /\ sheet'[n].status = "published" /\ sheet'[n].rows = sheet[n].rows
          /\ sheet'[n].coverage = sheet[n].coverage /\ sheet'[n].started = sheet[n].started
    /\ \A n \in DOMAIN sheet' : sheet'[n].status = "published" =>
          /\ n \in DOMAIN sheet /\ sheet[n].status = "published"
          /\ sheet'[n].coverage = sheet[n].coverage /\ sheet'[n].started = sheet[n].started

LEMMA CurrentKept ==
    ASSUME MarketValues, MarketInv, PublishedKeep
    PROVE  CurrentStands'
<1> SUFFICES ASSUME valued # << >> PROVE CurrentStands' BY DEF PublishedKeep, CurrentStands
<1>1. valued' = valued BY DEF PublishedKeep
<1>2. PICK v : v = valued OBVIOUS
<1>3. /\ v \in DOMAIN sheet /\ sheet[v].status = "published"
      /\ \A s \in Security : sheet[v].rows[s] # Market!Unset
      /\ Root(v) \in DOMAIN sheet /\ sheet[Root(v)].status = "published"
      /\ sheet[Root(v)].coverage = Breadth(Root(v)) /\ sheet[Root(v)].coverage # 0
      /\ \A n \in DOMAIN sheet : sheet[n].status = "published" /\ sheet[n].coverage # 0 =>
             sheet[n].started <= sheet[Root(v)].started
    BY <1>2 DEF MarketInv, CurrentStands
<1>4. v \in SheetName BY <1>3 DEF MarketInv, MarketTyped
<1>5. Root(v).repairs = << >> BY <1>4, NameParts
<1>6. /\ v \in DOMAIN sheet' /\ sheet'[v].status = "published"
      /\ \A s \in Security : sheet'[v].rows[s] # Market!Unset
      /\ Root(v) \in DOMAIN sheet' /\ sheet'[Root(v)].status = "published"
      /\ sheet'[Root(v)].coverage = sheet[Root(v)].coverage
      /\ sheet'[Root(v)].started = sheet[Root(v)].started
    BY <1>2, <1>3, <1>5 DEF PublishedKeep
<1>7. \A n \in DOMAIN sheet' : sheet'[n].status = "published" /\ sheet'[n].coverage # 0 =>
             sheet'[n].started <= sheet'[Root(v)].started
    BY <1>3, <1>6 DEF PublishedKeep
<1>8. valued' = v BY <1>1, <1>2
<1> QED BY <1>3, <1>6, <1>7, <1>8 DEF CurrentStands

\* A builder that takes no step still fits when closes come in and others' batches age
\* or go.
LEMMA BuilderKeeps ==
    ASSUME MarketValues, MarketInv, UNCHANGED <<valued, starts>>,
           day <= day', day' \in 1..MaxDay,
           \A s \in Security : closes[s] \subseteq closes'[s],
           \A n \in DOMAIN sheet' : n \in DOMAIN sheet /\ sheet'[n].started = sheet[n].started,
           \A n \in DOMAIN sheet : sheet[n].status = "draft" =>
               n \in DOMAIN sheet' /\ sheet'[n] = sheet[n],
           valued # << >> => sheet'[valued].rows = sheet[valued].rows,
           NEW b
    PROVE  /\ Drafting(b) => Drafting(b)'
           /\ SyncFits(b) => SyncFits(b)'
           /\ RepairFits(b) => RepairFits(b)'
<1>1. Drafting(b) => Drafting(b)' /\ sheet'[b.name] = sheet[b.name] BY DEF Drafting
<1>2. SyncFits(b) => SyncFits(b)'
    <2> SUFFICES ASSUME SyncFits(b) PROVE SyncFits(b)' OBVIOUS
    <2>1. b.pc \notin {"idle", "draft"} => Drafting(b)' /\ sheet'[b.name] = sheet[b.name]
        BY <1>1 DEF SyncFits
    <2>2. b.pc # "idle" => Market!Covered(b.name) \subseteq Security BY DEF Market!Covered
    <2>3. ASSUME b.pc # "idle", NEW s \in Security PROVE b.name.quote[s].close <= day'
        <3>1. b.name \in SheetName /\ b.name.quote[s].close <= day BY <2>3 DEF SyncFits
        <3>2. b.name.quote[s].close \in 0..MaxDay BY <3>1 DEF SheetName, Priced
        <3> QED BY <3>1, <3>2 DEF MarketInv, MarketTyped, MarketValues
    <2> QED BY <2>1, <2>2, <2>3 DEF SyncFits
<1>3. RepairFits(b) => RepairFits(b)'
    <2> SUFFICES ASSUME RepairFits(b) PROVE RepairFits(b)' OBVIOUS
    <2>1. b.pc \notin {"idle", "draft"} => Drafting(b)' /\ sheet'[b.name] = sheet[b.name]
        BY <1>1 DEF RepairFits
    <2>2. b.pc # "idle" => Last(b.name).security \in Security BY DEF RepairFits, Repair
    <2>3. PICK v : v = valued OBVIOUS
    <2>4. valued' = v BY <2>3
    <2>5. b.pc # "idle" =>
          /\ v # << >> /\ b.base = v /\ Last(b.name) \in Repair
          /\ b.name = [v EXCEPT !.repairs = Append(v.repairs, Last(b.name))]
          /\ Last(b.name).close \in closes[Last(b.name).security]
          /\ sheet[v].rows[Last(b.name).security] <= Last(b.name).close
        BY <2>3 DEF RepairFits
    <2>6. v # << >> => sheet'[v].rows = sheet[v].rows BY <2>3
    <2>7. b.pc # "idle" =>
          /\ valued' # << >> /\ b.base = valued' /\ Last(b.name) \in Repair
          /\ b.name = [valued' EXCEPT !.repairs = Append(valued'.repairs, Last(b.name))]
          /\ Last(b.name).close \in closes'[Last(b.name).security]
          /\ sheet'[valued'].rows[Last(b.name).security] <= Last(b.name).close
        BY <2>2, <2>4, <2>5, <2>6
    <2>8. b.pc = "publish" => sheet'[b.name].rows =
               [sheet'[valued'].rows EXCEPT ![Last(b.name).security] = Last(b.name).close]
        BY <2>1, <2>3, <2>4, <2>5, <2>6 DEF RepairFits
    <2>9. b.pc \in {"idle", "draft", "copy", "publish"} BY DEF RepairFits
    <2> QED BY <2>1, <2>7, <2>8, <2>9 DEF RepairFits
<1> QED BY <1>1, <1>2, <1>3

\* The gate: where one works, the other is idle.
LEMMA IdleFits ==
    ASSUME NEW b, b.pc = "idle"
    PROVE  SyncFits(b) /\ RepairFits(b) /\ SyncFits(b)' /\ RepairFits(b)'
BY DEF SyncFits, RepairFits

LEMMA OneWorks ==
    ASSUME MarketInv, NEW j \in Market!Job, NEW b \in Pricing,
           builder[j].pc # "idle" \/ Market!Gate(j),
           builder' = [builder EXCEPT ![j] = b],
           j = "sync" => SyncFits(b)', j = "repair" => RepairFits(b)'
    PROVE  builder' \in [Market!Job -> Pricing] /\ BuildersFit'
<1>1. builder' \in [Market!Job -> Pricing] /\ builder'[j] = b
    BY DEF MarketInv, MarketTyped
<1>2. \A k \in Market!Job \ {j} : builder'[k] = builder[k] /\ builder[k].pc = "idle"
    BY DEF MarketInv, MarketTyped, BuildersFit, Market!Job, Market!Gate
<1>3. CASE j = "sync"
    <2>1. PICK c : c = builder["repair"] OBVIOUS
    <2>2. builder'["repair"] = c /\ c.pc = "idle" BY <1>2, <1>3, <2>1 DEF Market!Job
    <2>3. RepairFits(c)' BY <2>2, IdleFits
    <2> QED BY <1>1, <1>3, <2>2, <2>3 DEF BuildersFit
<1>4. CASE j = "repair"
    <2>1. PICK c : c = builder["sync"] OBVIOUS
    <2>2. builder'["sync"] = c /\ c.pc = "idle" BY <1>2, <1>4, <2>1 DEF Market!Job
    <2>3. SyncFits(c)' BY <2>2, IdleFits
    <2> QED BY <1>1, <1>4, <2>2, <2>3 DEF BuildersFit
<1> QED BY <1>3, <1>4 DEF Market!Job

LEMMA NobodyPrices ==
    ASSUME MarketValues
    PROVE  Market!Idle \in Pricing /\ Market!Idle.pc = "idle"
BY DEF Market!Idle, Market!NoBatch, Pricing

\* The draft of a builder changes, and nothing else but the builder's step.
LEMMA DraftWritten ==
    ASSUME MarketValues, MarketInv, NEW j \in Market!Job, NEW b, b = builder[j],
           b.pc \notin {"idle", "draft"},
           NEW x \in Sheet, x.status # "published", x.started = sheet[b.name].started,
           \A s \in Security : x.rows[s] \in closes[s] \cup {0, Market!Unset},
           b.name.repairs = << >> \/ x.coverage = 0,
           DOMAIN sheet' = DOMAIN sheet, sheet'[b.name] = x,
           \A m \in DOMAIN sheet : m # b.name => sheet'[m] = sheet[m],
           UNCHANGED <<day, closes, valued, starts>>, faults' \in 0..MaxFaults
    PROVE  /\ builder' \in [Market!Job -> Pricing] => MarketTyped'
           /\ SheetsFit' /\ CurrentStands'
           /\ x.status = "draft" => Drafting(b)'
           /\ valued # << >> => valued # b.name /\ sheet'[valued] = sheet[valued]
<1>1. Drafting(b) BY DEF MarketInv, BuildersFit, SyncFits, RepairFits, Market!Job
<1>2. b.name \in DOMAIN sheet /\ sheet[b.name].status = "draft" BY <1>1 DEF Drafting
<1>3. /\ DOMAIN sheet' = DOMAIN sheet /\ sheet'[b.name] = x
      /\ \A n \in DOMAIN sheet : n # b.name => sheet'[n] = sheet[n]
    BY <1>2
<1>4. builder' \in [Market!Job -> Pricing] => MarketTyped'
    BY <1>3 DEF MarketInv, MarketTyped
<1>5. SheetsFit' BY <1>2, <1>3 DEF MarketInv, SheetsFit, Market!Unset
<1>6. PublishedKeep BY <1>2, <1>3 DEF PublishedKeep
<1>7. CurrentStands' BY <1>6, CurrentKept
<1>8. x.status = "draft" => Drafting(b)' BY <1>1, <1>2, <1>3 DEF Drafting
<1>9. valued # << >> => valued # b.name /\ sheet'[valued] = sheet[valued]
    BY <1>2, <1>3 DEF MarketInv, CurrentStands
<1> QED BY <1>4, <1>5, <1>7, <1>8, <1>9

\* Days, histories and stutters; batches that age or are cleaned up.
LEMMA WorldSteps ==
    ASSUME MarketValues, MarketInv,
           \/ Market!Close \/ (\E s \in Candidate : Market!StoreHistory(s))
           \/ (\E n \in DOMAIN sheet : Market!Age(n)) \/ Market!CleanUp \/ UNCHANGED Market!vars
    PROVE  MarketInv'
<1>0. /\ UNCHANGED <<valued, builder, starts, faults>>
      /\ day \in 1..MaxDay /\ closes \in [Security -> SUBSET (1..day)] /\ MaxDay \in Nat
    BY DEF MarketInv, MarketTyped, MarketValues,
           Market!Close, Market!StoreHistory, Market!Age, Market!CleanUp, Market!vars
<1>1. /\ day' \in 1..MaxDay /\ closes' \in [Security -> SUBSET (1..day')] /\ day <= day'
      /\ \A s \in Security : closes[s] \subseteq closes'[s]
    <2>1. CASE Market!Close
        <3>1. day' \in 1..MaxDay /\ day <= day' /\ 1..day \subseteq 1..day' /\ closes' = closes
            BY <1>0, <2>1 DEF Market!Close
        <3> QED BY <1>0, <3>1
    <2>2. ASSUME NEW s \in Candidate, Market!StoreHistory(s)
          PROVE  /\ day' \in 1..MaxDay /\ closes' \in [Security -> SUBSET (1..day')] /\ day <= day'
                 /\ \A t \in Security : closes[t] \subseteq closes'[t]
        BY <1>0, <2>2 DEF Market!StoreHistory, MarketValues
    <2>3. CASE UNCHANGED <<day, closes>> BY <1>0, <2>3
    <2> QED BY <2>1, <2>2, <2>3 DEF Market!Age, Market!CleanUp, Market!vars
<1>2. /\ \A n \in DOMAIN sheet' :
            /\ n \in DOMAIN sheet /\ sheet'[n] \in Sheet
            /\ sheet'[n].started = sheet[n].started /\ sheet'[n].coverage = sheet[n].coverage
            /\ sheet'[n].status = sheet[n].status /\ sheet'[n].rows = sheet[n].rows
      /\ \A n \in DOMAIN sheet : n \in DOMAIN sheet' \/
            (sheet[n].status = "published" /\ n.repairs # << >> /\ n # valued)
      /\ \A n \in DOMAIN sheet : sheet[n].status = "draft" =>
            n \in DOMAIN sheet' /\ sheet'[n] = sheet[n]
    <2>0. \A n \in DOMAIN sheet : sheet[n] \in Sheet BY DEF MarketInv, MarketTyped
    <2>1. ASSUME NEW n \in DOMAIN sheet, Market!Age(n)
          PROVE  /\ DOMAIN sheet' = DOMAIN sheet
                 /\ \A m \in DOMAIN sheet \ {n} : sheet'[m] = sheet[m]
                 /\ sheet'[n] = [sheet[n] EXCEPT !.old = TRUE] /\ sheet[n].status = "published"
        BY <2>1 DEF Market!Age
    <2>2. ASSUME NEW n \in DOMAIN sheet, Market!Age(n)
          PROVE  /\ sheet'[n] \in Sheet
                 /\ sheet'[n].started = sheet[n].started /\ sheet'[n].coverage = sheet[n].coverage
                 /\ sheet'[n].status = sheet[n].status /\ sheet'[n].rows = sheet[n].rows
        BY <2>0, <2>1, <2>2 DEF Sheet
    <2>3. CASE \E n \in DOMAIN sheet : Market!Age(n)
        <3>1. PICK n \in DOMAIN sheet : Market!Age(n) BY <2>3
        <3>2. /\ DOMAIN sheet' = DOMAIN sheet /\ sheet[n].status = "published"
              /\ \A m \in DOMAIN sheet \ {n} : sheet'[m] = sheet[m]
              /\ sheet'[n] \in Sheet
              /\ sheet'[n].started = sheet[n].started /\ sheet'[n].coverage = sheet[n].coverage
              /\ sheet'[n].status = sheet[n].status /\ sheet'[n].rows = sheet[n].rows
            BY <2>1, <2>2, <3>1
        <3> QED BY <2>0, <3>2
    <2>4. CASE Market!CleanUp
        <3>1. sheet' = [n \in DOMAIN sheet \ Market!Superseded |-> sheet[n]]
            BY <2>4 DEF Market!CleanUp
        <3>2. \A n \in Market!Superseded :
                  sheet[n].status = "published" /\ n.repairs # << >> /\ n # valued
            BY Zenon DEF Market!Superseded
        <3> QED BY <2>0, <3>1, <3>2
    <2>5. CASE sheet' = sheet BY <2>0, <2>5
    <2> QED BY <2>3, <2>4, <2>5 DEF Market!Close, Market!StoreHistory, Market!vars
<1>3. MarketTyped' BY <1>0, <1>1, <1>2 DEF MarketInv, MarketTyped
<1>4. SheetsFit' BY <1>0, <1>1, <1>2 DEF MarketInv, SheetsFit
<1>5. PublishedKeep BY <1>0, <1>2 DEF PublishedKeep
<1>6. CurrentStands' BY <1>5, CurrentKept
<1>7. valued # << >> => sheet'[valued].rows = sheet[valued].rows
    BY <1>5 DEF PublishedKeep, MarketInv, CurrentStands
<1>8. BuildersFit'
    <2>1. PICK b, c : b = builder["sync"] /\ c = builder["repair"] OBVIOUS
    <2>2. builder'["sync"] = b /\ builder'["repair"] = c BY <1>0, <2>1
    <2>3. SyncFits(b) /\ RepairFits(c) /\ (b.pc = "idle" \/ c.pc = "idle")
        BY <2>1 DEF MarketInv, BuildersFit
    <2>4. SyncFits(b)' /\ RepairFits(c)' BY <1>0, <1>1, <1>2, <1>7, <2>3, BuilderKeeps
    <2> QED BY <2>2, <2>3, <2>4 DEF BuildersFit
<1> QED BY <1>3, <1>4, <1>6, <1>8 DEF MarketInv

LEMMA CrashStep ==
    ASSUME MarketValues, MarketInv, Market!Crash
    PROVE  MarketInv'
<1>0. /\ UNCHANGED <<day, closes, sheet, valued, starts>> /\ faults' \in 0..MaxFaults
      /\ builder' = [j \in Market!Job |-> Market!Idle]
    BY DEF Market!Crash, MarketInv, MarketTyped, MarketValues
<1>1. MarketTyped' BY <1>0, NobodyPrices DEF MarketInv, MarketTyped
<1>2. SheetsFit' /\ CurrentStands' BY <1>0 DEF MarketInv, SheetsFit, CurrentStands
<1>3. builder'["sync"] = Market!Idle /\ builder'["repair"] = Market!Idle
    BY <1>0 DEF Market!Job
<1>4. BuildersFit' BY <1>3, NobodyPrices DEF BuildersFit, SyncFits, RepairFits
<1> QED BY <1>1, <1>2, <1>4 DEF MarketInv

LEMMA JobEnds ==
    ASSUME MarketValues, MarketInv, NEW j \in Market!Job, builder[j].pc # "idle",
           builder' = [builder EXCEPT ![j] = Market!Idle]
    PROVE  builder' \in [Market!Job -> Pricing] /\ BuildersFit'
<1>1. PICK b : b = Market!Idle OBVIOUS
<1>2. b \in Pricing /\ b.pc = "idle" BY <1>1, NobodyPrices
<1>3. SyncFits(b)' /\ RepairFits(b)' BY <1>2, IdleFits
<1> QED BY <1>1, <1>2, <1>3, OneWorks

\* What a sync is named by.
LEMMA QuotesTyped ==
    ASSUME MarketValues, MarketInv, NEW live
    PROVE  /\ Market!Name(Market!Quotes(live)) \in SheetName
           /\ Market!Name(Market!Quotes(live)).repairs = << >>
           /\ \A s \in Security : Market!Name(Market!Quotes(live)).quote[s].close <= day
<1>1. /\ day \in 1..MaxDay /\ closes \in [Security -> SUBSET (1..day)] /\ MaxDay \in Nat
      /\ 1..day \subseteq 1..MaxDay
    BY DEF MarketInv, MarketTyped, MarketValues
<1>2. ASSUME NEW s \in Security PROVE Market!Fallback(s) \in 0..day
    <2> DEFINE usable == {d \in closes[s] : d <= day /\ d + 1 >= day}
    <2>1. usable \subseteq 1..day /\ usable \subseteq 1..MaxDay BY <1>1
    <2>2. usable # {} => Market!Max(usable) \in usable BY <2>1, NewestDay
    <2>3. Market!Fallback(s) = IF usable = {} THEN 0 ELSE Market!Max(usable)
        BY Zenon DEF Market!Fallback
    <2> HIDE DEF usable
    <2>4. CASE usable = {} BY <1>1, <2>3, <2>4
    <2>5. CASE usable # {}
        <3>1. Market!Max(usable) \in 1..day BY <2>1, <2>2, <2>5
        <3> QED BY <1>1, <2>3, <2>5, <3>1
    <2> QED BY <2>4, <2>5
<1>3. PICK q : q = Market!Quotes(live) OBVIOUS
<1>4. \A s \in Security : q[s] \in Priced /\ q[s].close <= day
    <2> SUFFICES ASSUME NEW s \in Security PROVE q[s] \in Priced /\ q[s].close <= day OBVIOUS
    <2>1. PICK f \in 0..day : f = Market!Fallback(s) BY <1>2
    <2>2. q[s] = IF s \in live THEN [close |-> day, source |-> "live"]
                 ELSE IF f # 0 THEN [close |-> f, source |-> "local"]
                 ELSE [close |-> 0, source |-> "none"]
        BY <1>3, <2>1 DEF Market!Quotes
    <2> QED BY <1>1, <2>2 DEF Priced
<1>5. q \in [Security -> Priced] BY <1>3, <1>4 DEF Market!Quotes
<1>6. << >> \in Seq(Repair) BY EmptySeq
<1>7. Market!Name(q) \in SheetName /\ Market!Name(q).repairs = << >> /\ Market!Name(q).quote = q
    BY <1>1, <1>5, <1>6 DEF Market!Name, SheetName
<1> QED BY <1>3, <1>4, <1>7

LEMMA LoadStep ==
    ASSUME MarketValues, MarketInv, NEW live \in SUBSET Security, Market!Load(live)
    PROVE  MarketInv'
<1>1. PICK n : n = Market!Name(Market!Quotes(live)) OBVIOUS
<1>2. PICK b : b = [pc |-> "draft", name |-> n, base |-> << >>] OBVIOUS
<1>3. /\ Market!Gate("sync") /\ Market!Covered(n) # {}
      /\ builder' = [builder EXCEPT !["sync"] = b]
      /\ UNCHANGED <<day, closes, sheet, valued, starts, faults>>
    BY <1>1, <1>2 DEF Market!Load, Market!NoBatch
<1>4. n \in SheetName /\ n.repairs = << >> /\ \A s \in Security : n.quote[s].close <= day
    BY <1>1, QuotesTyped
<1>5. b \in Pricing BY <1>2, <1>4 DEF Pricing
<1>6. SyncFits(b)' BY <1>2, <1>3, <1>4 DEF SyncFits
<1>7. builder' \in [Market!Job -> Pricing] /\ BuildersFit'
    BY <1>3, <1>5, <1>6, OneWorks DEF Market!Job
<1>8. MarketTyped' BY <1>3, <1>7 DEF MarketInv, MarketTyped
<1>9. SheetsFit' /\ CurrentStands' BY <1>3 DEF MarketInv, SheetsFit, CurrentStands
<1> QED BY <1>7, <1>8, <1>9 DEF MarketInv

LEMMA RepriceStep ==
    ASSUME MarketValues, MarketInv, NEW s \in Candidate, Market!Reprice(s)
    PROVE  MarketInv'
<1>1. PICK v : v = valued OBVIOUS
<1>2. PICK d : d = Market!RepairClose(s) OBVIOUS
<1>3. PICK m : m = Market!Repaired(v, s, d) OBVIOUS
<1>4. PICK b : b = [pc |-> "draft", name |-> m, base |-> v] OBVIOUS
<1>5. /\ Market!Gate("repair") /\ v # << >> /\ closes[s] # {}
      /\ builder' = [builder EXCEPT !["repair"] = b]
      /\ UNCHANGED <<day, closes, sheet, valued, starts, faults>>
    BY <1>1, <1>2, <1>3, <1>4 DEF Market!Reprice, Market!NoBatch
<1>6. /\ s \in Security /\ v \in SheetName /\ v \in DOMAIN sheet /\ sheet[v] \in Sheet
      /\ sheet[v].rows[s] \in closes[s] \cup {0} /\ closes[s] \subseteq 1..MaxDay
    BY <1>1, <1>5 DEF MarketValues, MarketInv, MarketTyped, CurrentStands, SheetsFit
<1>7. d \in closes[s] /\ d \in 1..MaxDay /\ \A c \in closes[s] : d >= c
    BY <1>2, <1>5, <1>6, NewestDay DEF Market!RepairClose
<1>8. PICK r \in Repair : r = [security |-> s, close |-> d] BY <1>6, <1>7 DEF Repair
<1>9. m = [v EXCEPT !.repairs = Append(v.repairs, r)]
    BY <1>3, <1>6, <1>8 DEF Market!Repaired, SheetName
<1>10. m \in SheetName /\ Last(m) = r BY <1>6, <1>9, RepairedName
<1>11. b \in Pricing BY <1>4, <1>6, <1>10 DEF Pricing
<1>12. sheet[v].rows[s] <= d
    BY <1>6, <1>7 DEF MarketValues
<1>13. RepairFits(b)'
    <2>1. r.security = s /\ r.close = d BY <1>8
    <2>2. valued' = v /\ sheet' = sheet /\ closes' = closes BY <1>1, <1>5
    <2>3. b.pc = "draft" /\ b.name = m /\ b.base = v BY <1>4
    <2> QED BY <1>5, <1>7, <1>9, <1>10, <1>12, <2>1, <2>2, <2>3 DEF RepairFits
<1>14. builder' \in [Market!Job -> Pricing] /\ BuildersFit'
    BY <1>5, <1>11, <1>13, OneWorks DEF Market!Job
<1>15. MarketTyped' BY <1>5, <1>14 DEF MarketInv, MarketTyped
<1>16. SheetsFit' /\ CurrentStands' BY <1>5 DEF MarketInv, SheetsFit, CurrentStands
<1> QED BY <1>14, <1>15, <1>16 DEF MarketInv

LEMMA DraftCreated ==
    ASSUME MarketValues, MarketInv, NEW j \in Market!Job, Market!CreateDraft(j)
    PROVE  MarketInv'
<1>1. PICK b : b = builder[j] OBVIOUS
<1>2. PICK n : n = b.name OBVIOUS
<1>3. Market!This(j) = n BY <1>1, <1>2 DEF Market!This
<1>4. /\ b \in Pricing /\ b.pc = "draft" /\ builder[j].pc # "idle"
      /\ UNCHANGED <<day, closes, valued, faults>>
      /\ j = "sync" => SyncFits(b)
      /\ j = "repair" => RepairFits(b)
    BY <1>1 DEF Market!CreateDraft, MarketInv, MarketTyped, BuildersFit
<1>5. n \in SheetName
    <2>1. CASE j = "sync" BY <1>2, <1>4, <2>1 DEF SyncFits
    <2>2. CASE j = "repair"
        <3>1. /\ valued \in SheetName /\ Last(n) \in Repair
              /\ n = [valued EXCEPT !.repairs = Append(valued.repairs, Last(n))]
            BY <1>2, <1>4, <2>2 DEF RepairFits, MarketInv, MarketTyped, CurrentStands
        <3> QED BY <3>1, RepairedName
    <2> QED BY <2>1, <2>2 DEF Market!Job
<1>6. CASE n \in DOMAIN sheet /\ sheet[n].status = "published"
    <2>1. builder' = [builder EXCEPT ![j] = Market!Idle] /\ UNCHANGED <<sheet, starts>>
        BY <1>3, <1>6 DEF Market!CreateDraft
    <2>2. builder' \in [Market!Job -> Pricing] /\ BuildersFit' BY <1>4, <2>1, JobEnds
    <2>3. MarketTyped' BY <1>4, <2>1, <2>2 DEF MarketInv, MarketTyped
    <2>4. SheetsFit' /\ CurrentStands' BY <1>4, <2>1 DEF MarketInv, SheetsFit, CurrentStands
    <2> QED BY <2>2, <2>3, <2>4 DEF MarketInv
<1>7. CASE ~(n \in DOMAIN sheet /\ sheet[n].status = "published")
    <2>1. PICK x : x = [status |-> "draft", started |-> starts + 1, old |-> FALSE, coverage |-> 0,
                        rows |-> [s \in Security |-> MaxDay + 1]]
        OBVIOUS
    <2>2. PICK pc \in {"prices", "copy"} : pc = IF j = "sync" THEN "prices" ELSE "copy" OBVIOUS
    <2>3. PICK c : c = [b EXCEPT !.pc = pc] OBVIOUS
    <2>4. /\ starts < MaxStarts /\ starts' = starts + 1
          /\ sheet' = [m \in DOMAIN sheet \cup {n} |-> IF m = n THEN x ELSE sheet[m]]
        BY <1>3, <1>7, <2>1 DEF Market!CreateDraft, Market!Unset
    <2>5. builder' = [builder EXCEPT ![j] = c]
        <3>1. builder' = [builder EXCEPT ![j].pc = IF j = "sync" THEN "prices" ELSE "copy"]
            BY <1>3, <1>7 DEF Market!CreateDraft
        <3>2. builder' = [builder EXCEPT ![j].pc = pc] BY <2>2, <3>1
        <3> QED BY <1>1, <2>3, <3>2
    <2>6. starts \in 0..MaxStarts /\ MaxStarts \in Nat /\ MaxDay \in Nat /\ starts' \in 0..MaxStarts
        BY <2>4 DEF MarketInv, MarketTyped, MarketValues
    <2>7. x \in Sheet /\ x.status = "draft" /\ x.started = starts' /\ x.coverage = 0
          /\ \A s \in Security : x.rows[s] = MaxDay + 1
        BY <2>1, <2>4, <2>6 DEF Sheet
    <2>8. c \in Pricing /\ c.pc = pc /\ c.name = n /\ c.base = b.base
        BY <1>2, <1>4, <2>2, <2>3 DEF Pricing
    <2>9. DOMAIN sheet' = DOMAIN sheet \cup {n} /\ sheet'[n] = x
          /\ \A m \in DOMAIN sheet : m # n => sheet'[m] = sheet[m]
        BY <2>4
    <2>10. \A m \in DOMAIN sheet : sheet[m].started \in 0..MaxStarts /\ sheet[m].started <= starts
        BY DEF MarketInv, MarketTyped, SheetsFit, Sheet
    <2>11. SheetsFit'
        BY <1>4, <2>4, <2>6, <2>7, <2>9, <2>10 DEF MarketInv, SheetsFit, Market!Unset
    <2>12. PublishedKeep BY <1>4, <1>7, <2>7, <2>9 DEF PublishedKeep
    <2>13. CurrentStands' BY <2>12, CurrentKept
    <2>14. Drafting(c)' BY <2>4, <2>6, <2>7, <2>8, <2>9, <2>10 DEF Drafting
    <2>15. j = "sync" => SyncFits(c)'
        <3> HAVE j = "sync"
        <3>1. c.pc = "prices" BY <2>2, <2>8
        <3>2. /\ n.repairs = << >> /\ Market!Covered(n) # {}
              /\ \A s \in Security : n.quote[s].close <= day'
            BY <1>2, <1>4 DEF SyncFits
        <3> QED BY <1>5, <2>8, <2>14, <3>1, <3>2 DEF SyncFits
    <2>16. j = "repair" => RepairFits(c)'
        <3> HAVE j = "repair"
        <3>0. PICK v : v = valued OBVIOUS
        <3>1. c.pc = "copy" /\ j # "sync" BY <2>2, <2>8
        <3>2. v # << >> /\ v # n /\ sheet'[v] = sheet[v]
            BY <1>4, <1>7, <2>9, <3>0 DEF RepairFits, MarketInv, CurrentStands
        <3>3. /\ b.base = v /\ Last(n) \in Repair
              /\ n = [v EXCEPT !.repairs = Append(v.repairs, Last(n))]
              /\ Last(n).close \in closes[Last(n).security]
              /\ sheet[v].rows[Last(n).security] <= Last(n).close
            BY <1>2, <1>4, <3>0 DEF RepairFits
        <3>4. valued' = v /\ closes' = closes BY <1>4, <3>0
        <3> QED BY <2>8, <2>14, <3>1, <3>2, <3>3, <3>4 DEF RepairFits
    <2>17. builder' \in [Market!Job -> Pricing] /\ BuildersFit'
        BY <1>4, <2>5, <2>8, <2>15, <2>16, OneWorks
    <2>18. MarketTyped'
        BY <1>4, <1>5, <2>6, <2>7, <2>9, <2>17 DEF MarketInv, MarketTyped
    <2> QED BY <2>11, <2>13, <2>17, <2>18 DEF MarketInv
<1> QED BY <1>6, <1>7

LEMMA PricesStored ==
    ASSUME MarketValues, MarketInv, NEW j \in Market!Job, Market!PersistPrices(j)
    PROVE  MarketInv'
<1>1. PICK b : b = builder[j] OBVIOUS
<1>2. PICK n : n = b.name OBVIOUS
<1>3. Market!This(j) = n BY <1>1, <1>2 DEF Market!This
<1>4. /\ b \in Pricing /\ b.pc = "prices" /\ builder[j].pc # "idle" /\ j = "sync"
      /\ UNCHANGED <<day, sheet, valued, starts, faults>> /\ SyncFits(b)
    BY <1>1 DEF Market!PersistPrices, MarketInv, MarketTyped, BuildersFit, RepairFits, Market!Job
<1>5. PICK c : c = [b EXCEPT !.pc = "diagnose"] OBVIOUS
<1>6. c \in Pricing /\ c.pc = "diagnose" /\ c.name = n BY <1>2, <1>4, <1>5 DEF Pricing
<1>7. builder' = [builder EXCEPT ![j] = c] BY <1>1, <1>5 DEF Market!PersistPrices
<1>8. /\ n \in SheetName /\ \A s \in Security : n.quote[s].close <= day
      /\ \A s \in Security : n.quote[s].close \in 0..MaxDay
      /\ Market!Covered(n) # {} /\ n.repairs = << >>
    BY <1>2, <1>4 DEF SyncFits, SheetName, Priced
<1>9. /\ day \in 1..MaxDay /\ MaxDay \in Nat /\ closes \in [Security -> SUBSET (1..day)]
    BY DEF MarketInv, MarketTyped, MarketValues
<1>10. closes' = [s \in Security |->
          IF s \in Market!Covered(n) THEN closes[s] \cup {n.quote[s].close} ELSE closes[s]]
    BY <1>3 DEF Market!PersistPrices
<1>11. /\ closes' \in [Security -> SUBSET (1..day)]
       /\ \A s \in Security : closes[s] \subseteq closes'[s]
       /\ \A s \in Market!Covered(n) : n.quote[s].close \in closes'[s]
    <2>1. \A s \in Market!Covered(n) : s \in Security /\ n.quote[s].close \in 1..day
        BY <1>8, <1>9 DEF Market!Covered
    <2> QED BY <1>9, <1>10, <2>1
<1>12. SyncFits(b)' BY <1>4, <1>9, <1>11, BuilderKeeps
<1>13. SyncFits(c)'
    <2>1. Drafting(b)' BY <1>4, <1>12 DEF SyncFits
    <2>2. Drafting(c)' BY <1>2, <1>6, <2>1 DEF Drafting
    <2> QED BY <1>4, <1>6, <1>8, <1>11, <2>2 DEF SyncFits
<1>14. builder' \in [Market!Job -> Pricing] /\ BuildersFit'
    BY <1>4, <1>6, <1>7, <1>13, OneWorks
<1>15. MarketTyped' BY <1>4, <1>11, <1>14 DEF MarketInv, MarketTyped
<1>16. SheetsFit' BY <1>4, <1>11 DEF MarketInv, SheetsFit
<1>17. CurrentStands' BY <1>4 DEF MarketInv, CurrentStands
<1> QED BY <1>14, <1>15, <1>16, <1>17 DEF MarketInv

\* The gates: the measured sync that is youngest is the root of the current batch.
LEMMA GatesPassed ==
    ASSUME MarketValues, MarketInv, NEW j \in Market!Job, Market!PassGates(j)
    PROVE  MarketInv'
<1>1. PICK b : b = builder[j] OBVIOUS
<1>2. PICK n : n = b.name OBVIOUS
<1>3. Market!This(j) = n BY <1>1, <1>2 DEF Market!This
<1>4. /\ b \in Pricing /\ b.pc = "gates" /\ builder[j].pc # "idle" /\ j = "sync"
      /\ UNCHANGED <<day, closes, sheet, valued, starts, faults>> /\ SyncFits(b)
    BY <1>1 DEF Market!PassGates, MarketInv, MarketTyped, BuildersFit, RepairFits, Market!Job
<1>5. PICK c : c = [b EXCEPT !.pc = "rows"] OBVIOUS
<1>6. c \in Pricing /\ c.pc = "rows" /\ c.name = n BY <1>2, <1>4, <1>5 DEF Pricing
<1>7. builder' = [builder EXCEPT ![j] = c] BY <1>1, <1>5 DEF Market!PassGates
<1>8. /\ Drafting(b) /\ n \in SheetName /\ sheet[n].coverage = Breadth(n)
    BY <1>2, <1>4 DEF SyncFits
<1>9. ASSUME valued # << >> PROVE Breadth(Root(valued)) <= Breadth(n) + MaxDrop
    <2>1. PICK r : r = Root(valued) OBVIOUS
    <2>2. /\ r \in DOMAIN sheet /\ sheet[r].status = "published"
          /\ sheet[r].coverage = Breadth(r) /\ sheet[r].coverage # 0
          /\ \A m \in DOMAIN sheet : sheet[m].status = "published" /\ sheet[m].coverage # 0 =>
                 sheet[m].started <= sheet[r].started
        BY <1>9, <2>1 DEF MarketInv, CurrentStands
    <2>3. sheet[n].started = starts /\ r # n /\ sheet[r].started < starts
        BY <1>2, <1>8, <2>2 DEF Drafting
    <2>4. r \in Market!Measured(j) BY <1>3, <2>2, <2>3 DEF Market!Measured
    <2>5. \A m \in Market!Measured(j) : sheet[m].started <= sheet[r].started
        BY <2>2 DEF Market!Measured
    <2>6. sheet[r].coverage <= sheet[n].coverage + MaxDrop
        BY <1>3, <2>4, <2>5 DEF Market!PassGates, Market!CoverageHolds
    <2> QED BY <1>8, <2>1, <2>2, <2>6
<1>10. SyncFits(c)'
    <2>1. Drafting(c)' BY <1>2, <1>4, <1>6, <1>8 DEF Drafting
    <2> QED BY <1>2, <1>4, <1>6, <1>8, <1>9, <2>1 DEF SyncFits
<1>11. builder' \in [Market!Job -> Pricing] /\ BuildersFit'
    BY <1>4, <1>6, <1>7, <1>10, OneWorks
<1>12. MarketTyped' BY <1>4, <1>11 DEF MarketInv, MarketTyped
<1>13. SheetsFit' /\ CurrentStands' BY <1>4 DEF MarketInv, SheetsFit, CurrentStands
<1> QED BY <1>11, <1>12, <1>13 DEF MarketInv

LEMMA StageValidated ==
    ASSUME MarketValues, MarketInv, NEW j \in Market!Job, Market!Validate(j)
    PROVE  MarketInv'
<1>1. PICK b : b = builder[j] OBVIOUS
<1>2. PICK n : n = b.name OBVIOUS
<1>3. Market!This(j) = n BY <1>1, <1>2 DEF Market!This
<1>4. /\ b \in Pricing /\ b.pc = "rows" /\ builder[j].pc # "idle" /\ j = "sync"
      /\ UNCHANGED <<day, closes, sheet, valued, starts, faults>> /\ SyncFits(b)
    BY <1>1 DEF Market!Validate, MarketInv, MarketTyped, BuildersFit, RepairFits, Market!Job
<1>5. PICK c : c = [b EXCEPT !.pc = "publish"] OBVIOUS
<1>6. c \in Pricing /\ c.pc = "publish" /\ c.name = n BY <1>2, <1>4, <1>5 DEF Pricing
<1>7. builder' = [builder EXCEPT ![j] = c] BY <1>1, <1>5 DEF Market!Validate
<1>8. \A s \in Security : sheet[n].rows[s] # Market!Unset BY <1>3 DEF Market!Validate
<1>9. SyncFits(c)'
    <2>1. Drafting(b) BY <1>4 DEF SyncFits
    <2>2. Drafting(c)' BY <1>2, <1>4, <1>6, <2>1 DEF Drafting
    <2> QED BY <1>2, <1>4, <1>6, <1>8, <2>2 DEF SyncFits
<1>10. builder' \in [Market!Job -> Pricing] /\ BuildersFit'
    BY <1>4, <1>6, <1>7, <1>9, OneWorks
<1>11. MarketTyped' BY <1>4, <1>10 DEF MarketInv, MarketTyped
<1>12. SheetsFit' /\ CurrentStands' BY <1>4 DEF MarketInv, SheetsFit, CurrentStands
<1> QED BY <1>10, <1>11, <1>12 DEF MarketInv

LEMMA CoverageRecorded ==
    ASSUME MarketValues, MarketInv, NEW j \in Market!Job, Market!Diagnose(j)
    PROVE  MarketInv'
<1>1. PICK b : b = builder[j] OBVIOUS
<1>2. PICK n : n = b.name OBVIOUS
<1>3. Market!This(j) = n BY <1>1, <1>2 DEF Market!This
<1>4. /\ b \in Pricing /\ b.pc = "diagnose" /\ builder[j].pc # "idle" /\ j = "sync"
      /\ UNCHANGED <<day, closes, valued, starts, faults>> /\ SyncFits(b)
    BY <1>1 DEF Market!Diagnose, MarketInv, MarketTyped, BuildersFit, RepairFits, Market!Job
<1>5. PICK c : c = [b EXCEPT !.pc = "gates"] OBVIOUS
<1>6. c \in Pricing /\ c.pc = "gates" /\ c.name = n BY <1>2, <1>4, <1>5 DEF Pricing
<1>7. builder' = [builder EXCEPT ![j] = c] BY <1>1, <1>5 DEF Market!Diagnose
<1>8. /\ n \in SheetName /\ n.repairs = << >> /\ n \in DOMAIN sheet /\ Market!Covered(n) # {}
      /\ sheet[n] \in Sheet /\ sheet[n].status = "draft"
      /\ \A s \in Security : sheet[n].rows[s] \in closes[s] \cup {0, Market!Unset}
    BY <1>2, <1>4 DEF SyncFits, Drafting, MarketInv, MarketTyped, SheetsFit
<1>9. PICK k \in Nat : k = Breadth(n) BY <1>8, NameParts
<1>10. PICK x : x = [sheet[n] EXCEPT !.coverage = k] OBVIOUS
<1>11. /\ x \in Sheet /\ x.status = "draft" /\ x.started = sheet[n].started
       /\ x.rows = sheet[n].rows /\ x.coverage = k
    BY <1>8, <1>10 DEF Sheet
<1>12. /\ DOMAIN sheet' = DOMAIN sheet /\ sheet'[b.name] = x
       /\ \A m \in DOMAIN sheet : m # b.name => sheet'[m] = sheet[m]
    <2>1. sheet' = [sheet EXCEPT ![n].coverage = k]
        BY <1>3, <1>9 DEF Market!Diagnose, Breadth
    <2> QED BY <1>2, <1>8, <1>10, <2>1
<1>13. faults' \in 0..MaxFaults BY <1>4 DEF MarketInv, MarketTyped
<1>14. /\ SheetsFit' /\ CurrentStands' /\ Drafting(b)'
       /\ builder' \in [Market!Job -> Pricing] => MarketTyped'
    BY <1>1, <1>2, <1>4, <1>8, <1>11, <1>12, <1>13, DraftWritten
<1>15. SyncFits(c)'
    <2>1. Drafting(c)' BY <1>2, <1>6, <1>14 DEF Drafting
    <2> QED BY <1>2, <1>4, <1>6, <1>9, <1>11, <1>12, <1>14, <2>1 DEF SyncFits
<1>16. builder' \in [Market!Job -> Pricing] /\ BuildersFit'
    BY <1>4, <1>6, <1>7, <1>15, OneWorks
<1> QED BY <1>14, <1>16 DEF MarketInv

LEMMA RowStaged ==
    ASSUME MarketValues, MarketInv, NEW j \in Market!Job, NEW s \in Security,
           Market!StageRow(j, s)
    PROVE  MarketInv'
<1>1. PICK b : b = builder[j] OBVIOUS
<1>2. PICK n : n = b.name OBVIOUS
<1>3. Market!This(j) = n BY <1>1, <1>2 DEF Market!This
<1>4. /\ b \in Pricing /\ b.pc = "rows" /\ builder[j].pc # "idle" /\ j = "sync"
      /\ UNCHANGED <<day, closes, valued, builder, starts, faults>> /\ SyncFits(b)
    BY <1>1 DEF Market!StageRow, MarketInv, MarketTyped, BuildersFit, RepairFits, Market!Job
<1>8. /\ n \in SheetName /\ n.repairs = << >> /\ n \in DOMAIN sheet
      /\ sheet[n] \in Sheet /\ sheet[n].status = "draft"
      /\ \A t \in Security : sheet[n].rows[t] \in closes[t] \cup {0, Market!Unset}
    BY <1>2, <1>4 DEF SyncFits, Drafting, MarketInv, MarketTyped, SheetsFit
<1>9. PICK d \in 0..MaxDay : d = n.quote[s].close BY <1>8 DEF SheetName, Priced
<1>10. d \in closes[s] \cup {0}
    BY <1>2, <1>4, <1>9 DEF SyncFits, Market!Covered
<1>11. PICK x : x = [sheet[n] EXCEPT !.rows[s] = d] OBVIOUS
<1>12. /\ x \in Sheet /\ x.status = "draft" /\ x.started = sheet[n].started
       /\ x.coverage = sheet[n].coverage
       /\ \A t \in Security : x.rows[t] \in closes[t] \cup {0, Market!Unset}
    <2>1. PICK q : q = [sheet[n].rows EXCEPT ![s] = d] OBVIOUS
    <2>2. sheet[n].rows \in [Security -> 0..MaxDay + 1] /\ d \in 0..MaxDay + 1
        BY <1>8, <1>9 DEF Sheet, MarketValues
    <2>3. /\ q \in [Security -> 0..MaxDay + 1] /\ q[s] = d
          /\ \A t \in Security \ {s} : q[t] = sheet[n].rows[t]
        BY <2>1, <2>2
    <2>4. x = [sheet[n] EXCEPT !.rows = q] BY <1>11, <2>1
    <2>5. /\ x \in Sheet /\ x.status = "draft" /\ x.started = sheet[n].started
          /\ x.coverage = sheet[n].coverage /\ x.rows = q
        BY <1>8, <2>3, <2>4 DEF Sheet
    <2> QED BY <1>8, <1>10, <2>3, <2>5
<1>13. /\ DOMAIN sheet' = DOMAIN sheet /\ sheet'[b.name] = x
       /\ \A m \in DOMAIN sheet : m # b.name => sheet'[m] = sheet[m]
    BY <1>2, <1>3, <1>8, <1>9, <1>11 DEF Market!StageRow
<1>14. faults' \in 0..MaxFaults BY <1>4 DEF MarketInv, MarketTyped
<1>15. /\ SheetsFit' /\ CurrentStands' /\ Drafting(b)'
       /\ builder' \in [Market!Job -> Pricing] => MarketTyped'
    BY <1>1, <1>2, <1>4, <1>8, <1>10, <1>12, <1>13, <1>14, DraftWritten
<1>16. SyncFits(b)'
    BY <1>2, <1>4, <1>12, <1>13, <1>15 DEF SyncFits
<1>17. builder' = [builder EXCEPT ![j] = b] BY <1>1, <1>4 DEF MarketInv, MarketTyped
<1>18. builder' \in [Market!Job -> Pricing] /\ BuildersFit'
    BY <1>4, <1>16, <1>17, OneWorks
<1> QED BY <1>15, <1>18 DEF MarketInv

LEMMA RowsCopied ==
    ASSUME MarketValues, MarketInv, NEW j \in Market!Job, Market!CopyRows(j)
    PROVE  MarketInv'
<1>1. PICK b : b = builder[j] OBVIOUS
<1>2. PICK n : n = b.name OBVIOUS
<1>0. PICK v : v = valued OBVIOUS
<1>3. Market!This(j) = n BY <1>1, <1>2 DEF Market!This
<1>4. /\ b \in Pricing /\ b.pc = "copy" /\ builder[j].pc # "idle" /\ j = "repair"
      /\ UNCHANGED <<day, closes, valued, starts, faults>> /\ RepairFits(b)
    BY <1>1 DEF Market!CopyRows, MarketInv, MarketTyped, BuildersFit, SyncFits, Market!Job
<1>5. PICK c : c = [b EXCEPT !.pc = "publish"] OBVIOUS
<1>6. c \in Pricing /\ c.pc = "publish" /\ c.name = n /\ c.base = b.base
    BY <1>2, <1>4, <1>5 DEF Pricing
<1>7. builder' = [builder EXCEPT ![j] = c] BY <1>1, <1>5 DEF Market!CopyRows
<1>8. PICK r : r = Last(n) OBVIOUS
<1>9. /\ v # << >> /\ b.base = v /\ r \in Repair /\ Drafting(b)
      /\ n = [v EXCEPT !.repairs = Append(v.repairs, r)]
      /\ r.close \in closes[r.security] /\ sheet[v].rows[r.security] <= r.close
    BY <1>0, <1>2, <1>4, <1>8 DEF RepairFits
<1>10. /\ v \in SheetName /\ v \in DOMAIN sheet /\ sheet[v] \in Sheet
       /\ n \in DOMAIN sheet /\ sheet[n] \in Sheet /\ sheet[n].status = "draft"
       /\ \A t \in Security : sheet[v].rows[t] \in closes[t] \cup {0, Market!Unset}
       /\ n.repairs # << >> => sheet[n].coverage = 0
    BY <1>0, <1>2, <1>9 DEF Drafting, MarketInv, MarketTyped, SheetsFit, CurrentStands
<1>11. PICK q : q = [sheet[v].rows EXCEPT ![r.security] = r.close] OBVIOUS
<1>12. /\ q \in [Security -> 0..MaxDay + 1]
       /\ \A t \in Security : q[t] \in closes[t] \cup {0, Market!Unset}
    <2>1. r.security \in Security /\ r.close \in 0..MaxDay + 1 BY <1>9 DEF Repair, MarketValues
    <2>2. sheet[v].rows \in [Security -> 0..MaxDay + 1] BY <1>10 DEF Sheet
    <2> QED BY <1>9, <1>10, <1>11, <2>1, <2>2
<1>13. PICK x : x = [sheet[n] EXCEPT !.rows = q] OBVIOUS
<1>14. /\ x \in Sheet /\ x.status = "draft" /\ x.status # "published"
       /\ x.started = sheet[b.name].started
       /\ x.rows = q /\ (b.name.repairs = << >> \/ x.coverage = 0)
       /\ \A t \in Security : x.rows[t] \in closes[t] \cup {0, Market!Unset}
    BY <1>2, <1>10, <1>12, <1>13 DEF Sheet
<1>15. /\ DOMAIN sheet' = DOMAIN sheet /\ sheet'[b.name] = x
       /\ \A m \in DOMAIN sheet : m # b.name => sheet'[m] = sheet[m]
    <2>1. sheet' = [sheet EXCEPT ![n].rows =
                       [sheet[builder[j].base].rows EXCEPT ![Last(n).security] = Last(n).close]]
        BY <1>3 DEF Market!CopyRows, Last
    <2>2. builder[j].base = v BY <1>1, <1>9
    <2>3. sheet' = [sheet EXCEPT ![n].rows = q] BY <1>8, <1>11, <2>1, <2>2
    <2> QED BY <1>2, <1>10, <1>13, <2>3
<1>16. faults' \in 0..MaxFaults BY <1>4 DEF MarketInv, MarketTyped
<1>17. /\ SheetsFit' /\ CurrentStands' /\ Drafting(b)'
       /\ builder' \in [Market!Job -> Pricing] => MarketTyped'
       /\ sheet'[v] = sheet[v]
    BY <1>0, <1>1, <1>2, <1>4, <1>9, <1>14, <1>15, <1>16, DraftWritten
<1>18. RepairFits(c)'
    <2>1. Drafting(c)' BY <1>2, <1>6, <1>17 DEF Drafting
    <2>2. valued' = v /\ closes' = closes BY <1>0, <1>4
    <2>3. sheet'[n].rows = [sheet'[v].rows EXCEPT ![r.security] = r.close]
        BY <1>2, <1>11, <1>14, <1>15, <1>17
    <2> QED BY <1>6, <1>8, <1>9, <1>17, <2>1, <2>2, <2>3 DEF RepairFits
<1>19. builder' \in [Market!Job -> Pricing] /\ BuildersFit'
    BY <1>4, <1>6, <1>7, <1>18, OneWorks
<1> QED BY <1>17, <1>19 DEF MarketInv

LEMMA BuildFails ==
    ASSUME MarketValues, MarketInv, NEW j \in Market!Job,
           Market!Reject(j) \/ Market!StepFails(j)
    PROVE  MarketInv'
<1>1. PICK b : b = builder[j] OBVIOUS
<1>2. PICK n : n = b.name OBVIOUS
<1>3. Market!This(j) = n BY <1>1, <1>2 DEF Market!This
<1>4. /\ UNCHANGED <<day, closes, valued, starts>> /\ faults' \in 0..MaxFaults
      /\ builder[j].pc # "idle" /\ builder' = [builder EXCEPT ![j] = Market!Idle]
    BY DEF Market!Reject, Market!StepFails, Market!FailBatch, MarketInv, MarketTyped, MarketValues
<1>5. builder' \in [Market!Job -> Pricing] /\ BuildersFit' BY <1>4, JobEnds
<1>6. CASE sheet' = sheet
    <2>1. MarketTyped' BY <1>4, <1>5, <1>6 DEF MarketInv, MarketTyped
    <2>2. SheetsFit' /\ CurrentStands' BY <1>4, <1>6 DEF MarketInv, SheetsFit, CurrentStands
    <2> QED BY <1>5, <2>1, <2>2 DEF MarketInv
<1>7. CASE sheet' # sheet
    <2>1. b.pc \notin {"idle", "draft"} /\ sheet' = [sheet EXCEPT ![n].status = "failed"]
        BY <1>1, <1>3, <1>4, <1>7 DEF Market!Reject, Market!StepFails, Market!FailBatch
    <2>2. Drafting(b)
        BY <1>1, <2>1 DEF MarketInv, BuildersFit, SyncFits, RepairFits, Market!Job
    <2>3. /\ n \in DOMAIN sheet /\ sheet[n] \in Sheet
          /\ \A t \in Security : sheet[n].rows[t] \in closes[t] \cup {0, Market!Unset}
          /\ n.repairs # << >> => sheet[n].coverage = 0
        BY <1>2, <2>2 DEF Drafting, MarketInv, MarketTyped, SheetsFit
    <2>4. PICK x : x = [sheet[n] EXCEPT !.status = "failed"] OBVIOUS
    <2>5. /\ x \in Sheet /\ x.status # "published" /\ x.started = sheet[b.name].started
          /\ b.name.repairs = << >> \/ x.coverage = 0
          /\ \A t \in Security : x.rows[t] \in closes[t] \cup {0, Market!Unset}
        BY <1>2, <2>3, <2>4 DEF Sheet
    <2>6. /\ DOMAIN sheet' = DOMAIN sheet /\ sheet'[b.name] = x
          /\ \A m \in DOMAIN sheet : m # b.name => sheet'[m] = sheet[m]
        BY <1>2, <2>1, <2>3, <2>4
    <2>7. /\ SheetsFit' /\ CurrentStands'
          /\ builder' \in [Market!Job -> Pricing] => MarketTyped'
        BY <1>1, <1>4, <2>1, <2>5, <2>6, DraftWritten
    <2> QED BY <1>5, <2>7 DEF MarketInv
<1> QED BY <1>6, <1>7

\* What a step that publishes does: the new current batch descends from a measured sync
\* that is as young as any.
LEMMA BatchPublished ==
    ASSUME MarketValues, MarketInv, NEW j \in Market!Job, Market!Publish(j)
    PROVE  MarketInv'
<1>1. PICK b : b = builder[j] OBVIOUS
<1>2. PICK n : n = b.name OBVIOUS
<1>0. PICK v : v = valued OBVIOUS
<1>3. Market!This(j) = n BY <1>1, <1>2 DEF Market!This
<1>4. /\ b \in Pricing /\ b.pc = "publish" /\ builder[j].pc # "idle"
      /\ UNCHANGED <<day, closes, starts, faults>> /\ valued' = n
      /\ builder' = [builder EXCEPT ![j] = Market!Idle]
      /\ j = "sync" => SyncFits(b)
      /\ j = "repair" => RepairFits(b)
    BY <1>1, <1>3 DEF Market!Publish, MarketInv, MarketTyped, BuildersFit
<1>5. builder' \in [Market!Job -> Pricing] /\ BuildersFit' BY <1>4, JobEnds
<1>6. Drafting(b) BY <1>4 DEF SyncFits, RepairFits, Market!Job
<1>7. /\ n \in DOMAIN sheet /\ n \in SheetName /\ sheet[n] \in Sheet /\ sheet[n].status = "draft"
      /\ sheet[n].started = starts
      /\ \A m \in DOMAIN sheet \ {n} : sheet[m].started < starts
      /\ \A t \in Security : sheet[n].rows[t] \in closes[t] \cup {0, Market!Unset}
      /\ n.repairs # << >> => sheet[n].coverage = 0
    BY <1>2, <1>6 DEF Drafting, MarketInv, MarketTyped, SheetsFit
<1>8. PICK x : x = [sheet[n] EXCEPT !.status = "published"] OBVIOUS
<1>9. /\ x \in Sheet /\ x.status = "published" /\ x.started = sheet[n].started
      /\ x.coverage = sheet[n].coverage /\ x.rows = sheet[n].rows
    BY <1>7, <1>8 DEF Sheet
<1>10. /\ DOMAIN sheet' = DOMAIN sheet /\ sheet'[n] = x
       /\ \A m \in DOMAIN sheet : m # n => sheet'[m] = sheet[m]
    BY <1>3, <1>7, <1>8 DEF Market!Publish
<1>11. MarketTyped' BY <1>4, <1>5, <1>9, <1>10 DEF MarketInv, MarketTyped
<1>12. SheetsFit' BY <1>4, <1>7, <1>9, <1>10 DEF MarketInv, SheetsFit
<1>13. CurrentStands'
    <2>1. CASE j = "sync"
        <3>1. /\ n.repairs = << >> /\ Market!Covered(n) # {} /\ sheet[n].coverage = Breadth(n)
              /\ \A s \in Security : sheet[n].rows[s] # Market!Unset
            BY <1>2, <1>4, <2>1 DEF SyncFits
        <3>2. Root(n) = n /\ Breadth(n) # 0 BY <1>7, <3>1, NameParts
        <3>3. \A m \in DOMAIN sheet' : sheet'[m].started <= sheet'[n].started
            BY <1>7, <1>9, <1>10 DEF MarketInv, MarketTyped, Sheet, MarketValues
        <3> QED BY <1>4, <1>7, <1>9, <1>10, <3>1, <3>2, <3>3 DEF CurrentStands
    <2>2. CASE j = "repair"
        <3>1. PICK r : r = Last(n) OBVIOUS
        <3>2. /\ v # << >> /\ r \in Repair
              /\ n = [v EXCEPT !.repairs = Append(v.repairs, r)]
              /\ sheet[n].rows = [sheet[v].rows EXCEPT ![r.security] = r.close]
            BY <1>0, <1>2, <1>4, <2>2, <3>1 DEF RepairFits
        <3>3. /\ v \in DOMAIN sheet /\ v \in SheetName /\ sheet[v] \in Sheet
              /\ \A s \in Security : sheet[v].rows[s] # Market!Unset
              /\ Root(v) \in DOMAIN sheet /\ sheet[Root(v)].status = "published"
              /\ sheet[Root(v)].coverage = Breadth(Root(v)) /\ sheet[Root(v)].coverage # 0
              /\ \A m \in DOMAIN sheet : sheet[m].status = "published" /\ sheet[m].coverage # 0 =>
                     sheet[m].started <= sheet[Root(v)].started
            BY <1>0, <3>2 DEF MarketInv, MarketTyped, CurrentStands
        <3>4. Root(n) = Root(v) /\ n.repairs # << >> /\ n # Root(v)
            BY <3>2, <3>3, RepairedName
        <3>5. \A s \in Security : sheet[n].rows[s] # Market!Unset
            <4>1. r.security \in Security /\ r.close \in 1..MaxDay BY <3>2 DEF Repair
            <4>2. sheet[v].rows \in [Security -> 0..MaxDay + 1] BY <3>3 DEF Sheet
            <4> QED BY <3>2, <3>3, <4>1, <4>2 DEF Market!Unset, MarketValues
        <3>6. \A m \in DOMAIN sheet' : sheet'[m].status = "published" /\ sheet'[m].coverage # 0 =>
                     sheet'[m].started <= sheet'[Root(v)].started
            BY <1>7, <1>9, <1>10, <3>3, <3>4
        <3> QED BY <1>4, <1>7, <1>9, <1>10, <3>3, <3>4, <3>5, <3>6 DEF CurrentStands
    <2> QED BY <2>1, <2>2 DEF Market!Job
<1> QED BY <1>5, <1>11, <1>12, <1>13 DEF MarketInv

LEMMA MarketStep ==
    ASSUME MarketValues, MarketInv, [Market!Next]_Market!vars
    PROVE  MarketInv'
<1>1. CASE UNCHANGED Market!vars BY <1>1, WorldSteps
<1>2. CASE Market!Next
    BY <1>2, WorldSteps, CrashStep, LoadStep, RepriceStep, DraftCreated, PricesStored,
       GatesPassed, StageValidated, CoverageRecorded, RowStaged, RowsCopied, BuildFails,
       BatchPublished DEF Market!Next
<1> QED BY <1>1, <1>2

LEMMA MarketWhole ==
    ASSUME MarketValues, MarketInv
    PROVE  Market!TypeOK /\ Market!CurrentWhole
<1>1. 1..day \subseteq 1..MaxDay BY DEF MarketInv, MarketTyped, MarketValues
<1>2. closes \in [Security -> SUBSET (1..MaxDay)] BY <1>1 DEF MarketInv, MarketTyped
<1>3. \A n \in DOMAIN sheet : /\ sheet[n].status \in {"draft", "failed", "published"}
                              /\ sheet[n].rows \in [Security -> 0..MaxDay + 1]
    BY DEF MarketInv, MarketTyped, Sheet
<1> QED BY <1>2, <1>3 DEF MarketInv, MarketTyped, CurrentStands, Market!TypeOK, Market!CurrentWhole,
                          Market!Unset, Market!NoBatch

\* A step writes drafts; the only batches it removes are old repairs.
LEMMA PublishedRemain ==
    ASSUME MarketValues, MarketInv, Market!Next,
           NEW n \in DOMAIN sheet, sheet[n].status = "published"
    PROVE  IF n \in DOMAIN sheet'
           THEN sheet'[n].status = "published" /\ sheet'[n].rows = sheet[n].rows
           ELSE n.repairs # << >> /\ n # valued'
<1>1. \A j \in Market!Job : builder[j].pc \notin {"idle", "draft"} =>
          Market!This(j) \in DOMAIN sheet /\ sheet[Market!This(j)].status = "draft"
    <2>1. ASSUME NEW j \in Market!Job, builder[j].pc \notin {"idle", "draft"}
          PROVE  Market!This(j) \in DOMAIN sheet /\ sheet[Market!This(j)].status = "draft"
        <3>1. Drafting(builder[j])
            BY <2>1 DEF MarketInv, BuildersFit, SyncFits, RepairFits, Market!Job
        <3> QED BY <3>1 DEF Drafting, Market!This
    <2> QED BY <2>1
<1>2. ASSUME NEW j \in Market!Job, Market!CreateDraft(j)
      PROVE  n \in DOMAIN sheet' /\ sheet'[n] = sheet[n]
    BY <1>2 DEF Market!CreateDraft
<1>3. ASSUME NEW j \in Market!Job,
             Market!Diagnose(j) \/ Market!Reject(j) \/ Market!CopyRows(j) \/ Market!Publish(j)
             \/ Market!StepFails(j) \/ \E s \in Security : Market!StageRow(j, s)
      PROVE  n \in DOMAIN sheet' /\ sheet'[n] = sheet[n]
    <2>1. CASE sheet' = sheet BY <2>1
    <2>2. CASE sheet' # sheet
        <3>1. builder[j].pc \notin {"idle", "draft"}
            BY <1>3, <2>2 DEF Market!Diagnose, Market!Reject, Market!CopyRows, Market!Publish,
                   Market!StepFails, Market!StageRow
        <3>2. n # Market!This(j) BY <1>1, <3>1
        <3> QED BY <1>3, <3>2 DEF Market!Diagnose, Market!Reject, Market!CopyRows, Market!Publish,
                   Market!StepFails, Market!StageRow, Market!FailBatch
    <2> QED BY <2>1, <2>2
<1>4. ASSUME NEW m \in DOMAIN sheet, Market!Age(m)
      PROVE  n \in DOMAIN sheet' /\ sheet'[n].status = "published" /\ sheet'[n].rows = sheet[n].rows
    <2>1. sheet[n] \in Sheet BY DEF MarketInv, MarketTyped
    <2>2. n \in DOMAIN sheet' /\ sheet'[n] \in {sheet[n], [sheet[n] EXCEPT !.old = TRUE]}
        BY <1>4 DEF Market!Age
    <2> QED BY <2>1, <2>2 DEF Sheet
<1>5. CASE Market!CleanUp
    <2>1. sheet' = [m \in DOMAIN sheet \ Market!Superseded |-> sheet[m]] /\ valued' = valued
        BY <1>5 DEF Market!CleanUp
    <2>2. \A m \in Market!Superseded : m.repairs # << >> /\ m # valued
        BY Zenon DEF Market!Superseded
    <2> QED BY <2>1, <2>2
<1>6. CASE sheet' = sheet BY <1>6
<1> QED BY <1>2, <1>3, <1>4, <1>5, <1>6 DEF Market!Next, Market!Close, Market!Load,
           Market!StoreHistory, Market!Reprice, Market!PersistPrices, Market!PassGates,
           Market!Validate, Market!Crash

LEMMA OnlyPublishMoves ==
    ASSUME MarketInv, Market!Next, valued' # valued
    PROVE  \E j \in Market!Job :
               /\ Market!Publish(j) /\ builder[j].pc = "publish" /\ valued' = builder[j].name
               /\ j = "sync" => SyncFits(builder[j])
               /\ j = "repair" => RepairFits(builder[j])
<1>1. PICK j \in Market!Job : Market!Publish(j)
    BY DEF Market!Next, Market!Close, Market!Load, Market!StoreHistory, Market!Reprice,
           Market!StageRow, Market!CreateDraft, Market!PersistPrices, Market!Diagnose,
           Market!PassGates, Market!Reject, Market!Validate, Market!CopyRows, Market!StepFails,
           Market!Crash, Market!Age, Market!CleanUp
<1>2. /\ builder[j].pc = "publish" /\ valued' = builder[j].name
      /\ j = "sync" => SyncFits(builder[j])
      /\ j = "repair" => RepairFits(builder[j])
    BY <1>1 DEF Market!Publish, Market!This, MarketInv, BuildersFit
<1> QED BY <1>1, <1>2

LEMMA RepairMoves ==
    ASSUME MarketValues, MarketInv, Market!Next, valued' # valued, valued'.repairs # << >>
    PROVE  LET last == valued'.repairs[Len(valued'.repairs)] IN
           /\ valued.day = valued'.day
           /\ \A s \in Security \ {last.security} : sheet'[valued'].rows[s] = sheet[valued].rows[s]
           /\ sheet'[valued'].rows[last.security] >= sheet[valued].rows[last.security]
<1>0. PICK v, n : v = valued /\ n = valued' OBVIOUS
<1>1. PICK j \in Market!Job :
          /\ Market!Publish(j) /\ builder[j].pc = "publish" /\ n = builder[j].name
          /\ j = "sync" => SyncFits(builder[j])
          /\ j = "repair" => RepairFits(builder[j])
    BY <1>0, OnlyPublishMoves
<1>2. RepairFits(builder[j])
    BY <1>0, <1>1 DEF SyncFits, Market!Job
<1>3. PICK r : r = Last(n) OBVIOUS
<1>4. /\ v # << >> /\ r \in Repair
      /\ n = [v EXCEPT !.repairs = Append(v.repairs, r)]
      /\ sheet[v].rows[r.security] <= r.close
      /\ n \in DOMAIN sheet
      /\ sheet[n].rows = [sheet[v].rows EXCEPT ![r.security] = r.close]
    BY <1>0, <1>1, <1>2, <1>3 DEF RepairFits, Drafting
<1>5. v \in SheetName /\ sheet[v] \in Sheet
    BY <1>0, <1>4 DEF MarketInv, MarketTyped, CurrentStands
<1>6. n.day = v.day BY <1>4, <1>5, RepairedName
<1>7. sheet'[n].rows = sheet[n].rows
    <2>1. sheet[n] \in Sheet BY <1>4 DEF MarketInv, MarketTyped
    <2>2. sheet'[n] = [sheet[n] EXCEPT !.status = "published"]
        BY <1>1, <1>4 DEF Market!Publish, Market!This
    <2> QED BY <2>1, <2>2 DEF Sheet
<1>8. /\ sheet[n].rows[r.security] = r.close /\ r.security \in Security
      /\ \A s \in Security \ {r.security} : sheet[n].rows[s] = sheet[v].rows[s]
    BY <1>4, <1>5 DEF Sheet, Repair
<1>9. r.close \in Int /\ sheet[v].rows[r.security] \in Int
    BY <1>4, <1>5, <1>8 DEF Sheet, Repair, MarketValues
<1>10. /\ v.day = n.day
       /\ \A s \in Security \ {r.security} : sheet'[n].rows[s] = sheet[v].rows[s]
       /\ sheet'[n].rows[r.security] >= sheet[v].rows[r.security]
    BY <1>4, <1>6, <1>7, <1>8, <1>9
<1> QED BY <1>0, <1>3, <1>10 DEF Last

LEMMA SyncMoves ==
    ASSUME MarketValues, MarketInv, Market!Next,
           valued' # valued, valued'.repairs = << >>, valued # << >>
    PROVE  Breadth(Root(valued)) <= Market!Cardinality(Market!Covered(valued')) + MaxDrop
<1>0. PICK n : n = valued' OBVIOUS
<1>1. PICK j \in Market!Job :
          /\ builder[j].pc = "publish" /\ n = builder[j].name
          /\ j = "sync" => SyncFits(builder[j])
          /\ j = "repair" => RepairFits(builder[j])
    BY <1>0, OnlyPublishMoves
<1>2. SyncFits(builder[j])
    <2>1. SUFFICES ASSUME RepairFits(builder[j]) PROVE FALSE BY <1>1 DEF Market!Job
    <2>2. /\ valued \in SheetName /\ Last(n) \in Repair
          /\ n = [valued EXCEPT !.repairs = Append(valued.repairs, Last(n))]
        BY <1>1, <2>1 DEF RepairFits, MarketInv, MarketTyped, CurrentStands
    <2> QED BY <1>0, <2>2, RepairedName
<1>3. Breadth(Root(valued)) <= Breadth(n) + MaxDrop BY <1>1, <1>2 DEF SyncFits
<1> QED BY <1>0, <1>3 DEF Breadth

\* The current batch is whole; what is published stays; a repair replaces what it was
\* made from; and coverage does not collapse, whatever failed in between.
LEMMA MarketPromise ==
    ASSUME MarketValues
    PROVE  Market!Spec =>
               /\ [](Market!TypeOK /\ Market!CurrentWhole)
               /\ Market!PublishedStays /\ Market!RepairsCurrent /\ Market!CoverageKept
<1>1. Market!Init => MarketInv BY MarketStarts
<1>2. MarketInv /\ [Market!Next]_Market!vars => MarketInv' BY MarketStep
<1>3. MarketInv => Market!TypeOK /\ Market!CurrentWhole BY MarketWhole
<1>4. MarketInv /\ [Market!Next]_Market!vars =>
        [\A n \in DOMAIN sheet : sheet[n].status = "published" =>
             IF n \in DOMAIN sheet'
             THEN sheet'[n].status = "published" /\ sheet'[n].rows = sheet[n].rows
             ELSE n.repairs # <<>> /\ n # valued']_Market!vars
    BY PublishedRemain
<1>5. MarketInv /\ [Market!Next]_Market!vars =>
        [valued' # valued /\ valued'.repairs # <<>> =>
            LET last == valued'.repairs[Len(valued'.repairs)] IN
            /\ valued.day = valued'.day
            /\ \A s \in Security \ {last.security} :
                  sheet'[valued'].rows[s] = sheet[valued].rows[s]
            /\ sheet'[valued'].rows[last.security] >= sheet[valued].rows[last.security]]_Market!vars
    BY RepairMoves
<1>6. MarketInv /\ [Market!Next]_Market!vars =>
        [valued' # valued /\ valued'.repairs = <<>> /\ valued # Market!NoBatch =>
            LET before == [valued EXCEPT !.repairs = <<>>] IN
            Market!Cardinality(Market!Covered(before)) <=
                Market!Cardinality(Market!Covered(valued')) + MaxDrop]_Market!vars
    BY SyncMoves DEF Breadth, Root, Market!NoBatch
<1> QED BY <1>1, <1>2, <1>3, <1>4, <1>5, <1>6, PTL
    DEF Market!Spec, Market!PublishedStays, Market!RepairsCurrent, Market!CoverageKept

-----------------------------------------------------------------------------
(* The daily advance of the universe.  A plan made again from its own      *)
(* records is the same plan, and the universe does not move between the    *)
(* plan and the pointer; so a draft of the same name, whichever attempt    *)
(* left it, holds for every row the clone or what the plan says, and       *)
(* nothing else.                                                           *)

ListingValues == Ticker \subseteq Int /\ IsFiniteSet(Ticker)

Record == [ticker : Ticker, cik : Issuer]
IdentityRow == [ticker : Ticker \cup {0}, current : BOOLEAN, facts : BOOLEAN]
IdentityTyped(x) == x \in IdentityRow /\ (x = Listings!NoIdentity \/ x.ticker \in Ticker)
Members == [listing : [Ticker -> Listings!Holder], identity : [Issuer -> IdentityRow]]
DraftBatch ==
    [name : SUBSET (Record \X SUBSET Issuer), exists : BOOLEAN, done : SUBSET Listings!ChunkKinds,
     listing : [Ticker -> Listings!Holder], identity : [Issuer -> IdentityRow]]
Advance ==
    [pc : {"idle", "draft", "clone", "publish"} \cup Listings!ChunkKinds,
     records : SUBSET Record, facts : SUBSET Issuer]

ListingTyped ==
    /\ directory \in [Ticker -> Listings!Holder]
    /\ members \in Members /\ draft \in DraftBatch /\ listings \in Advance
    /\ \A i \in Issuer : IdentityTyped(members.identity[i])
    /\ \A i \in Issuer : IdentityTyped(draft.identity[i])

Ciks(P) == {r.cik : r \in P}
Tickers(P) == {r.ticker : r \in P}
StagedBy(P, i) == Listings!Group(P, i) # {}

\* A plan for the universe as it is: one record per ticker, and nothing left over.
Plans(P) ==
    /\ P \subseteq Record
    /\ \A r, q \in P : r.ticker = q.ticker => r = q
    /\ Listings!Plan(P) = P

\* What the rows of a draft of plan P with the facts F may be.
Filled(P, F) ==
    /\ "facts" \in draft.done => "identities" \in draft.done
    /\ \A r \in P :
          draft.listing[r.ticker] =
              IF "listings" \in draft.done THEN r.cik ELSE Listings!Absent
    /\ \A t \in Ticker \ Tickers(P) : draft.listing[t] \in {Listings!Absent, members.listing[t]}
    /\ \A i \in Issuer : StagedBy(P, i) =>
          draft.identity[i] =
              IF "identities" \in draft.done
              THEN [Listings!Identity(P, i) EXCEPT !.facts = "facts" \in draft.done /\ i \in F]
              ELSE Listings!NoIdentity
    /\ \A i \in Issuer : ~StagedBy(P, i) =>
          draft.identity[i] \in {Listings!NoIdentity, members.identity[i]}

Cloned(P) ==
    /\ \A t \in Ticker \ Tickers(P) : draft.listing[t] = members.listing[t]
    /\ \A i \in Issuer : ~StagedBy(P, i) => draft.identity[i] = members.identity[i]

Belongs(P, F) ==
    P # {} /\ Plans(P) /\ F \subseteq Ciks(P) /\ draft.name = P \X {F} /\ Filled(P, F)

DraftBelongs == draft.exists => \E P, F : Belongs(P, F)

AdvanceFits(a) ==
    /\ a.pc # "idle" => Plans(a.records) /\ a.facts \subseteq Ciks(a.records)
    /\ a.pc \notin {"idle", "draft"} => draft.exists /\ Belongs(a.records, a.facts)
    /\ a.pc \in Listings!ChunkKinds \cup {"publish"} => Cloned(a.records)
    /\ a.pc \in {"identities", "facts", "publish"} => "listings" \in draft.done
    /\ a.pc \in {"facts", "publish"} => "identities" \in draft.done
    /\ a.pc = "publish" => "facts" \in draft.done

ListingInv == ListingTyped /\ DraftBelongs /\ AdvanceFits(listings)

-----------------------------------------------------------------------------
\* A finite set of numbers has a first one.
LEMMA FirstIsThere ==
    ASSUME NEW S, IsFiniteSet(S), S \subseteq Int, S # {}
    PROVE  Listings!First(S) \in S
<1> DEFINE Below(s) == {d \in S : d < s}
           T == {Below(s) : s \in S}
<1>1. T \subseteq FiniteSubsetsOf(S) /\ T # {}
    <2>1. \A s \in S : Below(s) \subseteq S /\ IsFiniteSet(Below(s)) BY FS_Subset
    <2> QED BY <2>1 DEF FiniteSubsetsOf
<1>2. PICK U \in T : \A V \in T : ~(<<V, U>> \in StrictSubsetOrdering(S))
    <2>1. IsWellFoundedOn(StrictSubsetOrdering(S), FiniteSubsetsOf(S))
        BY FS_StrictSubsetOrderingWellFounded
    <2> HIDE DEF T
    <2> QED BY <1>1, <2>1, WFMin
<1>3. PICK s \in S : U = Below(s) BY <1>2
<1>4. \A d \in S : s <= d
    <2> SUFFICES ASSUME NEW d \in S, d < s PROVE FALSE OBVIOUS
    <2>1. \A x \in S : x < d => x < s OBVIOUS
    <2>2. d \in Below(s) /\ d \notin Below(d) OBVIOUS
    <2>3. Below(d) \subseteq Below(s) BY <2>1
    <2>4. <<Below(d), Below(s)>> \in StrictSubsetOrdering(S) BY <2>2, <2>3 DEF StrictSubsetOrdering
    <2> QED BY <1>2, <1>3, <2>4
<1> HIDE DEF Below, T
<1>5. \E x \in S : \A y \in S : x <= y BY <1>4
<1> QED BY <1>5, Zenon DEF Listings!First

\* The share an issuer is known under is one of those listed for it.
LEMMA PrimaryListed ==
    ASSUME ListingValues, NEW P, NEW i, StagedBy(P, i), P \subseteq [ticker : Ticker, cik : Issuer \cup {0}]
    PROVE  /\ Listings!Identity(P, i) \in IdentityRow
           /\ Listings!Identity(P, i).ticker \in Ticker
           /\ \E r \in P : r.cik = i /\ r.ticker = Listings!Identity(P, i).ticker
           /\ Listings!Identity(P, i).current = Listings!MappedOnce(Listings!Group(P, i))
<1>1. PICK g : g = Listings!Group(P, i) OBVIOUS
<1>2. /\ g # {} /\ g \subseteq Ticker
      /\ \A t \in g : \E r \in P : r.cik = i /\ r.ticker = t
    BY <1>1 DEF StagedBy, Listings!Group
<1>3. Listings!Primary(g) \in g
    <2>1. IsFiniteSet(g) /\ g \subseteq Int BY <1>2, FS_Subset DEF ListingValues
    <2>2. Listings!First(g) \in g BY <1>2, <2>1, FirstIsThere
    <2>3. Listings!Cardinality(Listings!Common(g)) = 1 => Listings!First(Listings!Common(g)) \in g
        <3> HAVE Listings!Cardinality(Listings!Common(g)) = 1
        <3>1. PICK c : c = Listings!Common(g) OBVIOUS
        <3>2. Cardinality(c) = 1 BY <3>1, Zenon DEF Listings!Cardinality, Cardinality
        <3>3. c \subseteq g BY <3>1 DEF Listings!Common
        <3>4. c # {} BY <3>2, FS_EmptySet
        <3>5. IsFiniteSet(c) /\ c \subseteq Int BY <2>1, <3>3, FS_Subset
        <3>6. Listings!First(c) \in c BY <3>4, <3>5, FirstIsThere
        <3> QED BY <3>1, <3>3, <3>6
    <2> QED BY <2>2, <2>3 DEF Listings!Primary
<1>4. PICK p \in g : p = Listings!Primary(g) BY <1>3
<1>5. PICK m \in BOOLEAN : m = Listings!MappedOnce(g) BY DEF Listings!MappedOnce
<1>6. Listings!Identity(P, i) = [ticker |-> p, current |-> m, facts |-> FALSE]
    BY <1>1, <1>4, <1>5 DEF Listings!Identity
<1> QED BY <1>1, <1>2, <1>4, <1>5, <1>6 DEF IdentityRow

\* Of the directory's records the plan keeps some, and of these all.
LEMMA PlanAgain ==
    ASSUME NEW R, R \subseteq [ticker : Ticker, cik : Issuer \cup {0}],
           \A r, q \in R : r.ticker = q.ticker => r = q
    PROVE  Plans(Listings!Plan(R))
<1>1. PICK P : P = Listings!Plan(R) OBVIOUS
<1>2. P = Listings!New(R) \cup {r \in R : r.cik \in Listings!Repaired(R)}
    BY <1>1, Zenon DEF Listings!Plan
<1>3. /\ Listings!New(R) \subseteq R
      /\ \A r \in Listings!New(R) : r.cik # 0 /\ ~Listings!Known(r.cik) /\ r \in Listings!New(P)
    BY <1>2 DEF Listings!New, Listings!Nobody
<1>4. P \subseteq R BY <1>2, <1>3
<1>5. P \subseteq Record
    <2> SUFFICES ASSUME NEW r \in P PROVE r \in Record OBVIOUS
    <2>1. r \in [ticker : Ticker, cik : Issuer \cup {0}] BY <1>4
    <2>2. r.cik \in Issuer
        <3>1. CASE r \in Listings!New(R) BY <1>3, <2>1, <3>1
        <3>2. CASE r.cik \in Listings!Repaired(R) BY <3>2 DEF Listings!Repaired
        <3> QED BY <1>2, <3>1, <3>2
    <2> QED BY <2>1, <2>2 DEF Record
<1>6. \A i \in Listings!Repaired(R) : Listings!Group(P, i) = Listings!Group(R, i)
    BY <1>2, <1>4 DEF Listings!Group
<1>7. Listings!Repaired(R) \subseteq Listings!Repaired(P) BY <1>6 DEF Listings!Repaired
<1>8. P \subseteq Listings!Plan(P) BY <1>2, <1>3, <1>7 DEF Listings!Plan
<1>9. Listings!Plan(P) \subseteq P BY DEF Listings!Plan, Listings!New
<1>10. Listings!Plan(P) = P BY <1>8, <1>9
<1>11. \A r, q \in P : r.ticker = q.ticker => r = q BY <1>4
<1> QED BY <1>1, <1>5, <1>10, <1>11 DEF Plans

\* Who is staged is new, under tickers that nobody has, or repaired; the others are kept.
LEMMA WhoIsStaged ==
    ASSUME NEW P, Plans(P), NEW i \in Issuer
    PROVE  /\ i \in Listings!Repaired(P) =>
                 /\ StagedBy(P, i) /\ Listings!Known(i) /\ ~members.identity[i].current
                 /\ Listings!MappedOnce(Listings!Group(P, i))
           /\ StagedBy(P, i) /\ i \notin Listings!Repaired(P) =>
                 /\ ~Listings!Known(i)
                 /\ \A r \in P : r.cik = i => ~Listings!Taken(r.ticker)
<1>1. i \in Listings!Repaired(P) =>
        /\ StagedBy(P, i) /\ Listings!Known(i) /\ ~members.identity[i].current
        /\ Listings!MappedOnce(Listings!Group(P, i))
    BY DEF Listings!Repaired, StagedBy
<1>2. ASSUME StagedBy(P, i), i \notin Listings!Repaired(P)
      PROVE  /\ ~Listings!Known(i)
             /\ \A r \in P : r.cik = i => ~Listings!Taken(r.ticker)
    <2>1. \A r \in P : r.cik = i => r \in Listings!New(P)
        BY <1>2 DEF Plans, Listings!Plan
    <2>2. \E r \in P : r.cik = i BY <1>2 DEF StagedBy, Listings!Group
    <2> QED BY <2>1, <2>2 DEF Listings!New
<1> QED BY <1>1, <1>2

LEMMA StagedRecords ==
    ASSUME NEW P, P \subseteq Record, NEW i
    PROVE  /\ StagedBy(P, i) <=> i \in Ciks(P)
           /\ Ciks(P) \subseteq Issuer /\ Tickers(P) \subseteq Ticker
           /\ P \subseteq [ticker : Ticker, cik : Issuer \cup {0}]
BY DEF StagedBy, Listings!Group, Ciks, Tickers, Record

\* The name tells the plan and the facts.
LEMMA NameTells ==
    ASSUME NEW P, NEW F, NEW Q, NEW G, P # {}, P \X {F} = Q \X {G}
    PROVE  P = Q /\ F = G
<1>1. PICK p \in P : TRUE OBVIOUS
<1>2. <<p, F>> \in Q \X {G} OBVIOUS
<1>3. F = G BY <1>2
<1>4. \A x \in P : x \in Q
    <2> TAKE x \in P
    <2>1. <<x, F>> \in Q \X {G} OBVIOUS
    <2> QED BY <2>1
<1>5. \A x \in Q : x \in P
    <2> TAKE x \in Q
    <2>1. <<x, G>> \in P \X {F} OBVIOUS
    <2> QED BY <2>1
<1> QED BY <1>3, <1>4, <1>5

LEMMA EmptyDraft ==
    ASSUME ListingValues
    PROVE  /\ Listings!NoDraft \in DraftBatch /\ Listings!NoDraft.exists = FALSE
           /\ Listings!NoDraft.done = {}
           /\ \A t \in Ticker : Listings!NoDraft.listing[t] = Listings!Absent
           /\ \A i \in Issuer : Listings!NoDraft.identity[i] = Listings!NoIdentity
           /\ Listings!NoIdentity \in IdentityRow
           /\ Listings!Idle \in Advance /\ Listings!Idle.pc = "idle"
<1>1. Listings!NoIdentity \in IdentityRow BY DEF Listings!NoIdentity, IdentityRow
<1>2. PICK l : l = [t \in Ticker |-> Listings!Absent] OBVIOUS
<1>3. l \in [Ticker -> Listings!Holder] /\ \A t \in Ticker : l[t] = Listings!Absent
    BY <1>2 DEF Listings!Holder
<1>4. PICK k : k = [i \in Issuer |-> Listings!NoIdentity] OBVIOUS
<1>5. k \in [Issuer -> IdentityRow] /\ \A i \in Issuer : k[i] = Listings!NoIdentity BY <1>1, <1>4
<1>6. Listings!NoDraft = [name |-> {}, exists |-> FALSE, done |-> {}, listing |-> l, identity |-> k]
    BY <1>2, <1>4 DEF Listings!NoDraft
<1>7. Listings!NoDraft \in DraftBatch BY <1>3, <1>5, <1>6 DEF DraftBatch
<1>8. Listings!Idle \in Advance /\ Listings!Idle.pc = "idle" BY DEF Listings!Idle, Advance
<1> QED BY <1>1, <1>3, <1>5, <1>6, <1>7, <1>8

\* A full archive has the directory, and one identity for every issuer in it.
LEMMA FullTyped ==
    ASSUME ListingValues, NEW d \in [Ticker -> Listings!Holder], NEW F
    PROVE  /\ Listings!Full(d, F) \in Members
           /\ \A i \in Issuer : IdentityTyped(Listings!Full(d, F).identity[i])
<1>1. PICK R : R = Listings!Records(d) OBVIOUS
<1>2. R \subseteq [ticker : Ticker, cik : Issuer \cup {0}]
    BY <1>1 DEF Listings!Records, Listings!Nobody
<1>3. PICK k : k = [i \in Issuer |-> IF Listings!Group(R, i) = {} THEN Listings!NoIdentity
                                     ELSE [Listings!Identity(R, i) EXCEPT !.facts = i \in F]]
    OBVIOUS
<1>4. ASSUME NEW i \in Issuer PROVE IdentityTyped(k[i])
    <2>1. CASE Listings!Group(R, i) = {} BY <1>3, <2>1, EmptyDraft DEF IdentityTyped
    <2>2. CASE Listings!Group(R, i) # {}
        <3>1. PICK x \in IdentityRow : x = Listings!Identity(R, i) /\ x.ticker \in Ticker
            BY <1>2, <2>2, PrimaryListed DEF StagedBy
        <3>2. (i \in F) \in BOOLEAN OBVIOUS
        <3>3. \A f \in BOOLEAN : [x EXCEPT !.facts = f] \in IdentityRow
                               /\ [x EXCEPT !.facts = f].ticker \in Ticker
            BY <3>1 DEF IdentityRow
        <3>4. k[i] = [x EXCEPT !.facts = i \in F] BY <1>3, <2>2, <3>1
        <3> QED BY <3>2, <3>3, <3>4, Zenon DEF IdentityTyped
    <2> QED BY <2>1, <2>2
<1>5. k \in [Issuer -> IdentityRow] BY <1>3, <1>4 DEF IdentityTyped
<1>6. Listings!Full(d, F) = [listing |-> d, identity |-> k]
    BY <1>1, <1>3 DEF Listings!Full
<1> QED BY <1>4, <1>5, <1>6 DEF Members

LEMMA ListingsStart ==
    ASSUME ListingValues, Listings!Init
    PROVE  ListingInv
<1>1. /\ directory \in [Ticker -> Listings!Holder] /\ members = Listings!Full(directory, Issuer)
      /\ draft = Listings!NoDraft /\ listings = Listings!Idle
    BY DEF Listings!Init
<1>2. ListingTyped BY <1>1, FullTyped, EmptyDraft DEF ListingTyped, IdentityTyped
<1>3. DraftBelongs BY <1>1, EmptyDraft DEF DraftBelongs
<1>4. AdvanceFits(listings) BY <1>1, EmptyDraft DEF AdvanceFits, Listings!ChunkKinds
<1> QED BY <1>2, <1>3, <1>4 DEF ListingInv

\* A plan stays one as long as the universe stays.
LEMMA PlanStays ==
    ASSUME members' = members, NEW P
    PROVE  /\ Plans(P) <=> Plans(P)'
           /\ \A i : Listings!Known(i)' <=> Listings!Known(i)
           /\ Listings!Repaired(P)' = Listings!Repaired(P)
<1>1. \A i : Listings!Known(i)' <=> Listings!Known(i) BY DEF Listings!Known
<1>2. \A t : Listings!Taken(t)' <=> Listings!Taken(t)
    BY DEF Listings!Taken, Listings!Known
<1>3. Listings!New(P)' = Listings!New(P) BY <1>1, <1>2 DEF Listings!New
<1>4. Listings!Repaired(P)' = Listings!Repaired(P) BY <1>1 DEF Listings!Repaired
<1>5. Listings!Plan(P)' = Listings!Plan(P) BY <1>3, <1>4 DEF Listings!Plan
<1> QED BY <1>1, <1>4, <1>5 DEF Plans

LEMMA BelongingStays ==
    ASSUME UNCHANGED <<members, draft>>
    PROVE  /\ \A P, F : Belongs(P, F) => Belongs(P, F)'
           /\ DraftBelongs => DraftBelongs'
           /\ \A a : AdvanceFits(a) => AdvanceFits(a)'
<1>1. \A P : Plans(P) => Plans(P)' BY PlanStays
<1>2. \A P, F : Filled(P, F) => Filled(P, F)' BY DEF Filled
<1>3. \A P, F : Belongs(P, F) => Belongs(P, F)' BY <1>1, <1>2 DEF Belongs
<1>4. DraftBelongs => DraftBelongs' BY <1>3 DEF DraftBelongs
<1>5. \A P : Cloned(P) => Cloned(P)' BY DEF Cloned
<1>6. ASSUME NEW a, AdvanceFits(a) PROVE AdvanceFits(a)'
    BY <1>1, <1>3, <1>5, <1>6 DEF AdvanceFits
<1> QED BY <1>3, <1>4, <1>6

\* The directories, the calendar, the weekly archives and what fails.
LEMMA AroundAdvance ==
    ASSUME ListingValues, ListingInv,
           \/ \E t \in Ticker, h \in Listings!Holder : Listings!Relist(t, h)
           \/ Listings!Calibrate \/ Listings!NextDay \/ Listings!Stop
           \/ UNCHANGED Listings!vars
    PROVE  ListingInv'
<1> USE DEF ListingInv
<1>1. ASSUME NEW t \in Ticker, NEW h \in Listings!Holder, Listings!Relist(t, h) PROVE ListingInv'
    <2>1. /\ directory' = [directory EXCEPT ![t] = h] /\ UNCHANGED <<members, draft, listings>>
        BY <1>1 DEF Listings!Relist
    <2>2. ListingTyped' BY <2>1 DEF ListingTyped, IdentityTyped
    <2>3. PICK a : a = listings OBVIOUS
    <2>4. AdvanceFits(a)' /\ DraftBelongs' /\ listings' = a BY <2>1, <2>3, BelongingStays
    <2> QED BY <2>2, <2>4
<1>2. CASE Listings!Calibrate
    <2>1. /\ members' = Listings!Full(directory, Issuer) /\ draft' = Listings!NoDraft
          /\ UNCHANGED <<directory, listings>> /\ listings.pc = "idle"
        BY <1>2 DEF Listings!Calibrate
    <2>2. PICK u : u = Listings!Full(directory, Issuer) OBVIOUS
    <2>3. u \in Members /\ \A i \in Issuer : IdentityTyped(u.identity[i])
        BY <2>2, FullTyped DEF ListingTyped
    <2>4. ListingTyped' BY <2>1, <2>2, <2>3, EmptyDraft DEF ListingTyped, IdentityTyped
    <2>5. DraftBelongs' BY <2>1, EmptyDraft DEF DraftBelongs
    <2>6. AdvanceFits(listings)' BY <2>1 DEF AdvanceFits, Listings!ChunkKinds
    <2> QED BY <2>4, <2>5, <2>6
<1>3. CASE Listings!NextDay
    <2>1. /\ draft' = Listings!NoDraft /\ UNCHANGED <<directory, members, listings>>
          /\ listings.pc = "idle"
        BY <1>3 DEF Listings!NextDay
    <2>2. ListingTyped' BY <2>1, EmptyDraft DEF ListingTyped, IdentityTyped
    <2>3. DraftBelongs' BY <2>1, EmptyDraft DEF DraftBelongs
    <2>4. AdvanceFits(listings)' BY <2>1 DEF AdvanceFits, Listings!ChunkKinds
    <2> QED BY <2>2, <2>3, <2>4
<1>4. CASE Listings!Stop
    <2>1. listings' = Listings!Idle /\ UNCHANGED <<directory, members, draft>>
        BY <1>4 DEF Listings!Stop
    <2>2. ListingTyped' BY <2>1, EmptyDraft DEF ListingTyped, IdentityTyped
    <2>3. DraftBelongs' BY <2>1, BelongingStays
    <2>4. AdvanceFits(listings)' BY <2>1, EmptyDraft DEF AdvanceFits, Listings!ChunkKinds
    <2> QED BY <2>2, <2>3, <2>4
<1>5. CASE UNCHANGED Listings!vars
    <2>1. UNCHANGED <<directory, members, draft, listings>> BY <1>5 DEF Listings!vars
    <2>2. ListingTyped' BY <2>1 DEF ListingTyped, IdentityTyped
    <2>3. PICK a : a = listings OBVIOUS
    <2>4. AdvanceFits(a)' /\ DraftBelongs' /\ listings' = a BY <2>1, <2>3, BelongingStays
    <2> QED BY <2>2, <2>4
<1> QED BY <1>1, <1>2, <1>3, <1>4, <1>5

\* What is discovered is a plan for the universe.
LEMMA DiscoverStep ==
    ASSUME ListingValues, ListingInv, NEW fetched \in SUBSET Issuer, Listings!Discover(fetched)
    PROVE  ListingInv'
<1> USE DEF ListingInv
<1>1. PICK R, P : R = Listings!Records(directory) /\ P = Listings!Plan(R) OBVIOUS
<1>2. PICK a : a = [pc |-> "draft", records |-> P, facts |-> fetched] OBVIOUS
<1>3. /\ fetched \subseteq Ciks(P) /\ listings' = a
      /\ UNCHANGED <<directory, members, draft>>
    BY <1>1, <1>2 DEF Listings!Discover, Ciks
<1>4. R \subseteq [ticker : Ticker, cik : Issuer \cup {0}]
    BY <1>1 DEF Listings!Records, Listings!Nobody
<1>5. \A r, q \in R : r.ticker = q.ticker => r = q
    <2> SUFFICES ASSUME NEW r \in R, NEW q \in R, r.ticker = q.ticker PROVE r = q OBVIOUS
    <2>1. directory[r.ticker] = r.cik /\ directory[q.ticker] = q.cik
        BY <1>1 DEF Listings!Records
    <2>2. r \in [ticker : Ticker, cik : Issuer \cup {0}] /\ q \in [ticker : Ticker, cik : Issuer \cup {0}]
        BY <1>4
    <2> QED BY <2>1, <2>2
<1>6. Plans(P) BY <1>1, <1>4, <1>5, PlanAgain
<1>7. P \subseteq Record BY <1>6 DEF Plans
<1>8. a \in Advance BY <1>2, <1>7 DEF Advance
<1>9. ListingTyped' BY <1>3, <1>8 DEF ListingTyped, IdentityTyped
<1>10. DraftBelongs' BY <1>3, BelongingStays
<1>11. Plans(P)' BY <1>3, <1>6, PlanStays
<1>12. AdvanceFits(a)' BY <1>2, <1>3, <1>11 DEF AdvanceFits, Listings!ChunkKinds
<1> QED BY <1>3, <1>9, <1>10, <1>12

\* An empty draft holds for any plan; and one of the same name for this one.
LEMMA CreateStep ==
    ASSUME ListingValues, ListingInv, Listings!CreateDraft
    PROVE  ListingInv'
<1> USE DEF ListingInv
<1>1. PICK a : a = listings OBVIOUS
<1>2. PICK P, F : P = a.records /\ F = a.facts OBVIOUS
<1>3. /\ a \in Advance /\ a.pc = "draft" /\ Plans(P) /\ F \subseteq Ciks(P)
      /\ UNCHANGED <<directory, members>>
    BY <1>1, <1>2 DEF Listings!CreateDraft, ListingTyped, AdvanceFits
<1>4. Listings!Planned = P BY <1>1, <1>2, <1>3 DEF Listings!Planned, Plans
<1>5. CASE P = {}
    <2>1. listings' = Listings!Idle /\ draft' = draft BY <1>4, <1>5 DEF Listings!CreateDraft
    <2>2. ListingTyped' BY <1>3, <2>1, EmptyDraft DEF ListingTyped, IdentityTyped
    <2>3. DraftBelongs' BY <1>3, <2>1, BelongingStays
    <2>4. AdvanceFits(listings)' BY <2>1, EmptyDraft DEF AdvanceFits, Listings!ChunkKinds
    <2> QED BY <2>2, <2>3, <2>4
<1>6. CASE P # {}
    <2>1. PICK n : n = P \X {F} OBVIOUS
    <2>2. PICK c : c = [a EXCEPT !.pc = "clone"] OBVIOUS
    <2>3. Listings!Name = n BY <1>1, <1>2, <1>4, <2>1 DEF Listings!Name
    <2>4. /\ listings' = c
          /\ draft' = IF draft.exists /\ draft.name = n THEN draft
                      ELSE [Listings!NoDraft EXCEPT !.name = n, !.exists = TRUE]
        BY <1>1, <1>4, <1>6, <2>2, <2>3 DEF Listings!CreateDraft
    <2>5. c \in Advance /\ c.pc = "clone" /\ c.records = P /\ c.facts = F
        BY <1>2, <1>3, <2>2 DEF Advance
    <2>6. draft' \in DraftBatch /\ draft'.exists /\ Belongs(P, F)'
          /\ \A i \in Issuer : IdentityTyped(draft'.identity[i])
        <3>1. CASE draft.exists /\ draft.name = n
            <4>1. draft' = draft BY <2>4, <3>1
            <4>2. PICK Q, G : Belongs(Q, G) BY <3>1 DEF DraftBelongs
            <4>3. Q # {} /\ Q \X {G} = P \X {F} BY <2>1, <3>1, <4>2 DEF Belongs
            <4>4. Q = P /\ G = F BY <4>3, NameTells
            <4>5. Belongs(P, F)' BY <1>3, <4>1, <4>2, <4>4, BelongingStays
            <4> QED BY <3>1, <4>1, <4>5 DEF ListingTyped
        <3>2. CASE ~(draft.exists /\ draft.name = n)
            <4>1. PICK e \in DraftBatch : e = Listings!NoDraft BY EmptyDraft
            <4>2. draft' = [e EXCEPT !.name = n, !.exists = TRUE] BY <2>4, <3>2, <4>1
            <4>3. n \in SUBSET (Record \X SUBSET Issuer)
                <5>1. P \subseteq Record /\ F \subseteq Issuer
                    BY <1>2, <1>3 DEF Plans, Advance
                <5> QED BY <2>1, <5>1
            <4>4. /\ draft' \in DraftBatch /\ draft'.exists /\ draft'.name = n
                  /\ draft'.done = e.done /\ draft'.listing = e.listing
                  /\ draft'.identity = e.identity
                BY <4>1, <4>2, <4>3 DEF DraftBatch
            <4>5. /\ draft'.done = {} /\ \A t \in Ticker : draft'.listing[t] = Listings!Absent
                  /\ \A i \in Issuer : draft'.identity[i] = Listings!NoIdentity
                BY <4>1, <4>4, EmptyDraft
            <4>6. \A r \in P : r.ticker \in Ticker BY <1>3 DEF Plans, Record
            <4>7. Filled(P, F)' BY <4>5, <4>6 DEF Filled
            <4>8. Plans(P)' BY <1>3, PlanStays
            <4>9. Belongs(P, F)' BY <1>3, <1>6, <2>1, <4>4, <4>7, <4>8 DEF Belongs
            <4>10. \A i \in Issuer : IdentityTyped(draft'.identity[i])
                BY <4>5, EmptyDraft DEF IdentityTyped
            <4> QED BY <4>4, <4>9, <4>10
        <3> QED BY <3>1, <3>2
    <2>7. ListingTyped' BY <1>3, <2>4, <2>5, <2>6 DEF ListingTyped, IdentityTyped
    <2>8. DraftBelongs' BY <2>6 DEF DraftBelongs
    <2>9. Plans(P)' BY <1>3, PlanStays
    <2>10. AdvanceFits(c)' BY <1>3, <2>5, <2>6, <2>9 DEF AdvanceFits, Listings!ChunkKinds
    <2> QED BY <2>4, <2>7, <2>8, <2>10
<1> QED BY <1>5, <1>6

LEMMA FactsMarked ==
    ASSUME ListingValues, NEW P, P \subseteq Record, NEW i, StagedBy(P, i), NEW f \in BOOLEAN
    PROVE  /\ IdentityTyped([Listings!Identity(P, i) EXCEPT !.facts = f])
           /\ [Listings!Identity(P, i) EXCEPT !.facts = f].ticker = Listings!Identity(P, i).ticker
           /\ [Listings!Identity(P, i) EXCEPT !.facts = f].current = Listings!Identity(P, i).current
           /\ [Listings!Identity(P, i) EXCEPT !.facts = FALSE] = Listings!Identity(P, i)
           /\ [[Listings!Identity(P, i) EXCEPT !.facts = f] EXCEPT !.facts = TRUE]
                = [Listings!Identity(P, i) EXCEPT !.facts = TRUE]
<1>1. PICK x \in IdentityRow : x = Listings!Identity(P, i) /\ x.ticker \in Ticker
    BY PrimaryListed, StagedRecords
<1>2. x.facts = FALSE BY <1>1 DEF Listings!Identity
<1>3. PICK y : y = [x EXCEPT !.facts = f] OBVIOUS
<1>4. y \in IdentityRow /\ y.ticker = x.ticker /\ y.current = x.current BY <1>3 DEF IdentityRow
<1>5. [x EXCEPT !.facts = FALSE] = x BY <1>2 DEF IdentityRow
<1>6. [y EXCEPT !.facts = TRUE] = [x EXCEPT !.facts = TRUE] BY <1>3 DEF IdentityRow
<1>7. IdentityTyped(y) BY <1>1, <1>4 DEF IdentityTyped
<1> QED BY <1>1, <1>3, <1>4, <1>5, <1>6, <1>7

\* An attempt that is past its draft works on the plan it has.
LEMMA AtWork ==
    ASSUME ListingValues, ListingInv, NEW a, a = listings, a.pc \notin {"idle", "draft"}
    PROVE  /\ a \in Advance /\ draft \in DraftBatch /\ draft.exists
           /\ Belongs(a.records, a.facts) /\ a.records \subseteq Record
           /\ Listings!Planned = a.records /\ Listings!Replaced = Tickers(a.records)
           /\ \A i : Listings!Staged(i) <=> StagedBy(a.records, i)
           /\ AdvanceFits(a)
<1>1. /\ a \in Advance /\ draft \in DraftBatch /\ draft.exists
      /\ Belongs(a.records, a.facts) /\ AdvanceFits(a)
    BY DEF ListingInv, ListingTyped, AdvanceFits
<1>2. Plans(a.records) BY <1>1 DEF Belongs
<1>3. Listings!Planned = a.records BY <1>2 DEF Plans, Listings!Planned
<1>4. Listings!Replaced = Tickers(a.records) BY <1>3 DEF Listings!Replaced, Tickers
<1>5. \A i : Listings!Staged(i) <=> StagedBy(a.records, i)
    BY <1>3 DEF Listings!Staged, StagedBy
<1> QED BY <1>1, <1>2, <1>3, <1>4, <1>5 DEF Plans

\* The clone fills in what the plan does not touch.
LEMMA CloneStep ==
    ASSUME ListingValues, ListingInv, Listings!Clone
    PROVE  ListingInv'
<1>1. PICK a : a = listings OBVIOUS
<1>2. PICK P, F : P = a.records /\ F = a.facts OBVIOUS
<1>3. a.pc = "clone" /\ UNCHANGED <<directory, members>>
      /\ listings' = [a EXCEPT !.pc = "listings"]
    BY <1>1 DEF Listings!Clone
<1>4. /\ a \in Advance /\ draft \in DraftBatch /\ draft.exists
      /\ Belongs(P, F) /\ P \subseteq Record
      /\ Listings!Replaced = Tickers(P)
    BY <1>1, <1>2, <1>3, AtWork
<1>5. PICK c : c = [a EXCEPT !.pc = "listings"] OBVIOUS
<1>6. c \in Advance /\ c.pc = "listings" /\ c.records = P /\ c.facts = F
    BY <1>2, <1>4, <1>5 DEF Advance, Listings!ChunkKinds
<1>7. PICK l : l = [t \in Ticker |->
            IF draft.listing[t] = Listings!Absent /\ t \notin Tickers(P) THEN members.listing[t]
            ELSE draft.listing[t]]
    OBVIOUS
<1>8. PICK k : k = [i \in Issuer |->
            IF draft.identity[i] = Listings!NoIdentity /\ i \in Issuer \ Listings!Repaired(P)
            THEN members.identity[i] ELSE draft.identity[i]]
    OBVIOUS
<1>9. draft' = [draft EXCEPT !.listing = l, !.identity = k]
    BY <1>1, <1>2, <1>4, <1>7, <1>8 DEF Listings!Clone, Listings!Kept
<1>10. /\ members \in Members /\ \A i \in Issuer : IdentityTyped(members.identity[i])
       /\ \A i \in Issuer : IdentityTyped(draft.identity[i])
       /\ Plans(P) /\ Filled(P, F)
    BY <1>4 DEF ListingInv, ListingTyped, Belongs
<1>11. l \in [Ticker -> Listings!Holder] /\ k \in [Issuer -> IdentityRow]
    BY <1>4, <1>7, <1>8, <1>10 DEF Members, DraftBatch
<1>12. /\ draft' \in DraftBatch /\ draft'.exists /\ draft'.name = draft.name
       /\ draft'.done = draft.done /\ draft'.listing = l /\ draft'.identity = k
    BY <1>4, <1>9, <1>11 DEF DraftBatch
<1>13. /\ \A r \in P : l[r.ticker] = draft.listing[r.ticker]
       /\ \A t \in Ticker \ Tickers(P) : l[t] = members.listing[t]
    BY <1>4, <1>7, <1>10 DEF Filled, Tickers, Record
<1>14. \A i \in Issuer : StagedBy(P, i) => k[i] = draft.identity[i]
    <2> SUFFICES ASSUME NEW i \in Issuer, StagedBy(P, i) PROVE k[i] = draft.identity[i] OBVIOUS
    <2>1. CASE i \in Listings!Repaired(P) BY <1>8, <2>1
    <2>2. CASE i \notin Listings!Repaired(P)
        <3>1. members.identity[i] = Listings!NoIdentity
            BY <1>10, <2>2, WhoIsStaged DEF Listings!Known
        <3> QED BY <1>8, <3>1
    <2> QED BY <2>1, <2>2
<1>15. \A i \in Issuer : ~StagedBy(P, i) => k[i] = members.identity[i]
    <2> SUFFICES ASSUME NEW i \in Issuer, ~StagedBy(P, i) PROVE k[i] = members.identity[i] OBVIOUS
    <2>1. i \notin Listings!Repaired(P) BY <1>10, WhoIsStaged
    <2> QED BY <1>8, <1>10, <2>1 DEF Filled
<1>16. Filled(P, F)'
    BY <1>3, <1>10, <1>12, <1>13, <1>14, <1>15 DEF Filled
<1>17. Cloned(P)' BY <1>3, <1>12, <1>13, <1>15 DEF Cloned
<1>18. Plans(P)' BY <1>3, <1>10, PlanStays
<1>19. Belongs(P, F)' BY <1>4, <1>12, <1>16, <1>18 DEF Belongs
<1>20. \A i \in Issuer : IdentityTyped(k[i]) BY <1>8, <1>10
<1>21. listings' = c BY <1>3, <1>5
<1>22. ListingTyped' BY <1>3, <1>6, <1>12, <1>20, <1>21 DEF ListingInv, ListingTyped, IdentityTyped
<1>23. DraftBelongs' BY <1>19 DEF DraftBelongs
<1>24. AdvanceFits(c)'
    BY <1>6, <1>12, <1>17, <1>18, <1>19 DEF AdvanceFits, Listings!ChunkKinds, Belongs
<1> QED BY <1>21, <1>22, <1>23, <1>24 DEF ListingInv

\* The rows of a chunk, as an operation on listing and identity.
LEMMA ChunkRows ==
    ASSUME ListingValues, NEW chunk \in Listings!ChunkKinds, NEW P, NEW F, P \subseteq Record,
           \A r, q \in P : r.ticker = q.ticker => r = q,
           F \subseteq Ciks(P), Filled(P, F), Cloned(P),
           draft \in DraftBatch, \A i \in Issuer : IdentityTyped(draft.identity[i]),
           chunk = "facts" => "identities" \in draft.done,
           Listings!Planned = P, Listings!Replaced = Tickers(P), listings.facts = F,
           draft' = Listings!Rows(chunk), members' = members
    PROVE  /\ draft' \in DraftBatch /\ draft'.name = draft.name /\ draft'.exists = draft.exists
           /\ draft'.done = draft.done \cup {chunk}
           /\ \A i \in Issuer : IdentityTyped(draft'.identity[i])
           /\ Filled(P, F)' /\ Cloned(P)'
<1>1. CASE chunk \in draft.done
    <2>1. draft' = draft BY <1>1 DEF Listings!Rows
    <2>2. draft.done = draft.done \cup {chunk} BY <1>1
    <2> QED BY <2>1, <2>2 DEF Filled, Cloned
<1>2. CASE chunk \notin draft.done
    <2>1. PICK l : l = [t \in Ticker |->
            IF chunk = "listings" /\ draft.listing[t] = Listings!Absent /\ t \in Tickers(P)
            THEN (CHOOSE r \in P : r.ticker = t).cik ELSE draft.listing[t]]
        OBVIOUS
    <2>2. PICK k : k = [i \in Issuer |->
            IF chunk = "identities" /\ draft.identity[i] = Listings!NoIdentity /\ StagedBy(P, i)
            THEN Listings!Identity(P, i)
            ELSE IF chunk = "facts" /\ i \in F THEN [draft.identity[i] EXCEPT !.facts = TRUE]
            ELSE draft.identity[i]]
        OBVIOUS
    <2>3. draft' = [draft EXCEPT !.done = draft.done \cup {chunk}, !.listing = l, !.identity = k]
        BY <1>2, <2>1, <2>2 DEF Listings!Rows, Listings!Staged, StagedBy
    <2>4. \A r \in P : r.ticker \in Ticker /\ (CHOOSE q \in P : q.ticker = r.ticker) = r
        BY DEF Record
    <2>5. \A r \in P : l[r.ticker] = IF "listings" \in draft.done \cup {chunk} THEN r.cik
                                     ELSE Listings!Absent
        <3> SUFFICES ASSUME NEW r \in P
                     PROVE  l[r.ticker] = IF "listings" \in draft.done \cup {chunk} THEN r.cik
                                          ELSE Listings!Absent
            OBVIOUS
        <3>1. PICK t \in Ticker : t = r.ticker BY <2>4
        <3>2. t \in Tickers(P) /\ (CHOOSE q \in P : q.ticker = t) = r
            BY <2>4, <3>1 DEF Tickers
        <3>3. draft.listing[t] = IF "listings" \in draft.done THEN r.cik ELSE Listings!Absent
            BY <3>1 DEF Filled
        <3>4. CASE chunk = "listings"
            <4>1. draft.listing[t] = Listings!Absent BY <1>2, <3>3, <3>4
            <4> QED BY <2>1, <3>1, <3>2, <3>4, <4>1
        <3>5. CASE chunk # "listings" BY <2>1, <3>1, <3>3, <3>5
        <3> QED BY <3>4, <3>5
    <2>6. \A t \in Ticker \ Tickers(P) : l[t] = draft.listing[t] BY <2>1
    <2>7. l \in [Ticker -> Listings!Holder]
        <3>1. ASSUME NEW t \in Ticker PROVE l[t] \in Listings!Holder
            <4>1. CASE t \in Tickers(P)
                <5>1. PICK r \in P : t = r.ticker BY <4>1 DEF Tickers
                <5>2. r.cik \in Listings!Holder /\ Listings!Absent \in Listings!Holder
                    BY DEF Record, Listings!Holder
                <5> QED BY <2>5, <5>1, <5>2
            <4>2. CASE t \notin Tickers(P) BY <2>6, <4>2 DEF DraftBatch
            <4> QED BY <4>1, <4>2
        <3> QED BY <2>1, <3>1
    <2>8. \A i \in Issuer : ~StagedBy(P, i) => k[i] = draft.identity[i]
        <3>1. \A i \in F : StagedBy(P, i) BY StagedRecords
        <3> QED BY <2>2, <3>1
    <2>9. \A i \in Issuer : StagedBy(P, i) =>
            k[i] = IF "identities" \in draft.done \cup {chunk}
                   THEN [Listings!Identity(P, i) EXCEPT
                            !.facts = "facts" \in draft.done \cup {chunk} /\ i \in F]
                   ELSE Listings!NoIdentity
        <3> SUFFICES ASSUME NEW i \in Issuer, StagedBy(P, i)
                     PROVE  k[i] = IF "identities" \in draft.done \cup {chunk}
                              THEN [Listings!Identity(P, i) EXCEPT
                                       !.facts = "facts" \in draft.done \cup {chunk} /\ i \in F]
                              ELSE Listings!NoIdentity
            OBVIOUS
        <3>0. PICK x : x = Listings!Identity(P, i) OBVIOUS
        <3>1. /\ [x EXCEPT !.facts = FALSE] = x
              /\ \A f \in BOOLEAN : [[x EXCEPT !.facts = f] EXCEPT !.facts = TRUE]
                                        = [x EXCEPT !.facts = TRUE]
            BY <3>0, FactsMarked
        <3>2. draft.identity[i] = IF "identities" \in draft.done
                                  THEN [x EXCEPT !.facts = "facts" \in draft.done /\ i \in F]
                                  ELSE Listings!NoIdentity
            BY <3>0 DEF Filled
        <3>3. CASE chunk = "identities"
            <4>1. "facts" \notin draft.done /\ draft.identity[i] = Listings!NoIdentity
                BY <1>2, <3>2, <3>3 DEF Filled
            <4>2. k[i] = x BY <2>2, <3>0, <3>3, <4>1
            <4>3. "facts" \notin draft.done \cup {chunk} BY <3>3, <4>1
            <4> QED BY <3>0, <3>1, <3>3, <4>2, <4>3
        <3>4. CASE chunk = "facts"
            <4>1. "identities" \in draft.done /\ "facts" \notin draft.done BY <1>2, <3>4
            <4>2. draft.identity[i] = [x EXCEPT !.facts = FALSE] BY <3>2, <4>1
            <4>3. CASE i \in F
                <5>1. k[i] = [draft.identity[i] EXCEPT !.facts = TRUE] BY <2>2, <3>4, <4>3
                <5>2. k[i] = [x EXCEPT !.facts = TRUE] BY <3>1, <4>2, <5>1
                <5> QED BY <3>0, <3>4, <4>1, <4>3, <5>2
            <4>4. CASE i \notin F
                <5>1. k[i] = [x EXCEPT !.facts = FALSE] BY <2>2, <3>4, <4>2, <4>4
                <5> QED BY <3>0, <3>4, <4>1, <4>4, <5>1
            <4> QED BY <4>3, <4>4
        <3>5. CASE chunk = "listings"
            <4>1. k[i] = draft.identity[i] BY <2>2, <3>5
            <4> QED BY <3>0, <3>2, <3>5, <4>1
        <3> QED BY <3>3, <3>4, <3>5 DEF Listings!ChunkKinds
    <2>10. \A i \in Issuer : IdentityTyped(k[i])
        <3> SUFFICES ASSUME NEW i \in Issuer PROVE IdentityTyped(k[i]) OBVIOUS
        <3>1. CASE ~StagedBy(P, i) BY <2>8, <3>1
        <3>2. CASE StagedBy(P, i)
            <4>0. ("facts" \in draft.done \cup {chunk} /\ i \in F) \in BOOLEAN OBVIOUS
            <4>1. \A f \in BOOLEAN : IdentityTyped([Listings!Identity(P, i) EXCEPT !.facts = f])
                BY <3>2, FactsMarked
            <4>2. IdentityTyped([Listings!Identity(P, i) EXCEPT
                                    !.facts = "facts" \in draft.done \cup {chunk} /\ i \in F])
                BY <4>0, <4>1, Zenon
            <4> QED BY <2>9, <3>2, <4>2, EmptyDraft DEF IdentityTyped
        <3> QED BY <3>1, <3>2
    <2>11. k \in [Issuer -> IdentityRow] BY <2>2, <2>10 DEF IdentityTyped
    <2>12. /\ draft' \in DraftBatch /\ draft'.name = draft.name /\ draft'.exists = draft.exists
           /\ draft'.done = draft.done \cup {chunk} /\ draft'.listing = l /\ draft'.identity = k
        BY <2>3, <2>7, <2>11 DEF DraftBatch
    <2>13. "facts" \in draft'.done => "identities" \in draft'.done
        BY <2>12 DEF Filled, Listings!ChunkKinds
    <2>14. Filled(P, F)' BY <2>5, <2>6, <2>8, <2>9, <2>12, <2>13 DEF Filled
    <2>15. Cloned(P)' BY <2>6, <2>8, <2>12 DEF Cloned
    <2> QED BY <2>10, <2>12, <2>14, <2>15
<1> QED BY <1>1, <1>2

LEMMA StageStep ==
    ASSUME ListingValues, ListingInv, NEW chunk \in Listings!ChunkKinds, Listings!Stage(chunk)
    PROVE  ListingInv'
<1>1. PICK a : a = listings OBVIOUS
<1>2. PICK P, F : P = a.records /\ F = a.facts OBVIOUS
<1>3. a.pc = chunk /\ UNCHANGED <<directory, members>> /\ draft' = Listings!Rows(chunk)
      /\ listings' = [a EXCEPT !.pc = Listings!After(chunk)]
    BY <1>1 DEF Listings!Stage
<1>4. a.pc \notin {"idle", "draft"} BY <1>3 DEF Listings!ChunkKinds
<1>5. /\ a \in Advance /\ draft \in DraftBatch /\ draft.exists
      /\ Belongs(P, F) /\ P \subseteq Record /\ AdvanceFits(a)
      /\ Listings!Planned = P /\ Listings!Replaced = Tickers(P)
    BY <1>1, <1>2, <1>4, AtWork
<1>6. /\ Cloned(P)
      /\ chunk = "facts" => "identities" \in draft.done
      /\ chunk \in {"identities", "facts"} => "listings" \in draft.done
    BY <1>2, <1>3, <1>5 DEF AdvanceFits
<1>7. /\ draft' \in DraftBatch /\ draft'.name = draft.name /\ draft'.exists = draft.exists
      /\ draft'.done = draft.done \cup {chunk}
      /\ \A i \in Issuer : IdentityTyped(draft'.identity[i])
      /\ Filled(P, F)' /\ Cloned(P)'
    <2>1. Filled(P, F) /\ F \subseteq Ciks(P) /\ \A r, q \in P : r.ticker = q.ticker => r = q
        BY <1>5 DEF Belongs, Plans
    <2>2. \A i \in Issuer : IdentityTyped(draft.identity[i]) BY DEF ListingInv, ListingTyped
    <2>3. listings.facts = F BY <1>1, <1>2
    <2> QED BY <1>3, <1>5, <1>6, <2>1, <2>2, <2>3, ChunkRows
<1>8. PICK pc : pc = Listings!After(chunk) OBVIOUS
<1>9. /\ pc \in {"identities", "facts", "publish"}
      /\ pc = "identities" => chunk = "listings"
      /\ pc = "facts" => chunk = "identities"
      /\ pc = "publish" => chunk = "facts"
    BY <1>8 DEF Listings!After, Listings!ChunkKinds
<1>10. PICK c : c = [a EXCEPT !.pc = pc] OBVIOUS
<1>11. c \in Advance /\ c.pc = pc /\ c.records = P /\ c.facts = F
    BY <1>2, <1>5, <1>9, <1>10 DEF Advance, Listings!ChunkKinds
<1>12. listings' = c BY <1>3, <1>8, <1>10
<1>13. Plans(P)' BY <1>3, <1>5, PlanStays DEF Belongs
<1>14. Belongs(P, F)' BY <1>5, <1>7, <1>13 DEF Belongs
<1>15. ListingTyped'
    BY <1>3, <1>7, <1>11, <1>12 DEF ListingInv, ListingTyped, IdentityTyped
<1>16. DraftBelongs' BY <1>14 DEF DraftBelongs
<1>17. AdvanceFits(c)'
    BY <1>5, <1>6, <1>7, <1>9, <1>11, <1>13, <1>14 DEF AdvanceFits, Belongs
<1> QED BY <1>12, <1>15, <1>16, <1>17 DEF ListingInv

LEMMA AdvancePublishes ==
    ASSUME ListingValues, ListingInv, Listings!Publish
    PROVE  ListingInv'
<1>1. /\ members' = [listing |-> draft.listing, identity |-> draft.identity]
      /\ draft' = Listings!NoDraft /\ listings' = Listings!Idle /\ directory' = directory
    BY DEF Listings!Publish
<1>2. draft \in DraftBatch /\ \A i \in Issuer : IdentityTyped(draft.identity[i])
    BY DEF ListingInv, ListingTyped
<1>3. ListingTyped' BY <1>1, <1>2, EmptyDraft DEF ListingInv, ListingTyped, IdentityTyped,
                                                  Members, DraftBatch
<1>4. DraftBelongs' BY <1>1, EmptyDraft DEF DraftBelongs
<1>5. AdvanceFits(listings)' BY <1>1, EmptyDraft DEF AdvanceFits, Listings!ChunkKinds
<1> QED BY <1>3, <1>4, <1>5 DEF ListingInv

LEMMA ListingStep ==
    ASSUME ListingValues, ListingInv, [Listings!Next]_Listings!vars
    PROVE  ListingInv'
BY AroundAdvance, DiscoverStep, CreateStep, CloneStep, StageStep, AdvancePublishes
   DEF Listings!Next

LEMMA ListingTypes ==
    ASSUME ListingInv
    PROVE  Listings!TypeOK
BY DEF ListingInv, ListingTyped, IdentityTyped, Members, DraftBatch, Advance, Listings!TypeOK

\* What an advance makes of an issuer.
LEMMA IssuerCarried ==
    ASSUME ListingValues, ListingInv, Listings!Next, Listings!Advances, NEW i \in Issuer
    PROVE  LET old == members.identity[i] new == members'.identity[i] IN
           /\ old # Listings!NoIdentity /\ old.current => new = old
           /\ old = Listings!NoIdentity /\ new # Listings!NoIdentity =>
                ~Listings!Taken(new.ticker) /\ members'.listing[new.ticker] = i
           /\ old # Listings!NoIdentity /\ new # old =>
                new.current /\ members'.listing[new.ticker] = i
           /\ Listings!Staged(i) =>
                new = [Listings!Identity(Listings!Planned, i) EXCEPT !.facts = i \in listings.facts]
<1>1. Listings!Publish
    BY DEF Listings!Next, Listings!Advances, Listings!Relist, Listings!Calibrate, Listings!NextDay,
           Listings!Discover, Listings!CreateDraft, Listings!Clone, Listings!Stop, Listings!Stage
<1>2. PICK a : a = listings OBVIOUS
<1>3. PICK P, F : P = a.records /\ F = a.facts OBVIOUS
<1>4. PICK old, new : old = members.identity[i] /\ new = draft.identity[i] OBVIOUS
<1>5. a.pc = "publish" /\ members'.identity[i] = new /\ members'.listing = draft.listing
    BY <1>1, <1>2, <1>4 DEF Listings!Publish
<1>6. /\ Belongs(P, F) /\ P \subseteq Record /\ AdvanceFits(a) /\ draft \in DraftBatch
      /\ Listings!Planned = P /\ (Listings!Staged(i) <=> StagedBy(P, i))
    BY <1>2, <1>3, <1>5, AtWork
<1>7. /\ Cloned(P) /\ Filled(P, F) /\ Plans(P)
      /\ {"listings", "identities", "facts"} \subseteq draft.done
    BY <1>3, <1>5, <1>6 DEF AdvanceFits, Belongs
<1>8. ~StagedBy(P, i) => new = old BY <1>4, <1>7 DEF Cloned
<1>9. ASSUME StagedBy(P, i)
      PROVE  /\ new = [Listings!Identity(P, i) EXCEPT !.facts = i \in F]
             /\ new.current = Listings!MappedOnce(Listings!Group(P, i))
             /\ \E r \in P : r.cik = i /\ r.ticker = new.ticker /\ draft.listing[new.ticker] = i
    <2>0. PICK x \in IdentityRow :
              /\ x = Listings!Identity(P, i)
              /\ \E r \in P : r.cik = i /\ r.ticker = x.ticker
              /\ x.current = Listings!MappedOnce(Listings!Group(P, i))
        BY <1>6, <1>9, PrimaryListed, StagedRecords
    <2>1. new = [x EXCEPT !.facts = "facts" \in draft.done /\ i \in F]
        BY <1>4, <1>7, <1>9, <2>0 DEF Filled
    <2>2. new = [x EXCEPT !.facts = i \in F] BY <1>7, <2>1
    <2>3. new.ticker = x.ticker /\ new.current = x.current BY <2>2 DEF IdentityRow
    <2>4. PICK r \in P : r.cik = i /\ r.ticker = new.ticker BY <2>0, <2>3
    <2>5. draft.listing[r.ticker] = r.cik BY <1>7 DEF Filled
    <2> QED BY <2>0, <2>2, <2>3, <2>4, <2>5
<1>10. /\ i \in Listings!Repaired(P) => Listings!MappedOnce(Listings!Group(P, i)) /\ ~old.current
       /\ StagedBy(P, i) /\ i \notin Listings!Repaired(P) =>
             /\ old = Listings!NoIdentity
             /\ \A r \in P : r.cik = i => ~Listings!Taken(r.ticker)
       /\ i \in Listings!Repaired(P) => old # Listings!NoIdentity
    BY <1>4, <1>7, WhoIsStaged DEF Listings!Known
<1>11. old # Listings!NoIdentity /\ old.current => new = old BY <1>8, <1>10
<1>12. old = Listings!NoIdentity /\ new # Listings!NoIdentity =>
         ~Listings!Taken(new.ticker) /\ draft.listing[new.ticker] = i
    BY <1>8, <1>9, <1>10
<1>13. old # Listings!NoIdentity /\ new # old =>
         new.current /\ draft.listing[new.ticker] = i
    BY <1>8, <1>9, <1>10
<1>14. StagedBy(P, i) => new = [Listings!Identity(P, i) EXCEPT !.facts = i \in F]
    BY <1>9
<1>15. /\ old # Listings!NoIdentity /\ old.current => members'.identity[i] = old
       /\ old = Listings!NoIdentity /\ members'.identity[i] # Listings!NoIdentity =>
            /\ ~Listings!Taken(members'.identity[i].ticker)
            /\ members'.listing[members'.identity[i].ticker] = i
       /\ old # Listings!NoIdentity /\ members'.identity[i] # old =>
            /\ members'.identity[i].current
            /\ members'.listing[members'.identity[i].ticker] = i
    BY <1>5, <1>11, <1>12, <1>13
<1>16. Listings!Staged(i) => members'.identity[i]
            = [Listings!Identity(Listings!Planned, i) EXCEPT !.facts = i \in listings.facts]
    BY <1>2, <1>3, <1>5, <1>6, <1>14
<1> QED BY <1>4, <1>15, <1>16

\* An advance leaves whoever was mapped once, and what it stages is what the plan and
\* the fetched facts say, in however many attempts.
LEMMA ListingPromise ==
    ASSUME ListingValues
    PROVE  Listings!Spec => []Listings!TypeOK /\ Listings!UniverseCarried
<1>1. Listings!Init => ListingInv BY ListingsStart
<1>2. ListingInv /\ [Listings!Next]_Listings!vars => ListingInv' BY ListingStep
<1>3. ListingInv => Listings!TypeOK BY ListingTypes
<1>4. ListingInv /\ [Listings!Next]_Listings!vars =>
        [Listings!Advances => \A i \in Issuer :
            LET old == members.identity[i] new == members'.identity[i] IN
            /\ old # Listings!NoIdentity /\ old.current => new = old
            /\ old = Listings!NoIdentity /\ new # Listings!NoIdentity =>
                 ~Listings!Taken(new.ticker) /\ members'.listing[new.ticker] = i
            /\ old # Listings!NoIdentity /\ new # old =>
                 new.current /\ members'.listing[new.ticker] = i
            /\ Listings!Staged(i) =>
                 new = [Listings!Identity(Listings!Planned, i) EXCEPT
                            !.facts = i \in listings.facts]]_Listings!vars
    BY IssuerCarried
<1> QED BY <1>1, <1>2, <1>3, <1>4, PTL DEF Listings!Spec, Listings!UniverseCarried

-----------------------------------------------------------------------------
\* The run's property of the batches: a published one is whole and made of what it is
\* named by, the current prices are whole and only improve, coverage does not collapse,
\* and an advance carries the issuers it does not stage (Coordinator).
THEOREM BatchesSound ==
    ASSUME UniverseValues, MarketValues, ListingValues
    PROVE  Operations => BatchesKept
<1>1. OperationsInit => Universe!Init /\ Market!Init /\ Listings!Init BY PartsStart
<1>2. [OperationsNext]_all =>
        [Universe!Next]_Universe!vars /\ [Market!Next]_Market!vars /\ [Listings!Next]_Listings!vars
    BY PartsStep DEF Universe!vars, securityVars, Market!vars, marketVars, Listings!vars, listingVars
<1>3. Universe!Init => UniverseInv BY UniverseStarts
<1>4. UniverseInv /\ [Universe!Next]_Universe!vars => UniverseInv' BY UniverseStep
<1>5. UniverseInv => (part = "universe" =>
          Universe!TypeOK /\ Universe!PublishedWhole /\ Universe!PayloadsBelong)
    BY UniverseWhole
<1>6. Operations => [](part = "universe" =>
          Universe!TypeOK /\ Universe!PublishedWhole /\ Universe!PayloadsBelong)
    BY <1>1, <1>2, <1>3, <1>4, <1>5, PTL DEF Operations, all
<1>7. Operations => Market!Spec BY <1>1, <1>2, PTL DEF Operations, Market!Spec, all
<1>8. Operations => Listings!Spec BY <1>1, <1>2, PTL DEF Operations, Listings!Spec, all
<1>9. Market!TypeOK /\ Market!CurrentWhole =>
        (part \in {"market", "rejected"} => Market!TypeOK /\ Market!CurrentWhole)
    OBVIOUS
<1>10. Listings!TypeOK => (part = "listings" => Listings!TypeOK) OBVIOUS
<1> QED BY <1>6, <1>7, <1>8, <1>9, <1>10, MarketPromise, ListingPromise, PTL DEF BatchesKept
=============================================================================
