---------------------------- MODULE MCOperations ----------------------------
(***************************************************************************)
(* What the process keeps running, component by component: the reload of   *)
(* the cron plan, the notification queue under faults, backups, alerts     *)
(* about watched tickers, the cleanup of old records, the building of      *)
(* security and market batches, and the new listings of every day.  They   *)
(* share no state: a behaviour is one of the component named by "part".    *)
(* The queue's leases run out under their owners, statements fail, replies *)
(* get lost, the process dies, and the history cleanup deletes a batch.    *)
(***************************************************************************)
EXTENDS NotificationQueue, Sequences

CONSTANTS
    Task, Expr, Editor, Finisher, Instance, MaxJobs,   \* the cron plan (CronReload)
    batch2, pass2,                                     \* a batch and a pass of the queue
    Operation, MaxStamp, KeepPairs, Replica,           \* backups (SQLiteBackup): callers,
    FileFaults, BadCopies, MaxDeaths,                  \* restore points, what may go wrong
    Target, Runner, MaxPerRun, MaxDate,                \* alerts (SignalAlerts),
    target2, alerts2,                                  \* a target and a call of them
    MainRow, DiscoveryRow, MaxBatches, MaxRuns,        \* old records (HistoryCleanup)
    Stages, Narrowed, Chunks, MaxEdition, MaxLosses,   \* the universe (SecurityBatches),
    Security, Candidate, MaxDrop, MinCoverage,         \* its prices (MarketBatches)
    RepairAge, MaxDay, MaxStarts, MaxFaults,
    Issuer, Ticker, NonCommon, MaxChanges, MaxStops    \* and new listings (IncrementalListings)

VARIABLES
    part,
    enabled, expr, nextRun, plan, current, ticking, jobs, editor, finisher, alone,
    clock, cutoff, file, mu, job, drill, deaths,
    market, stored, inbox, settings, run, silent,
    age, prescreen, pointer, log, cleanup,
    source, artifact, payload, stage, universe, newest, losses,
    day, closes, sheet, valued, builder, starts, faults,
    directory, members, draft, listings, changes, stops

reloadVars == <<enabled, expr, nextRun, plan, current, ticking, jobs, editor, finisher, alone>>
backupVars == <<clock, cutoff, file, mu, job, drill, deaths>>
alertVars == <<market, stored, inbox, settings, run, silent>>
cleanupVars == <<age, prescreen, pointer, log, cleanup>>
securityVars == <<source, artifact, payload, stage, universe, newest, losses>>
marketVars == <<day, closes, sheet, valued, builder, starts, faults>>
listingVars == <<directory, members, draft, listings, changes, stops>>

\* Two requests may reload at the same time, jobs run in the instances they
\* replace, and a finishing run refreshes its row.
Cron == INSTANCE CronReload WITH Never <- None

\* Two operations contend for the mutex; copies are damaged, file operations
\* fail and the process dies at any of them; enough pairs to prune.
Backup == INSTANCE SQLiteBackup WITH
    Job <- Operation, Nobody <- None, Faults <- FileFaults, MaxCrashes <- MaxDeaths,
    crashes <- deaths

\* One target and two concurrent calls, or more targets than a call may alert of;
\* statements fail and the process stops.
Alerts == INSTANCE SignalAlerts

History == INSTANCE HistoryCleanup WITH MaxCleanups <- MaxRuns, batch <- prescreen

\* The second stage is fetched for what the first one found.
TwoStages == <<"fundamentals", "insiders">>
Universe == INSTANCE SecurityBatches WITH
    edition <- source, file <- payload, builder <- stage, batch <- universe, pointer <- newest

\* One of two securities is repaired.  Three days in part "market", so that a close may
\* be too old to stand in, and two in part "rejected", in which a step fails.
Market == INSTANCE MarketBatches WITH stored <- closes, batch <- sheet, pointer <- valued

\* Two common shares and a warrant, of two issuers.
Listings == INSTANCE IncrementalListings WITH universe <- members, sync <- listings

OperationsInit ==
    /\ part \in {"reload", "queue", "passes", "backup", "alerts", "limit", "cleanup", "universe",
                "market", "rejected", "listings"}
    /\ Cron!Init /\ Init /\ Backup!Init /\ Alerts!Init /\ History!Init
    /\ Universe!Init /\ Market!Init /\ Listings!Init
    \* One initial state for the parts that stand still.
    /\ part # "reload" => current = (CHOOSE i \in Instance : TRUE) /\ enabled = [t \in Task |-> TRUE]
    \* The first issuer has a share, alone or with the other's; a warrant follows a share.
    /\ \A t \in Ticker : directory[t] # Listings!Nobody
    /\ directory[1] = 1 /\ (directory[2] = 2 => directory[3] = 2)
    /\ part # "listings" => directory[2] = 2

\* Only the variables of part p change.
Only(p) ==
    /\ part = p /\ UNCHANGED part
    /\ IF p = "reload" THEN TRUE ELSE UNCHANGED reloadVars
    /\ IF p \in {"queue", "passes"} THEN TRUE ELSE UNCHANGED vars
    /\ IF p = "backup" THEN TRUE ELSE UNCHANGED backupVars
    /\ IF p \in {"alerts", "limit"} THEN TRUE ELSE UNCHANGED alertVars
    /\ IF p = "cleanup" THEN TRUE ELSE UNCHANGED cleanupVars
    /\ IF p = "universe" THEN TRUE ELSE UNCHANGED securityVars
    /\ IF p \in {"market", "rejected"} THEN TRUE ELSE UNCHANGED marketVars
    /\ IF p = "listings" THEN TRUE ELSE UNCHANGED listingVars

OperationsNext ==
    \/ Only("reload") /\ Cron!Next
    \* The queue: two batches and one pass, or two passes and one batch.
    \/ Only("queue") /\ Next /\ worker'[pass2] = worker[pass2]
    \/ Only("passes") /\ Next /\ batch'[batch2] = batch[batch2]
    \/ Only("backup") /\ Backup!Next
    \/ Only("alerts") /\ Alerts!Next /\ market'[target2] = market[target2]
    \/ Only("limit") /\ Alerts!Next /\ run'[alerts2] = run[alerts2]
    \/ Only("cleanup") /\ History!Next
    \/ Only("universe") /\ Universe!Next
    \* The day is read when a build begins, so it may as well end between two.
    \/ Only("market") /\ Market!Next /\ faults' = faults
       /\ (day' = day \/ \A j \in Market!Job : builder[j].pc = "idle")
    \/ Only("rejected") /\ Market!Next /\ day' \in 1..2
       /\ (day' = day \/ \A j \in Market!Job : builder[j].pc = "idle")
    \/ Only("listings") /\ Listings!Next

Operations ==
    /\ OperationsInit
    /\ [][OperationsNext]_<<part, reloadVars, vars, backupVars, alertVars, cleanupVars,
                           securityVars, marketVars, listingVars>>

-----------------------------------------------------------------------------
(* What each part keeps; the conjuncts are defined in its module.          *)

\* The installed cron plan is that of the rows, and no replaced instance goes on
\* firing (Scheduler.Reload).
CronFollowsRows ==
    part = "reload" => Cron!TypeOK /\ Cron!CronMatchesRows /\ Cron!EveryOldCronStopped

\* Half a pair never passes for a restore point, nothing is compacted without a
\* checked backup, no step removes one of the newest two pairs or the last
\* recoverable one, and a drill reports what it found.
RestorePointsKept ==
    /\ [](part = "backup" => Backup!TypeOK /\ Backup!NoHalfPublished /\ Backup!CompactionBackedUp)
    /\ Backup!NewestTwoKept /\ Backup!StaysRecoverable /\ Backup!DrillHonest

\* A state that was stored has been told to the inbox unless a switch is off, and
\* an event told again keeps what the operator made of it.
AlertsTold ==
    [](part \in {"alerts", "limit"} => Alerts!TypeOK /\ Alerts!StoredIsTold) /\ Alerts!InboxKeeps

\* The cleanup leaves what live views are built from, and its log says what it did.
CleanupKeeps ==
    [](part = "cleanup" => History!TypeOK /\ History!LiveViewKept) /\ History!CleanupHonest

\* A published security batch is made whole from the inputs it is named by, however
\* many attempts built it, and those inputs belong together.  The current market
\* batch is whole and its rows stay; a repair replaces what it was made from, and
\* coverage does not collapse from one sync to the next.  A daily advance adds new
\* listings and repairs conflicts, and carries the other issuers as they were.
BatchesKept ==
    /\ [](part = "universe" => Universe!TypeOK /\ Universe!PublishedWhole /\ Universe!PayloadsBelong)
    /\ [](part \in {"market", "rejected"} => Market!TypeOK /\ Market!CurrentWhole)
    /\ [](part = "listings" => Listings!TypeOK) /\ Listings!UniverseCarried
    /\ Market!PublishedStays /\ Market!RepairsCurrent /\ Market!CoverageKept
=============================================================================
