# SEC Monitor: a TLA+ model of its background processing

SEC Monitor watches filings, discovers small-cap candidates, recommends
nothing before an operator looks, and tells its operator by Telegram and in the
application. One Go binary, `cmd/server`, serves an HTTP API and a Vue front
end, runs tasks on cron schedules and keeps everything in two SQLite databases
(`sec_monitor.db` and `discovery.db`). A second binary, `cmd/discovery-sync`,
runs one discovery workflow on the same databases. Most of the lines are
parsing, scoring and presentation; what is hard to get right, and what this
directory models, is the machinery underneath: **tasks that must not overlap,
must be retried a bounded number of times and must survive a restart; messages
that must be sent once; backups that must stay restorable; request budgets and
workspaces that two processes share; batches that are built over several
attempts and published whole.**

Paths are those of the repository; `scheduler.go:276` stands for
`src/internal/scheduler/scheduler.go:276` and so on.

- [1. Inventory](#1-inventory)
- [2. The modules and how they correspond to the code](#2-the-modules-and-how-they-correspond-to-the-code)
- [3. What the runs show](#3-what-the-runs-show)
- [4. Fairness](#4-fairness)
- [5. What is proved](#5-what-is-proved)
- [6. Disagreements between the code and what it says](#6-disagreements-between-the-code-and-what-it-says)
- [7. What is not modelled, and why](#7-what-is-not-modelled-and-why)
- [8. Plan](#8-plan)
- [9. Running it](#9-running-it)

## 1. Inventory

### Parts with state of their own

| Part | State | Operations | Correct when |
|---|---|---|---|
| **Task scheduler** (`scheduler.go`, `service/task_config.go`) | in memory: `runningTasks`, `runningSECTask`, `retryMu`; in `task_configs`: enabled, running, status, `retry_not_before`, attempts; `task_executions` | cron firing, "run now", the one-minute retry scan, saving a setting, the restart repairs | no two runs of a task, no two users of SEC's live endpoints; at most three automatic retries per round; no retry lost by a busy task, a restart or a setting; rows that say what the goroutines do |
| **Cron reload** (`Scheduler.Reload`, `refreshTaskNextRun`) | the installed cron instance, the instances still being stopped, `next_run_at` | save + reload by an HTTP request, firing, a finishing job refreshing its row | cron fires what the rows say; no old instance keeps firing; the request is answered |
| **Notification queue** (`service/notification_batch.go`) | `notification_batches` (status, retry time, ladder position, lease), `notification_items` | first delivery, retry pass, recovery of dead letters, requeue by an operator, cleanup | an event is announced once; a failed batch is retried and in the end sent or visible as a dead letter; the rows of batch and items agree |
| **SQLite backup and recovery** (`service/sqlite_backup.go`) | pairs of database files in the local and the replica directory, the drill report, an in-process mutex | nightly backup, replication, three kinds of pruning, compaction, offline prune, restore drill | the newest two pairs and the last good pair survive everything; half a pair never passes for a restore point; a drill tells the truth |
| **API admission** (`discovery/api_monitor.go`) | `api_provider_policies` (budget, interval, date and counter, last request), a pace per process, module switches | acquire, change of settings, midnight, restart | the daily budget and the pace hold over all processes |
| **Discovery workflows** (`service/discovery_sync.go`, `discovery/universe.go`) | `discovery_sync_runs` (a row is a lease), `universe_batches`, `current_batch_pointers`, a gate per process | full, incremental and market-only runs, heartbeat, expiry, startup recovery, resumption | one workflow at a time over all processes; a run is of one policy; a dead run's lease is given back; candidates never fall back to an older universe |
| **Small-cap policy** (`discovery/small_cap_policy*.go`) | versions, activations, and the batch rescored under them | apply, roll back, rescore | no policy changes under a running workflow; no edit overwrites a batch it has not read |
| **Universe batches** (`discovery/universe.go`, `security_checkpoint.go`, `incremental_listings.go`, `market_price_recovery.go`) | drafts, artifacts, chunk checkpoints, market batches and stored closes | fetch, stage, publish, daily advance, price repair, cleanup of repairs | a half-built batch is never current; an interrupted build resumes on inputs that belong together; repairs replace what they were made from |
| **Filing sync** (`service/filing.go`, `sec/client.go`) | filings, watched targets with their last sync and cooldown, the cached index of fund filings | scheduled sync, operator's sync, recovery of failed targets, cleanup | each filing is associated and announced once; a failing target does not stop the others and is counted |
| **IPO radar** (`service/ipo_radar.go`, `ipo_longbridge_*.go`) | filings, offering events, a row of market data per issuer, followed companies | scan, refresh, lifecycle, offerings, listing confirmation, follow, override | a listing is shown on evidence only; filings, terms and progress are announced once |
| **Provider research refreshes** (`discovery/longbridge_*.go`, `research_*.go`) | a shared pacer with its cooldown, freshness rows, snapshots and receipts | refresh, retry, back off | the provider's cooldown holds for everybody; answers are stored once; no candidate starves |
| **Download cache** (`discovery/download.go`) | files, a lock per path with a reference count | conditional request, atomic replacement | one writer per path; a lock is not dropped while somebody waits for it |
| **AI analysis** (`service/ai_analysis.go`) | `ai_analysis_jobs` | enqueue, claim, call, repair, finish | one live analysis of a question; a judgement goes back to a genuine answer about the same facts |
| **Candidate summary cache** (`api/handler/candidate_summary.go`) | a revision, a cached answer | read, invalidate by a write | an answer is not older than what was committed before it was asked for |
| **In-app notifications** (`service/in_app_notification.go`, `trade_setup_notification.go`) | stored trade-plan states, event keys, read marks | preview, create, read | a state that is stored was told; an event appears once |
| **History cleanup** (`service/lifecycle.go`, `market_repair_retention.go`) | rows past their retention, a log row of its own | delete | nothing live is deleted, the log tells what was |
| **Macro calendar**, **market trends**, **Futu credentials**, **configuration and audit** | their own tables | refresh, upsert | section 7 |
| **Scoring and research read models**, **HTTP API**, **web interface** | none beyond the tables above | queries | section 7 |

### How they interact

- *Calls.* Cron and the retry scan call task bodies (filing sync, the
  discovery workflow, backup, notification retries, cleanups) through
  `runTaskWithTrigger`; the HTTP handlers call the same function or save rows
  and call `Reload`.
- *Shared rows.* Every part writes SQLite rows one statement at a time;
  explicit transactions exist only where the models make one step of several
  writes. Retry scans, requests and other processes meet in these rows.
- *Shared memory.* The scheduler's locks, the backup mutex, the provider pace
  and the coordinator gate belong to **one process**; the command-line sync
  has its own. The unique index on running rows and the admission transaction
  are what crosses the process boundary.
- *Other systems.* Telegram, SEC, Longbridge and the rest answer, fail or
  time out; every answer is nondeterministic here.

### What is hard

Interleavings of cron, requests, retry scans and a second process on the same
rows; rows read, then written in a later statement; a process that dies between
a step and the row that records it; a lease or a retry that outlives its owner;
one of several bookkeeping statements failing; pruning and publishing in one
directory; midnight between a clock reading and a transaction; a build that is
taken up by another attempt with other inputs. `PROJECT.json` lists each such
hazard at its line, with the properties that cover it or the reason none does.

## 2. The modules and how they correspond to the code

The granularity is the same everywhere: **one SQL statement or one explicit
transaction, one critical section of a mutex, one file operation or one call of
an outside system is one step.** SQLite serialises statements, so a step is
atomic; between two steps of a goroutine everything else may happen, a crash
included. Where a step stands for several statements, nothing between them is
told apart by a property, and these are the places: `FilingSync` closes the
detail of a run together with the target's row (`Fail`, `Succeed`); `IPORadar` makes one step of the request and the inserts of an issuer's history
(`Backfill`), of the parts of a sweep (`SweepHistory`), and of the look and the
insertion of a follower (`SetCompanyFollow`), all of which repeat harmlessly
under unique keys; `DiscoverySync!Close` records no batch on a failed run, where
the code records the draft's number, which nobody reads. In each module the variables are grouped into what lives in memory and
what lives in tables or files: a crash resets the first group only. Variables
that only observe (`roundRetries`, `accepted`, `dispatched`, `evidence`, `heard`,
...) are called history variables below and appear in no guard.

Operators named `X_Slip` are no part of a model: each is the operator `X` as a
plausible programming slip would leave it, and documents which property notices
it.

### Tasks and cron

**`TaskScheduler`** — dispatch, retry and restart.

| In the model | In the code |
|---|---|
| `run[p].pc`, one program counter per goroutine | the position in `runTaskWithTrigger`: `entering` (before the mutex), `locked`, `marked`, `executing`, `ran`, ..., `releasing` |
| `runningTasks`, `runningSECTask`, `retryMu` | the fields of `Scheduler` |
| `row[t]` | the `task_configs` row; `retry_not_before` is `none`, `waiting` or `due` |
| `FireScheduled`, `FireManual`, `ScanBegin`/`ScanNext`/`ScanEnd` | cron closure with `ScheduledRunAllowed`, HTTP handler, `runDueRetries` |
| `EnterBusy`, `EnterRegular`, `ClaimRetry`, `ClaimMissed` | the outcomes of the critical section at `scheduler.go:266-299` |
| `MarkRunStarted` ... `MarkRunOutcome`, each with a `...Fails` twin when `DBFaults` | the bookkeeping around the body, every statement of which may fail and is handled differently |
| `RunTask` | the body: `success`, `partial` with or without a wish for another pass, `failed`, retryable or not, `skipped`, `interrupted` |
| `EnsureDefault`, `RecoverInterrupted`, `RecoverInterruptedExecutions` | the three restart repairs, in their order, before the scheduler starts |
| `UpdateEnabled`, `Elapse`, `CooldownEnds`, `Crash` | a setting, the clock, the end of the manual-success cooldown, a death of the process |

`roundRetries` counts the automatic retries actually started since the last
scheduled or manual run. The code counts in a column, `attempts`, that several
statements reset; that the two agree across crashes, busy tasks and failing
statements is what `RetriesBounded` depends on.

**`RetryRounds`** is what the scheduler promises about retries, without
goroutines, locks or rows: a task is *resting*, *running*, *owed* a retry, or
*open* (its run was cut off by a crash, or no statement recorded how it ended),
with the retries used since its round began. In `TaskScheduler`, `Rounds`
instantiates it with `RoundState(t)`, read off the row and the goroutine that
marked it; `RoundsKept == Rounds!Spec` is the refinement.

**`CronReload`** — `Save` writes the row, `List` reads all rows and `Persist`
writes `next_run_at` *before* the mutex, `Lock` takes it, `Swap` installs the new
instance and lets it go, `StopPrevious` stops the replaced one *outside* the
mutex and `Answer` returns when its jobs have ended, each of which needs the
mutex to end (`JobEnds`). `RefreshRead`/`RefreshWrite` are `refreshTaskNextRun` by
a run that ends at the same time. `alone` remembers whether the last save had
the reload to itself; the code promises nothing for two concurrent editors and
neither do the properties.

### Messages

**`NotificationQueue`** — a `Producer` is the goroutine of a first delivery
(`Deliver`: create batch and items, store counts, send, store the result); a
`Worker` is one retry pass (`RecoverDeadLetters`, then `RetryDue`: select, claim
with a lease token, send, store); an `Operator` requeues a dead letter in two
statements. `accepted[e]` counts the messages with event `e` that Telegram
took: the ground truth the rows are compared with. A lease is `live` or
`expired`; text, chunks and recipients are outside.

**`SignalAlerts`** — alerts about the trade-plan state of watched targets:
preview, an inbox row per event key, the stored states, the Telegram hand-over,
read marks and the two switches; two calls may overlap and each may stop
between any two steps.

### Files and old rows

**`SQLiteBackup`** — a file is a stamp and a condition (`good`, `bad`); a pair is
*complete* when both databases and nothing temporary are there. A `Job` is one
goroutine: `Begin` takes the mutex; then staging, two renames, pruning by age,
count and capacity as separate loops of single removals (`StartStage`, `Remove`,
`EndStage`), copying to the replica, checking there, compaction, drill. The
removal loops, like the code, compute their list at the start of a stage.

**`HistoryCleanup`** — the two databases in a transaction each, the superseded
repair batches, and the log row around them, with crashes between; meanwhile
runs finish and batches are published.

### Discovery

**`DiscoverySync`** — `runs` is `discovery_sync_runs`: `running` rows form the
lease because of the partial unique index (`database.go:181`). `wf[w]` is the
local state of a workflow; a workflow of the server shares `gate[Server]` with
the other goroutines of the server, one in `Command` is a process of its own.
`batches` are published `universe_batches`: kind, policy, the security batch
they derive from, and whether they are of the current New York day. `Insert`
expires an old lease and inserts the row in one transaction, `StartFull` looks
for phases of an earlier failed run, `SyncSecurity`, `SyncListings` and
`SyncMarket` publish and move the pointer, `RecordSecurity`/`RecordMarket` save
the batch on the run's row. `EditRead` and `EditCommit` are
`applySmallCapPolicy` with its check that nothing it read has moved; `Boot` is
`RecoverOrphanedRunsAtStartup`. `Age` moves a heartbeat past the timeout only
when its owner is gone: **a live owner's heartbeat is assumed never to pause
for the timeout plus fifteen minutes.**

**`SecurityBatches`** — how one security batch comes about: sources fetched stage
by stage into artifacts, a batch named by everything it is made from, rows in
chunks with a checkpoint each, and attempts that stop anywhere.
**`MarketBatches`** — the daily pricing of a universe, the repair of one close in
a copy of the current batch, and the cleanup of superseded copies.
**`IncrementalListings`** — the daily advance that adds new listings on the
published evidence. `DiscoverySync` sees each of these as one step that
publishes or fails; its lease and the gate are what lets these modules have one
builder at a time.

### Research

**`APIBudget`** — a `Caller` is one request of the server or of the command line in
`Acquire`: module check, lock and wait of its own process, then the reserving
transaction, which reads and writes the shared row as a whole. A day has
`DayLength` units; `dispatched` and `newest` are history variables.

**`RequestPacer`** — the process-wide pacer: slots, and a cooldown that moves
everybody's slot. **`ResearchRotation`** — which tickers a job asks about, least
recently tried first. **`ResearchSnapshots`** — overlapping refreshes that store
an answer once and move a receipt. **`DownloadCache`** — the lock per path with
its reference count, conditional requests, replacement by rename.
**`CandidateSummary`** — the revision counter against statements and explicit
transactions, the shared build, the lifetime. **`AIAnalysis`** — the duplicate
check, claim, enrichment, reuse of an answer, calls with retries and one
repair, outcome, crashes.

### Filings

**`FilingSync`** — a refresh works on the rows it loaded at its start and lists
filings; for each, `Insert`, `Renew`, `Find` and `Link` are the statements of
`createFilingAndAssociate`, which has no transaction, so that another refresh or
the cleanup may come between any two. `edition` counts how often a filing was
inserted and stands for the id of its row: a link is to an edition, and may be
to one that is gone. `Find` of a row the cleanup took is an error (`Lose`), after
which the refresh returns and what it found is lost (`Abandon`). `Succeed` closes
the target, `Deliver` hands one event source after the other to the queue at the
end, `Conclude` closes the run; the scheduled one then recovers targets whose
cooldown is over. A refresh is assumed to take less than a tick, of which the
retention has several. **`FundIndex`** — the cached index by which a trust's filing is taken for a
fund, with the client's retries. **`IPORadar`** — one issuer: a job is a list of
stages (`Stages`), a row is read, changed and saved as a whole, and a save over
a row that another job created meanwhile fails as a duplicate (`Save`). Whether
a scan is the baseline, which is quiet, depends on the filings of *all* issuers
(`ipo_radar.go:751`); of these the model has one, so a scan that finds none of
its own may find the table empty or not (`ReadFeed`).

### Composition

The modules meet at narrow interfaces, and each represents the other side by
the most general behaviour: a task body is any outcome (`TaskScheduler`), a
firing is any task at any time, the retry pass may start whenever it is not
running, a phase of a workflow publishes or fails. What holds here therefore
holds in the composition.

Three modules put components side by side for one run: `MCOperations`,
`MCResearch` and `MCLiveness`. Their parts share no variable, so exploring the
product would only multiply state counts; instead a behaviour is one of the
part named by `part`, and `Only(p)` keeps the variables of the others still.
Every step of the sum is a step of the part it belongs to, and the proofs use exactly
that (section 5); where a part has one goroutine or target fewer than the
constants give, a conjunct of `Next` says so. A
property of such a run is a conjunction of the parts' own properties, each
guarded by `part`.

## 3. What the runs show

| Run | Question | Answer |
|---|---|---|
| `TaskSchedulerRetries` | a cron or HTTP caller and **two** overlapping retry scans on an SEC task with the manual-success cooldown and a discovery task with its own run log, three retries, one crash | at most three retries per round; a failed task with attempts left always has a queued retry; a busy task postpones a retry without counting it; one scan at a time; `running` is exact and no execution stays open after a restart |
| `TaskSchedulerFaults` | two SEC tasks, a caller and a scan, any statement may fail, one crash | the locks still exclude; a live run is still shown as running; the scheduler implements `RetryRounds` |
| `DiscoverySyncServer` | two workflows (full and market-only), the policy editor and a correction in one server with a restart | one workflow at a time; a published run and its batches are of one policy; the current candidates never derive from an older universe; policies change only between workflows |
| `DiscoverySyncCommand` | the server and `cmd/discovery-sync`, which may die, on an empty database | under fairness the lease is always given back |
| `Operations` | the parts of `MCOperations`, below | what they promise under overlapping requests, failing statements and crashes |
| `Research` | the parts of `MCResearch`, below | what they promise under overlapping refreshes, failures and crashes |
| `Liveness` | the parts of `MCLiveness`, below | what must happen does, under fairness |
| `CronReloadStale`, `DiscoveryOrphans`, `CandidateSummaryStale`, `FilingOutage`, `FundIndexPoisoned` | does the code do what a comment or a design says? | **no**: section 6 |

`Operations`:

| Part | Instance | Property |
|---|---|---|
| `reload` | two editors, a finishing run, jobs in replaced instances | `CronFollowsRows`: after a save that had the reload to itself cron is the rows', and replaced instances are stopped |
| `queue`, `passes` | one delivery, an operator, a cleanup; two batches and one pass, or one batch and two; leases run out *under* their owners, statements fail, answers are lost, one crash | `FailedIsRetryable`, `SentWasAccepted`, `ItemsFollowBatch`, `SettledStays`, with `TypeOK` those of `NotificationQueue` |
| `backup` | two operations, three stamps, two pairs kept, a replica, damaged copies, failing file operations, one crash | `RestorePointsKept`: no half pair is published, a compaction has its backup, the newest two pairs survive pruning, an install stays recoverable, the drill is honest |
| `alerts`, `limit` | one target and two calls, or two targets and a limit of one; statements fail, calls stop | `AlertsTold`: a stored state was told; repetitions keep what the operator made of an event |
| `cleanup` | two databases, rows that finish and age, batches published meanwhile, a crash | `CleanupKeeps`: the live batch stays; a log that says completed deleted all that was due and nothing else |
| `universe` | two stages, two chunks, a source that changes, attempts that stop | `BatchesKept`: published batches are whole and their inputs belong together |
| `market`, `rejected` | two securities over three days, repairs, superseded copies; a step fails in `rejected` | `BatchesKept`: the current batch is whole, repairs replace what they were made from, coverage does not collapse |
| `listings` | two common shares and a warrant of two issuers, a weekly calibration | `BatchesKept`: the other issuers are carried as they were |

`Research`:

| Part | Instance | Property |
|---|---|---|
| `budget` | server and command line over a midnight with a restart and changing settings | `BudgetKept`: the counter is exact, budget and pace hold over both processes |
| `pacer` | two requesters, cooldowns | `CooldownKept`: no slot before a cooldown that was announced is over |
| `snapshots` | two refreshes, three answers, two days | `SnapshotsKept`: an answer is stored once, the receipt never goes back |
| `downloads` | three callers of one path, two editions, a restart | `DownloadsKept`: one caller past the lock; what it returns is what the file holds |
| `summary` | two readers, two writers | `SeesEarlierStatements` |
| `analysis` | two requests and two subjects, or one subject and two models with settings that change before the call; failing answers and statements, a crash | `AnalysisKept`: one live analysis of a question, judgements on genuine answers about the same facts, bounded calls |
| `news`, `crash`, `recovery` | two filings, one with content, three refreshes that overlap and a cleanup between any two statements; with a fault or a crash in addition; two targets that fail | `FilingsKept`: announced once unless cleaned up before the target's last sync had passed it, nothing dropped but by a fault or by a filing that was gone, unresolved targets counted |
| `index` | two syncs, two funds, temporary failures | `FilingsKept`: a filing is taken for a fund only if the index names its class |
| `listing` | the listing task and a refresh, tickers that change | `RadarKept`: listed on evidence only, progress told |
| `filings` | a scheduled scan, the baseline or not, and a refresh, two offerings | `RadarKept`: filings and terms told once, one initial offering |

`Liveness`:

| Part | Properties |
|---|---|
| `tasks` | `TasksProgress`: a due retry of a task that does not share SEC is served, locks are released |
| `queue` | `DeliveredOnce` (safety, with leases that outlive their owners and a crash: without one nothing is sent twice, and only the lease's owner advances the ladder); `FailedSettles`: a failed batch is sent or becomes a dead letter |
| `analysis` | `Settles`: a queued analysis ends |
| `rotation` | `NoneStarves`: every listed candidate is asked about again and again |
| `reload` | `Answered`: a request that reloads is answered, although the jobs it waits for need the mutex to end |

### Bounds, and why they are enough

- *Tasks and goroutines.* The rules relate a task, a path, a row or a target to
  itself or to one other, so two of each and two or three goroutines reach each
  pair of conflicting steps with a third arriving in between. Three retries is
  the code's own number in `TaskSchedulerRetries`; elsewhere one, because there
  the ladder's length is not the question.
- *Crashes.* One. A crash erases memory and leaves the tables; from the model's
  point of view the second crash starts from a state the first one could have
  led to, unless it hits the restart repairs, which the same run reaches by
  crashing in `phase` other than `up`.
- *Pairs.* Three stamps with `KeepPairs = 2` force the pruning loops to delete and
  leave room for a pair to be pruned while another is checked or drilled.
- *Clocks.* A day of two or three units with a bound beyond it has a midnight with
  requests before and after it; `Retention` and `Cooldown` are the smallest
  numbers with "before", "at" and "after".
- *Filings.* A filing that arrives at the second tick may be cleaned up at the last
  one (`Retention` is three), where another arrives, so one refresh can store
  both, one of them again; a conjunct of `Next` fixes these arrivals. In `news`
  the first refresh is early and at most two begin before the fourth tick. In
  `listing` and `filings` only the scheduled scan may find the table empty.
- *Runs and batches.* Two rows of `discovery_sync_runs` give a first run and a
  successor that may resume it; five batches are two established ones and three
  publications, enough for a run, an edit and a correction in every order.
- *Deadlock.* TLC checks it wherever the system can go on; the configurations
  that turn it off say why (bounded counters run out).

The theorems of section 5 remove the bounds for the properties they state.
`SYMMETRY` is used only in runs whose properties are safety properties, over
values no action or property names.

## 4. Fairness

`DiscoverySync!FairSpec` and, for each part of `MCLiveness`, a formula next to its
property (`TasksFairness => ...`), so that a part assumes its own only.

| Part | Assumed fair | Because |
|---|---|---|
| tasks | each goroutine inside `runTaskWithTrigger`; the scan and its start; the clock | Go schedules goroutines; bodies are bounded by request timeouts and, for retries, a two-hour context; the scan is a cron entry of one minute |
| queue | producer and worker steps, time | the retry task is on a schedule; whether Telegram accepts is *not* assumed |
| analysis | the goroutine of each queued analysis | it has a deadline and a bounded number of calls; the process is assumed to live |
| rotation | the scheduled candidate job | cron; an operator's button is not assumed |
| reload | a request between its steps; **strong** fairness for the end of each job | as above; a job competes for the mutex with reloads, and `sync.Mutex` hands it to a waiter that has been passed over |
| discovery | workflow steps, new runs, time; **strong** fairness for `Insert` | contexts bound the phases; `Insert` competes with other inserts and edits that disable it again and again; that not every attempt fails for reasons of its own is the assumption it states |

Nobody is assumed to save a setting, press a button, crash or correct anything.
`RetryServed` excludes the tasks that share SEC: between two retry scans another
SEC task may take the endpoint each time, and the code gives no queue.

## 5. What is proved

All theorems hold for every set of tasks, goroutines, rows, paths and so on and
for every bound, unless a hypothesis is named below. Where a property belongs to a run, the
theorem states that very definition.

| Module | Theorems | Of | Hypotheses |
|---|---|---|---|
| `TaskSchedulerProofs` | `TypeCorrect`, `MutualExclusion`, `LiveRunsShown`, `RetryBudget`, `RetryQueued`, `RetriesSerial`, `AttemptsCounted`, `Implementation` | `TypeOK`, `RunsExclude`, `LiveRunShown`, `RetriesBounded`, `NoLostRetry`, `SerialRetries`, `BusyConsumesNoAttempt`, `RoundsKept` | the `ASSUME`s of `TaskScheduler`: the subsets are subsets, callers and scans differ, the bounds are numbers |
| | `RowsFollowRuns` | `RowsMatchRuns` | and no statement fails: a failing one leaves a row marked, which the code accepts |
| `DiscoverySyncProofs` | `TypeCorrect`, `PolicyFrozen` | `TypeOK`, `FrozenPolicy` | the `ASSUME`s of `DiscoverySync` |
| | `Exclusion`, `PolicyStable` | `OneWorkflow`, `PolicyStableDuringRun` | nothing runs on the command line, or the server is not restarted: false otherwise (section 6) |
| | `PrescreenMonotone` | `PrescreenNeverRegresses` | nothing runs on the command line, or the server neither restarts nor corrects |
| `NotificationQueueProofs` | `TypeCorrect`, `FailedRetryable`, `SentAccepted`, `ItemsAgree`, `SettledKept`, `CountedOnce` | `TypeOK`, `FailedIsRetryable`, `SentWasAccepted`, `ItemsFollowBatch`, `SettledStays`, `ClaimedCountsOnce` | the retry ladder has a rung |
| | `SentOnce` | `NoDuplicateSend` | leases outlast the passes, statements and replies arrive, no cleanup meanwhile |
| `FilingSyncProofs` | `TypeCorrect`, `SentOnce`, `NoneDropped`, `UnresolvedCounted` | `TypeOK`, `AnnouncedOnce`, `NothingDropped`, `UnresolvedExact` | finitely many targets, whose keys are numbers; the scheduler is one of the runners |
| `DownloadCacheProofs` | `OneAtATime`, `ResultGenuine` | the parts of `DownloadsKept` | finitely many callers |
| `AIAnalysisProofs` | `TypeCorrect`, `OneAtATime`, `JudgementsGenuine`, `CallsCounted` | the parts of `AnalysisKept` | at least one attempt |
| `OperationsProofs` | `PlanInForce`, `PlanFollowsRows` | `CronFollowsRows` | |
| | `LiveKept`, `RetentionKept` | `CleanupKeeps` | |
| | `StoredWasTold`, `AlertsAreTold` | `AlertsTold` | finitely many targets |
| | `PairsAreSafe`, `RestorePointsSafe` | `RestorePointsKept` | two pairs or more are kept (`keepPairs` refuses less) |
| | `BatchesSound` with `MarketPromise`, `ListingPromise` | `BatchesKept` | there is a stage, none is listed twice and the first is fetched for everything; there is a chunk, an edition and a day; finitely many securities, candidates among them; finitely many tickers, which are numbers (the plan takes the first of an issuer) |
| `ResearchProofs` | `DownloadsAlone`, `AnalysesSound`, `FilingsSound` | `DownloadsKept`, `AnalysisKept`, `FilingsKept` | composed from the modules above |
| | `AllowanceKept` with `BudgetTypes`, `CounterExact`, `BudgetSpent`, `PaceKept` | `BudgetKept` | positive intervals with a largest one, and a day of positive length (`UpdatePolicy` checks the former) |
| | `EarlierStatementsSeen`, `SummaryCurrent` | `SeesEarlierStatements` | |
| | `CooldownRespected` | `CooldownKept` | the interval fits into the modelled time |
| | `AnswersStoredOnce` | `SnapshotsKept` | |
| | `FundsAreListed` | the part `index` of `FilingsKept` | |
| | `RadarIsSound` | `RadarKept` | the issuer has a first filing, and "nobody" is no ticker |

Nothing is assumed finite except where the table says so. The remaining
hypotheses say that bounds are numbers and that the value for "nobody" is not
somebody.

### The arguments

Few of these properties are inductive as they stand. In each case the proof module names the
conjuncts of the inductive invariant with a sentence about each, shows that the
initial states satisfy it, that every action preserves it, one step per action,
and that it implies the property.

**The scheduler.** `RunsExclude` speaks of program counters, the code of a map:
`LockInv` says that a goroutine past the critical section holds exactly the
entry of its task, and `runningSECTask` if the task uses SEC, so that whoever
enters next finds it busy. `RetriesBounded` counts starts of runs, the code
counts in a column: `RowInv` says that they agree while a row can be claimed or
is running, that the column and `running`/`status` move together, that a run
that marked its row leaves it marked, that nothing runs while the process is
down, and that whoever is failed or interrupted with attempts left is queued.
`Implementation` is a step simulation over the same invariants: most steps map
to a stutter; the claim and the mark of a run, the statements that close it,
the crash and the repairs map to the one action of `RetryRounds` for their
task. It needs one fact more, `NoOldRows`: the repair of partial rows in
`EnsureDefault` finds nothing to do in rows this version of the code wrote.

**The discovery workspace.** `OneWorkflow` speaks of program counters, the unique
index of rows. `Lease` connects them: the row of a live workflow is running
**and its heartbeat beats**, so that a successor's expiry cannot have closed it
and its insertion finds the index free only when nobody is live; and no
goroutine of the server is live while the server is down. `PolicyStable`
follows: the editor's transaction looks for a running row, and a live workflow
has one. `PolicyFrozen` needs that a batch recorded on a row was published under
the row's policy by this run or resumed from one of the same policy;
`PrescreenMonotone` needs that whoever is about to publish market candidates
holds a security batch at least as new as the current one's, which is why an
undisturbed gate is a hypothesis.

**The queue.** A pending batch belongs to at most one call of `Deliver`, and a
batch a pass holds was failed and never becomes pending again; so the only
events that turn "failed" are those of a first delivery, and what a holder's
message took is still what it stores when the claim is its own. Under live
leases the claim stays its own, and an event taken is on its way to be marked.

**Backups.** An order of removals is not needed: a loop removes a pair only if it
was listed, at the start of the loop, with `KeepPairs` newer ones, no other
operation publishes or removes meanwhile (the mutex), and removing a pair that
has two newer ones leaves two newer ones to every pair that had two. The local
directory holds good files only (`LocalGood`), halves of pairs are older than
the operation that could complete them (`HalvesAreOld`), a copy on the replica
has its pair at home while it is made (`CopiesOfPairs`), and `WorkInv` says what
each program counter knows of the two directories.

**The allowance.** The row's date is the day of its newest dispatch, and a
reservation whose clock reading is older is turned away by the pace; so days
only follow each other, the counter starts over only for a day without a
request, and it is the number of requests of its day.

**Downloads.** The reference count of a lock is the number of callers that point
to it (cardinalities of finite sets), who is inside points to the lock its path
has now, and a lock serves one path; so two callers past the lock of a path
would be two owners of one lock.

**Analyses.** Row by row: the position of a goroutine fixes the status of its row
and the number of requests made for it, and both the goroutine about to store a
judgement and the row that holds one go back to a valid answer about the row's
subject, facts and document (`Fits`). Of the model the row names nothing is
claimed: the provider is looked up again before the call (section 6).

**Cron plan.** While no second request overlapped, the instance to be installed was
built from the rows as they are, at each of the request's steps (`PlanOnItsWay`).
**Cleanup.** What was selected was due, and the live batch is never selected or
published after it was (`LiveNotSelected`). **Alerts.** Each call that has seen a
state one may act on told it already or still has it to tell (`ToldOrToTell`).
**Summary.** What is tagged with the standing revision holds all that has
returned (`KeptCurrent`). **Pacer.** The next slot lies behind every cooldown
somebody was told. **Snapshots**, **index**: the row a refresh is about to write
is not older than the one stored; a class is in a stored result only if the
index lists it.

**Universe batches.** `UniverseInv`: an attempt works on payloads its own stages
brought and recorded, and the rows of a batch are those its name determines, so
an attempt that finds a draft of its name left by another continues with what it
would have written itself.

**Market batches.** A sync decides by the coverage of the newest measured batch,
a repair by the row it finds in the current one; both publish several steps
later, after rows were copied and others may have come to stay. `MarketInv` says
why the decision still holds then. Because of the gate there is at most one
builder, its draft is the youngest (`BuildersFit`), and the current batch is the
one it decided about. `CurrentStands`: the sync that the current batch descends
from, through any number of repairs, is published, was measured by the rule the
next sync is compared with, and is the youngest that was; the superseded copies
which the cleanup takes are never it. `SheetsFit`: rows are stored closes, so the
newest close a repair takes is not older than the row it replaces.

**Daily advances.** `ListingInv`: the universe does not move between plan and
pointer; a plan read back from its own records is the plan; and a draft of the
same name, left by an attempt that stopped, holds in each row what was cloned or
what the plan says (`DraftBelongs`), so repeating any of the steps changes
nothing it should not.

**The filing sync.** That an announcement is not repeated is a relation between a
stored filing and a row read earlier: a refresh calls a filing news if it was
accepted after the target's `last_sync_at` *in the row it loaded*. The invariant
is `Typed`, `Kept`, `Counted` and `Announced`; the last says of every target and
filing (`Single`): one refresh holds the announcement or the queue had it once;
what was told is linked to the row that is there (`There`), or else the target's
`last_sync_at` has passed it and no refresh still works with an older row
(`Current`); and who is about to link a row that is gone works with a row that
is not older. Overlapping refreshes and failures leave this alone. The cleanup
takes the link away, which does no harm to a target that is `Current`: a refresh
lasts less than the retention. It does harm to another, one whose refresh failed
half-way or that is not synced any more, and there the code does announce again
(section 6): `AnnouncedOnce` excludes what was dropped before the target was
`Current` (`early`), and nothing else. `Kept` speaks of who still has to hand
over what its run linked: nobody, only after a fault, a crash or a filing that
was gone when it was read back (`lost`). `UnresolvedCounted` needs that the
recovery goes through targets of the first pass only, each once.

**The radar.** The jobs of `IPORadar` save whole rows over each other's, so no
statement about the issuer's row alone survives. `RadarInv` says of each job what
its position guarantees (`JobsFit`: what it holds as its row is founded on
evidence that existed, its list has only filings there are, each stage is still
ahead once at most), of the tables what they hold (`TablesFit`, `OffersFit`), and
who may still announce: of the jobs at work at most one has a filing as new
(`NewOnce`), and what is new to a job has not been told (`TellOnce`). None of it
depends on whether a scan takes itself for the baseline.

**The sums.** `PartsStart` and `PartsStep` say that the sum starts as each part
starts, and that each of its steps is a step of the part or leaves the part's
variables alone; so what is proved of a part holds of the sum.

### Only model-checked

- *Liveness*: `LeaseRecovered`, `TasksProgress`, `FailedSettles`, `Settles`,
  `NoneStarves`, `Answered`. The proof system reasons neither about fairness
  nor about `ENABLED`. `DeliveredOnce` is stated in the same run; its two
  conjuncts are proved of `NotificationQueue` (`SentOnce`, `CountedOnce`).

## 6. Disagreements between the code and what it says

Five runs end in a counterexample on purpose: the property is what a comment or a
design of the repository says, the behaviour is what the code does.

1. **A stale next run** (`CronReloadStale`, property `NoStaleNextRun`).
   `SetNextRunAts` clears the column of disabled tasks so that "the UI must not
   present a stale next-run time as a promise". A run that finishes meanwhile
   reads the schedule, the operator disables the task and the reload clears the
   column, and then the run's second statement writes the old time back.
   Nothing fires: the column is display only.
2. **Two workflows** (`DiscoveryOrphans`, property `OneWorkflow`). The migration
   keeps "the exclusion rule in SQLite ... so API, scheduler and CLI processes
   cannot start overlapping runs" (`database.go:160-163`). The server's start
   closes *every* running row, also the one of a `cmd/discovery-sync` that is
   alive; the next workflow is admitted and both work on the same pointers.
3. **A stale summary** (`CandidateSummaryStale`, property `SeesEarlierWrites`). The
   revision rises after each statement, inside an explicit transaction before
   its commit; a summary built in between holds the old rows under the new
   revision and is served after the commit until it is 15 seconds old.
   `candidate_summary.go:16-18` says that a mutation invalidates after its
   commit. For statements of their own the promise holds, and is proved.
4. **A filing missed in an outage** (`FilingOutage`, property `NothingMissed`).
   `markTargetSync` moves `last_sync_at` after failed refreshes too; what was
   published between the last success and the failure counts as history at the
   next success and is never sent. The design of 2026-06-20 compares with the
   previous *successful* sync.
5. **A poisoned fund index** (`FundIndexPoisoned`, property `NotPoisoned`). A
   temporary failure is to be retried, but the text looked for is not the one
   the client's error has, so a 503 is cached as lasting (`filing.go:1098`).

The properties the second behaviour would break are checked and proved with the
server up or with no command line, so the rest of the component is not excused.

Smaller observations made while reading, without a run of their own:

- An IPO offering whose document was unavailable is stored as `unsupported`, and
  recording it again returns the stored event when the parser is not newer
  (`ipo_radar.go:1660`), so it is retried but never repaired. A scan that fails
  after storing filings never announces those; a whole-row save of a stale row
  loses an offer price stored meanwhile.
- Repairing the same ticker twice fails as a duplicate
  (`market_price_recovery.go:236`), and a failing re-score leaves a draft.
- The financial re-score marks events that arrive during it as done, and scores
  without the business model.
- Publishing A, B and A again returns the old batch without moving the pointer.
- `resumeRetryableBatch` updates without looking at the status it read.
- The coordinator gate is per process: a correction in the server and a market
  sync of the command line may overlap (the hypothesis of `PrescreenMonotone`).
- `runMarketOnly` goes on after publication with a context that may be used up.
- New listings whose enrichment failed are not retried although
  `discovery_sync.go:1521` says so.
- A cleanup between the insertion of a filing and its reading back
  (`filing.go:1209-1233`) makes the refresh return an error, with the candidates
  it had linked before neither announced nor found again; one between reading
  back and linking leaves a link to a row that is gone (there is no foreign key).
- A filing that the cleanup drops before the target's `last_sync_at` has passed it
  is announced again when it is listed again; the unique key of its event is
  what keeps the queue from sending it twice.
- An analysis stores the model its row was queued with, but the provider is looked
  up again before the call (`ai_analysis.go:233`): after a change of the settings
  an answer of one model is kept, and reused, under the name of another.
- In the macro calendar, which is not modelled, a page that comes late is frozen
  under the next release, and overlapping syncs may change published figures;
  in the research ledger a sale may drive a position below zero.

## 7. What is not modelled, and why

- **Contents.** Filings, prices, scores, prompts, texts and report layouts are
  data nothing here depends on. Scoring and the research read models are pure
  functions of published rows over decimals; unit tests reach them better.
- **HTTP API and web interface.** Handlers appear where they start a modelled
  operation; the rest is decoding and queries, and the front end holds no state
  the server relies on.
- **Telegram, SEC, Longbridge, Futu, the file system and SQLite** are outside:
  every answer, failure and loss they can produce is a choice of the model.
  SQLite's own durability is assumed (a committed statement survives a crash).
- **Wall-clock arithmetic** is reduced to "reached or not" except where the day's
  change, an interval or a retention is the subject. A clock set back is not
  modelled.
- **Macro calendar, market trends, configuration and audit** turn fetched or typed
  values into upserted rows under one mutex or in one transaction; **Futu
  credentials** hold one token under a mutex.
- In the modelled parts: the workflow's step timeline, its report and backfills
  after publication; call records and dependency checks of the API monitor; the
  compaction's own run row and file sizes; the re-score of financial data;
  company profiles and options; the decision context of an alert.

Three hazards in `PROJECT.json` have no property, because the code makes no
promise there: a batch that stays `pending` after a crash, an analysis that
stays `running` after one, and the per-process gate.

## 8. Plan
Done: the components of section 2 are modelled and their properties checked, and
every invariant and action property of a passing run is proved, some under the
hypotheses that the table of section 5 names. Next: the macro calendar, the
largest part without a model.

## 9. Running it

```
tlc -workers 2 -config TaskSchedulerRetries.cfg MCTaskScheduler.tla
tlc -workers 2 -config Operations.cfg MCOperations.tla
tlapm OperationsProofs.tla
```

Each configuration names its specification and properties; `runs` in
`PROJECT.json` lists which module it belongs to. The runs take up to four
minutes on two cores. The proofs of `ResearchProofs` and `OperationsProofs` use
those of the component modules; each module takes a few minutes.
