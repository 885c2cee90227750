----------------------------- MODULE FilingSync -----------------------------
(***************************************************************************)
(* The filing sync of watched targets (service/filing.go): a scheduled     *)
(* refresh followed by the recovery of earlier failures, and refreshes     *)
(* asked for over HTTP, which take no lock.  A refresh works on the rows   *)
(* it loaded at its start, stores each filing and its association in       *)
(* separate statements, collects what is new for a target and hands it to  *)
(* the notification queue at its end, one event source after the other.    *)
(* Time is counted in ticks; a filing is published at the start of one.    *)
(***************************************************************************)
EXTENDS Integers, Sequences, FiniteSets

CONSTANTS
    Target, Filing,     \* watched targets; filings, each listed for every target
    WithItems,          \* the filings whose listing has content (SEC items of an 8-K)
    Runner,             \* refreshes that may overlap
    Scheduled,          \* the runner of the scheduled task; the others are manual
    Kinds,              \* the failures SEC answers with
    Cooldown,           \* ticks of terminalTargetFailureCooldown
    RetryLimit,         \* recoverableFailureBatchLimit
    Retention,          \* ticks after which the cleanup drops a filing
    Edits,              \* whether the operator edits targets
    MaxTime, MaxRuns, MaxCrashes    \* bounds: ticks, sync runs, restarts

VARIABLES
    now,
    published,   \* tick at which SEC lists a filing (0: not yet)
    target,      \* watch_targets: status and last_sync_at (0: nil)
    pulled,      \* filings: pulled_at of the row (0: there is none)
    edition,     \* how often a filing was inserted: stands for the id of its row
    linked,      \* watch_target_filings: target and row of a filing
    failures,    \* failed sync_run_details, oldest first
    runs,        \* status of each sync_run
    refresh,     \* what each runner is at
    crashes,
    \* Histories.
    queued,      \* how often a filing was handed over as eligible for a target
    associated,  \* run, target and filing of every new association
    decided,     \* the same of every candidate handed over with a reason
    lost,        \* runs that ended because a filing was gone
    early        \* filings dropped before a target's last_sync_at had passed them
tables == <<published, target, pulled, edition, linked, failures, runs>>
histories == <<queued, associated, decided, lost, early>>
vars == <<now, tables, refresh, crashes, histories>>

Idle == [pc |-> "idle"]
Busy(r) == refresh[r].pc # "idle"
Syncing(r) == refresh[r].pc \notin {"idle", "reported"}
Storing == {"store", "renew", "find", "link"}
Pairs == Target \X Filing
NoPass == [failed |-> {}, deferred |-> {}, checked |-> {}]
NoItem == [filing |-> 0, at |-> 0, edition |-> 0]

Init ==
    /\ now = 1 /\ crashes = 0
    /\ published = [f \in Filing |-> 0]
    /\ target = [t \in Target |-> [enabled |-> TRUE, lastSync |-> 0]]
    /\ pulled = [f \in Filing |-> 0] /\ edition = pulled
    /\ linked = {}
    /\ failures = << >> /\ runs = << >>
    /\ refresh = [r \in Runner |-> Idle]
    /\ queued = [p \in Pairs |-> 0]
    /\ associated = {} /\ decided = {} /\ lost = {} /\ early = {}

(***************************************************************************)
(* The surroundings                                                        *)
(***************************************************************************)
\* SEC lists some filings more.  No refresh lasts longer than a tick, far below the
\* retention.
Tick(F) ==
    /\ now < MaxTime /\ \A f \in F : published[f] = 0
    /\ \A r \in Runner : Busy(r) => refresh[r].since = now
    /\ now' = now + 1
    /\ published' = [f \in Filing |-> IF f \in F THEN now + 1 ELSE published[f]]
    /\ UNCHANGED <<target, pulled, edition, linked, failures, runs, refresh, crashes, histories>>

\* WatchTargetService.SetStatus: a scheduled task under way no longer sees the
\* list it started from.
Disturb(others) ==
    [r \in Runner |-> IF r = Scheduled /\ Busy(r) /\ others THEN [refresh[r] EXCEPT !.alone = FALSE]
                      ELSE refresh[r]]
SetStatus(t) ==
    /\ Edits
    /\ target' = [target EXCEPT ![t].enabled = ~@]
    /\ refresh' = Disturb(TRUE)
    /\ UNCHANGED <<now, published, pulled, edition, linked, failures, runs, crashes, histories>>

\* The rows a refresh has still to compare filings with.
Rows(me) == me.todo \cup (IF me.pc \in Storing THEN {me.row} ELSE {})
\* A sync of the target has passed the filing, and no refresh works on an older row.
Current(t, f) ==
    /\ published[f] <= target[t].lastSync
    /\ \A r \in Runner : Syncing(r) =>
          \A row \in Rows(refresh[r]) : row.id = t => published[f] <= row.previous

\* Cleanup drops old filings with their associations, in one transaction.
Cleanup ==
    LET due == {f \in Filing : pulled[f] # 0 /\ pulled[f] + Retention <= now} IN
    /\ due # {}
    /\ pulled' = [f \in Filing |-> IF f \in due THEN 0 ELSE pulled[f]]
    /\ linked' = {l \in linked : l[2] \in due => l[3] # edition[l[2]]}
    /\ early' = early \cup {p \in Pairs : p[2] \in due /\ ~ Current(p[1], p[2])}
    /\ UNCHANGED <<now, published, target, edition, failures, runs, refresh, crashes,
                   queued, associated, decided, lost>>

\* The process stops: rows that say "running" stay as they are.
Crash ==
    /\ crashes < MaxCrashes /\ \E r \in Runner : Busy(r)
    /\ crashes' = crashes + 1
    /\ refresh' = [r \in Runner |-> Idle]
    /\ UNCHANGED <<now, tables, histories>>

(***************************************************************************)
(* refreshTargets                                                          *)
(***************************************************************************)
\* The rows a refresh goes through, with the last_sync_at it will compare with.
Loaded(S) == {[id |-> t, previous |-> target[t].lastSync] : t \in S}
Begin(r, trigger, S, earlier) ==
    /\ runs' = Append(runs, "running")
    /\ refresh' = [Disturb(r # Scheduled) EXCEPT ![r] =
           [pc |-> "settings", trigger |-> trigger, run |-> Len(runs) + 1, since |-> now,
            row |-> [id |-> 0, previous |-> 0], todo |-> Loaded(S), items |-> {}, item |-> NoItem,
            found |-> {}, failed |-> {}, deferred |-> {}, checked |-> S,
            earlier |-> [failed |-> earlier.failed, deferred |-> earlier.deferred],
            alone |-> IF r = Scheduled /\ Busy(r) THEN refresh[r].alone
                      ELSE \A other \in Runner : ~Busy(other)]]

Enabled == {t \in Target : target[t].enabled}

\* RefreshWithTrigger takes the enabled targets, RefreshTarget one.
Start(r) ==
    /\ ~Busy(r) /\ Len(runs) < MaxRuns
    /\ \/ r = Scheduled /\ Begin(r, "scheduler", Enabled, NoPass)
       \/ r # Scheduled /\ \E S \in {Enabled} \cup {{t} : t \in Target} : Begin(r, "manual", S, NoPass)
    /\ UNCHANGED <<now, published, target, pulled, edition, linked, failures, crashes, histories>>

\* finishSyncRun
EndRun(r, status, then) ==
    /\ runs' = [runs EXCEPT ![refresh[r].run] = status]
    /\ refresh' = [refresh EXCEPT ![r] = then]
\* The settings are read; a failure ends the run and the task.
ReadSettings(r) ==
    /\ refresh[r].pc = "settings"
    /\ \/ refresh' = [refresh EXCEPT ![r].pc = "next"] /\ UNCHANGED runs
       \/ EndRun(r, "failed", Idle)
    /\ UNCHANGED <<now, published, target, pulled, edition, linked, failures, crashes, histories>>

\* shouldDeferTerminalTargetFailure: the latest terminal failure counts, whatever
\* happened to the target since.
Terminal(t) == {i \in DOMAIN failures : failures[i].target = t /\ failures[i].terminal}
InCooldown(t) ==
    \E i \in Terminal(t) : /\ \A j \in Terminal(t) : j <= i
                           /\ now - failures[i].at < Cooldown
Row(r) == CHOOSE row \in refresh[r].todo : \A other \in refresh[r].todo : row.id <= other.id
Deferred(r, row) == refresh[r].trigger = "scheduler" /\ InCooldown(row.id)

Working(r) == refresh[r].pc = "next" /\ refresh[r].todo # {}

\* markTargetSync
MarkTargetSync(t) == target' = [target EXCEPT ![t].lastSync = now]

Defer(r) ==
    /\ Working(r) /\ Deferred(r, Row(r))
    /\ MarkTargetSync(Row(r).id)
    /\ refresh' = [refresh EXCEPT ![r].todo = @ \ {Row(r)}, ![r].deferred = @ \cup {Row(r).id}]
    /\ UNCHANGED <<now, published, pulled, edition, linked, failures, runs, crashes, histories>>
\* The look at the earlier failures fails, which ends the run.
DeferFails(r) ==
    /\ Working(r) /\ refresh[r].trigger = "scheduler" /\ crashes < MaxCrashes
    /\ crashes' = crashes + 1
    /\ EndRun(r, "failed", Idle)
    /\ UNCHANGED <<now, published, target, pulled, edition, linked, failures, histories>>

\* classifyTargetFailure, by what SEC answers: when a retry is due.
Failure(t, kind) ==
    [target |-> t, at |-> now, terminal |-> kind = "not_found",
     retryable |-> kind \in {"upstream", "rate_limited"},
     next |-> IF kind = "rate_limited" THEN now + 1 ELSE now]

\* The answer is a failure: markTargetSync and finishSyncRunDetailFailure.
Fail(r) ==
    /\ Working(r) /\ ~Deferred(r, Row(r))
    /\ MarkTargetSync(Row(r).id)
    /\ \E kind \in Kinds : failures' = Append(failures, Failure(Row(r).id, kind))
    /\ refresh' = [refresh EXCEPT ![r].todo = @ \ {Row(r)}, ![r].failed = @ \cup {Row(r).id}]
    /\ UNCHANGED <<now, published, pulled, edition, linked, runs, crashes, histories>>

\* The answer is a list of filings.
List(r) ==
    /\ Working(r) /\ ~Deferred(r, Row(r))
    /\ refresh' = [refresh EXCEPT ![r].pc = "store", ![r].row = Row(r), ![r].todo = @ \ {Row(r)},
                                  ![r].items = {f \in Filing : published[f] # 0}]
    /\ UNCHANGED <<now, tables, crashes, histories>>

\* filingNotificationReason, by the last_sync_at loaded at the start.
Reason(f, previous) ==
    IF previous = 0 THEN "initial_sync"
    ELSE IF published[f] <= previous THEN "history_backfill"
    ELSE "eligible"

(***************************************************************************)
(* createFilingAndAssociate: for each listed filing up to four statements, *)
(* without a transaction around them.                                      *)
(***************************************************************************)
\* INSERT ... ON CONFLICT DO NOTHING of the filing.
Insert(r) ==
    /\ refresh[r].pc = "store"
    /\ \E f \in refresh[r].items :
          /\ refresh' = [refresh EXCEPT ![r].items = @ \ {f},
                 ![r].item = [filing |-> f, at |-> now, edition |-> 0],
                 ![r].pc = IF pulled[f] # 0 /\ f \in WithItems THEN "renew" ELSE "find"]
          /\ \/ pulled[f] # 0 /\ UNCHANGED <<pulled, edition>>
             \/ /\ pulled[f] = 0
                /\ pulled' = [pulled EXCEPT ![f] = now]
                /\ edition' = [edition EXCEPT ![f] = @ + 1]
    /\ UNCHANGED <<now, published, target, linked, failures, runs, crashes, histories>>

\* Content found again renews the row, pulled_at included, if it is still there.
Renew(r) ==
    LET item == refresh[r].item IN
    /\ refresh[r].pc = "renew"
    /\ pulled' = [pulled EXCEPT ![item.filing] = IF @ = 0 THEN 0 ELSE item.at]
    /\ refresh' = [refresh EXCEPT ![r].pc = "find"]
    /\ UNCHANGED <<now, published, target, edition, linked, failures, runs, crashes, histories>>

\* The row is read back for its id.
Find(r) ==
    LET f == refresh[r].item.filing IN
    /\ refresh[r].pc = "find" /\ pulled[f] # 0
    /\ refresh' = [refresh EXCEPT ![r].pc = "link", ![r].item.edition = edition[f]]
    /\ UNCHANGED <<now, tables, crashes, histories>>

\* An error of one of the statements: the refresh returns, its run stays "running",
\* and the candidates it holds are never handed over.
Abandon(r) ==
    /\ failures' = Append(failures, Failure(refresh[r].row.id, "unknown"))
    /\ refresh' = [refresh EXCEPT ![r] = Idle]
\* The cleanup dropped the row since: not found is an error like any other.
Lose(r) ==
    /\ refresh[r].pc = "find" /\ pulled[refresh[r].item.filing] = 0
    /\ lost' = lost \cup {refresh[r].run}
    /\ Abandon(r)
    /\ UNCHANGED <<now, published, target, pulled, edition, linked, runs, crashes,
                   queued, associated, decided, early>>
StoreFails(r) ==
    /\ refresh[r].pc \in Storing /\ (refresh[r].pc = "store" => refresh[r].items # {})
    /\ crashes < MaxCrashes
    /\ crashes' = crashes + 1
    /\ Abandon(r)
    /\ UNCHANGED <<now, published, target, pulled, edition, linked, runs, histories>>

\* INSERT ... ON CONFLICT DO NOTHING of the association, whether or not the row is
\* still there: what was not linked becomes a candidate.
Link(r) ==
    LET me == refresh[r] t == me.row.id f == me.item.filing
        new == <<t, f, me.item.edition>> \notin linked
    IN
    /\ me.pc = "link"
    /\ linked' = linked \cup {<<t, f, me.item.edition>>}
    /\ associated' = IF new THEN associated \cup {<<me.run, t, f>>} ELSE associated
    /\ refresh' = [refresh EXCEPT ![r].pc = "store", ![r].item = NoItem,
           ![r].found = IF new THEN @ \cup {<<t, f, Reason(f, me.row.previous)>>} ELSE @]
    /\ UNCHANGED <<now, published, target, pulled, edition, failures, runs, crashes,
                   queued, decided, lost, early>>

\* resolvePriorRetryableFailures
Resolved(t) ==
    [i \in DOMAIN failures |-> IF failures[i].target = t
                               THEN [failures[i] EXCEPT !.retryable = FALSE] ELSE failures[i]]

\* markTargetSync("success"), finishSyncRunDetail, and the retry queue of the target.
Succeed(r) ==
    LET t == refresh[r].row.id IN
    /\ refresh[r].pc = "store" /\ refresh[r].items = {}
    /\ MarkTargetSync(t)
    /\ failures' = Resolved(t)
    /\ refresh' = [refresh EXCEPT ![r].pc = "next"]
    /\ UNCHANGED <<now, published, pulled, edition, linked, runs, crashes, histories>>

\* The candidates go to the queue in one batch per event source, which the filing
\* decides; each batch is stored whole or not at all.
Batches(r) == {{c \in refresh[r].found : c[2] \in F} : F \in SUBSET Filing}
HandOver(r, S) ==
    /\ queued' = [p \in Pairs |-> queued[p] + IF <<p[1], p[2], "eligible">> \in S THEN 1 ELSE 0]
    /\ decided' = decided \cup {<<refresh[r].run, c[1], c[2]>> : c \in S}
    /\ UNCHANGED <<associated, lost, early>>
RunStatus(r) ==
    IF refresh[r].failed \cup refresh[r].deferred = {} THEN "success" ELSE "partial"
Delivering(r) == refresh[r].pc = "next" /\ refresh[r].todo = {}

Deliver(r) ==
    /\ Delivering(r)
    /\ \E S \in Batches(r) \ {{}} :
          HandOver(r, S) /\ refresh' = [refresh EXCEPT ![r].found = @ \ S]
    /\ UNCHANGED <<now, tables, crashes>>
\* An error, before or after the batch was stored, ends the run.
DeliverFails(r) ==
    /\ Delivering(r) /\ refresh[r].found # {} /\ crashes < MaxCrashes
    /\ \E S \in Batches(r) : HandOver(r, S)
    /\ crashes' = crashes + 1
    /\ EndRun(r, "failed", Idle)
    /\ UNCHANGED <<now, published, target, pulled, edition, linked, failures>>
Conclude(r) ==
    /\ Delivering(r) /\ refresh[r].found = {}
    /\ EndRun(r, RunStatus(r), [refresh[r] EXCEPT !.pc = "done"])
    /\ UNCHANGED <<now, published, target, pulled, edition, linked, failures, crashes, histories>>

(***************************************************************************)
(* The scheduled task                                                      *)
(***************************************************************************)
\* RetryRecoverableFailures: the targets of the oldest due failures, up to the
\* limit, and of these the enabled ones.
Due == {i \in DOMAIN failures : failures[i].retryable /\ failures[i].next <= now}
First(t) == {i \in Due : failures[i].target = t /\ \A j \in Due : failures[j].target = t => i <= j}
Recoverable ==
    LET firsts == UNION {First(t) : t \in Target}
        oldest == {i \in firsts : Cardinality({j \in firsts : j < i}) < RetryLimit}
    IN {t \in {failures[i].target : i \in oldest} : target[t].enabled}

\* A slip that forgets the targets in their cooldown.
Unresolved_Slip(first, again) ==
    Cardinality(first.failed) - Cardinality(again.checked) + Cardinality(again.failed)
\* runTask reports how many targets are unresolved after the two passes.
Unresolved(first, again) ==
    Cardinality(first.failed) - Cardinality(again.checked) + Cardinality(again.failed)
      + Cardinality(first.deferred)
Report(r, first, again) ==
    refresh' = [refresh EXCEPT ![r] =
        [pc |-> "reported", since |-> refresh[r].since, alone |-> refresh[r].alone,
         unresolved |-> Unresolved(first, again),
         left |-> ((first.failed \cup first.deferred) \ again.checked) \cup again.failed]]

Finish(r) ==
    LET me == refresh[r] recover == me.trigger = "scheduler" /\ Recoverable # {} IN
    /\ me.pc = "done"
    /\ \/ /\ r # Scheduled
          /\ refresh' = [refresh EXCEPT ![r] = Idle] /\ UNCHANGED runs
       \/ r = Scheduled /\ recover /\ Begin(r, "recovery", Recoverable, me)
       \/ r = Scheduled /\ me.trigger = "scheduler" /\ ~recover /\ Report(r, me, NoPass) /\ UNCHANGED runs
       \/ me.trigger = "recovery" /\ Report(r, me.earlier, me) /\ UNCHANGED runs
    /\ UNCHANGED <<now, published, target, pulled, edition, linked, failures, crashes, histories>>
Rest(r) ==
    /\ refresh[r].pc = "reported"
    /\ refresh' = [refresh EXCEPT ![r] = Idle]
    /\ UNCHANGED <<now, tables, crashes, histories>>

Next ==
    \/ \E F \in SUBSET Filing : Tick(F)
    \/ \E t \in Target : SetStatus(t)
    \/ Cleanup \/ Crash
    \/ \E r \in Runner : \/ Start(r) \/ ReadSettings(r)
                         \/ Defer(r) \/ DeferFails(r) \/ Fail(r) \/ List(r)
                         \/ Insert(r) \/ Renew(r) \/ Find(r) \/ Link(r)
                         \/ Lose(r) \/ StoreFails(r) \/ Succeed(r)
                         \/ Deliver(r) \/ DeliverFails(r) \/ Conclude(r) \/ Finish(r) \/ Rest(r)

Spec == Init /\ [][Next]_vars

-----------------------------------------------------------------------------
(* Properties                                                              *)

\* Times lie in the past, an association is to a row that was there once, a recovery
\* is the scheduled task's.
TypeOK ==
    /\ now \in 1..MaxTime
    /\ published \in [Filing -> 0..MaxTime] /\ pulled \in [Filing -> 0..now]
    /\ target \in [Target -> [enabled : BOOLEAN, lastSync : 0..now]]
    /\ \A f \in Filing : edition[f] \in Nat /\ (pulled[f] # 0 => edition[f] # 0)
    /\ \A l \in linked : l[1] \in Target /\ l[2] \in Filing /\ l[3] \in 1..edition[l[2]]
    /\ \A i \in DOMAIN runs : runs[i] \in {"running", "success", "partial", "failed"}
    /\ \A r \in Runner : Syncing(r) =>
                                    /\ refresh[r].since \in {now - 1, now}
                                    /\ refresh[r].trigger = "recovery" => r = Scheduled
                                    /\ refresh[r].todo # {} => runs[refresh[r].run] = "running"

\* A filing is sent as news of a target at most once: overlapping refreshes, cleanups
\* between their statements, the recovery of failures, and listings after the cleanup
\* included, unless the cleanup dropped the filing before the target's last_sync_at had
\* passed it (createFilingAndAssociate, filingNotificationReason).
AnnouncedOnce == \A p \in Pairs \ early : queued[p] <= 1

\* What a run newly associated was handed to the queue with a reason if the run ended
\* well; if it did not, a refresh still holds it, a statement or the process failed, or
\* the cleanup took a filing from under the run (refreshTargets).
Held(a) ==
    \E r \in Runner : /\ Syncing(r) /\ refresh[r].run = a[1]
                      /\ \E c \in refresh[r].found : c[1] = a[2] /\ c[2] = a[3]
NothingDropped ==
    \A a \in associated :
        /\ runs[a[1]] \in {"success", "partial"} => a \in decided
        /\ a \in decided \/ Held(a) \/ a[1] \in lost \/ crashes > 0

\* The number of unresolved targets a scheduled task reports is that of the
\* targets it neither synced nor recovered, as long as nothing else refreshed or
\* edited targets meanwhile (scheduler.go, runTask).
UnresolvedExact ==
    \A r \in Runner : refresh[r].pc = "reported" /\ refresh[r].alone =>
        refresh[r].unresolved = Cardinality(refresh[r].left)
=============================================================================
