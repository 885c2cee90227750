----------------------------- MODULE MCResearch -----------------------------
(***************************************************************************)
(* What comes in and what is asked of it, side by side: the provider's     *)
(* daily allowance, the pacer, what a refresh stores, downloads, the       *)
(* cached candidate summary, the AI analyses; the filing sync with two     *)
(* filings and overlapping refreshes ("news"), with a fault ("crash") and  *)
(* with two targets that fail ("recovery"), and the cached index of a      *)
(* trust's filing ("index"); and the IPO radar, one issuer's listing       *)
(* ("listing") and its filings and offerings ("filings").  The components  *)
(* share no state, so a behaviour is one of the part named by "part".      *)
(***************************************************************************)
EXTENDS Naturals, Sequences, FiniteSets

CONSTANTS
    server, cli, c1, c2, c3, lock1, lock2, path, score, filing, facts, model1, model2,
    f1, f2, scheduler, manual, Nobody, Off,
    Process, Client, Home, Budgets, Intervals, DayLength, BudgetEnd, Deaths,  \* APIBudget
    Requester, Interval, MaxDelay, PacerEnd,                    \* the pacer (RequestPacer)
    Refresher, Content, NoCoverage, LastDay,                    \* what is stored (ResearchSnapshots)
    Reader, Writer, Lifetime, MaxWrites,                        \* the summary (CandidateSummary)
    Class, Sync, Reply, MaxRetries, TransientAfter, IncompleteAfter, IndexEnd,   \* FundIndex
    Forms, Documents, Ticker, MaxJobs, MaxChanges, MaxBreaks    \* the radar (IPORadar)

VARIABLES
    part,
    clock, policy, module, mu, next, call, crashes, dispatched, newest,
    now, nextRequestAt, waiting, granted, calm,
    family, day, store, receipt, refresher,
    locks, object, download, file, temp, edition, restarts,
    version, returned, revision, cache, building, reader, writer, plain,
    asking, provider, rows, job, calls, answered, stops,
    hour, published, target, pulled, inserted, linked, failures, runs, refresh, outages,
    queued, associated, decided, lost, early,
    minute, index, row, sync,
    accepted, entry, filings, offering, issuer, follow, withdrawn, radar, told, heard, evidence,
    starts, changes, breaks

\* A registration and two offerings, of different terms.
TwoOfferings == <<"registration", "priced", "priced">>
TheirTerms == [f \in {2, 3} |-> [terms |-> f, followOn |-> FALSE]]

budgetVars == <<clock, policy, module, mu, next, call, crashes, dispatched, newest>>
pacerVars == <<now, nextRequestAt, waiting, granted, calm>>
snapshotVars == <<family, day, store, receipt, refresher>>
downloadVars == <<locks, object, download, file, temp, edition, restarts>>
summaryVars == <<version, returned, revision, cache, building, reader, writer, plain>>
analysisVars == <<asking, provider, rows, job, calls, answered, stops>>
filingVars == <<hour, published, target, pulled, inserted, linked, failures, runs, refresh,
                outages, queued, associated, decided, lost, early>>
indexVars == <<minute, index, row, sync>>
radarVars == <<accepted, entry, filings, offering, issuer, follow, withdrawn, radar, told, heard,
               evidence, starts, changes, breaks>>

\* One caller of the server, and one of the command-line sync.
Homes == [c \in {c1, c3} |-> IF c = c3 THEN cli ELSE server]
Budget == INSTANCE APIBudget WITH Caller <- Client, MaxTime <- BudgetEnd, MaxCrashes <- Deaths

Pacer == INSTANCE RequestPacer WITH
    Caller <- Requester, MaxTime <- PacerEnd, caller <- waiting

Snapshots == INSTANCE ResearchSnapshots WITH MaxTime <- LastDay, now <- day

Downloads == INSTANCE DownloadCacheProofs WITH
    Caller <- {c1, c2, c3}, Path <- {path}, Lock <- {lock1, lock2}, None <- Nobody, MaxEdition <- 2,
    MaxCrashes <- 1, caller <- download, crashes <- restarts

Summary == INSTANCE CandidateSummary WITH lock <- building

Analysis == INSTANCE AIAnalysisProofs WITH
    Caller <- {c1, c2}, Subject <- {score, filing}, Filing <- {filing}, Facts <- {facts},
    Model <- {model1, model2}, MaxAttempts <- 2, MaxRows <- 2, MaxCrashes <- 1, Faults <- TRUE,
    caller <- asking, crashes <- stops

\* A filing is listed again after the cleanup, beside a new one, by three refreshes.
News == INSTANCE FilingSyncProofs WITH
    Target <- {1}, Filing <- {f1, f2}, WithItems <- {f2},
    Runner <- {scheduler, manual}, Scheduled <- scheduler,
    Kinds <- {"upstream"}, Cooldown <- 2, RetryLimit <- 1, Retention <- 3, Edits <- FALSE,
    MaxTime <- 5, MaxRuns <- 3, MaxCrashes <- 0,
    now <- hour, edition <- inserted, crashes <- outages

\* The old filing has content, which renews it; one statement or the process fails.
Crashes == INSTANCE FilingSyncProofs WITH
    Target <- {1}, Filing <- {f1, f2}, WithItems <- {f1},
    Runner <- {scheduler, manual}, Scheduled <- scheduler,
    Kinds <- {"upstream"}, Cooldown <- 2, RetryLimit <- 1, Retention <- 3, Edits <- FALSE,
    MaxTime <- 5, MaxRuns <- 2, MaxCrashes <- 1,
    now <- hour, edition <- inserted, crashes <- outages

\* Of two targets that fail, a recovery takes one.
Recovery == INSTANCE FilingSyncProofs WITH
    Target <- {1, 2}, Filing <- {}, WithItems <- {}, Runner <- {scheduler}, Scheduled <- scheduler,
    Kinds <- {"upstream", "not_found"}, Cooldown <- 2, RetryLimit <- 1,
    Retention <- 3, Edits <- TRUE, MaxTime <- 2, MaxRuns <- 2, MaxCrashes <- 0,
    now <- hour, edition <- inserted, crashes <- outages

Index == INSTANCE FundIndex WITH Answer <- Reply, MaxTime <- IndexEnd, now <- minute

\* One issuer: who confirms its listing while the tickers change, beside an
\* operator's refresh; and a scheduled scan and a refresh with two offerings.
Radar == INSTANCE IPORadar WITH
    Form <- Forms, Document <- Documents, Runner <- {"scheduler", "listings", "request"},
    None <- Nobody, MaxStarts <- MaxJobs, MaxStops <- MaxBreaks,
    published <- accepted, listing <- entry, stored <- filings, event <- offering, row <- issuer,
    run <- radar, stops <- breaks

Init ==
    /\ part \in {"budget", "pacer", "snapshots", "downloads", "summary", "analysis",
                "news", "crash", "recovery", "index", "listing", "filings"}
    /\ Budget!Init /\ Pacer!Init /\ Snapshots!Init /\ Downloads!Init /\ Summary!Init
    /\ Analysis!Init /\ Index!Init
    /\ Radar!Init
    /\ IF part = "recovery" THEN Recovery!Init ELSE News!Init
    /\ provider = model1
    \* One initial state for the parts that stand still.
    /\ part # "budget" => policy.budget = 0 /\ policy.interval = 1
    /\ part # "snapshots" => family = "eps"
    /\ part # "index" => sync = [s \in Sync |-> Index!Result(CHOOSE c \in Class : TRUE, "none", "none", 0)]

Syncs == {"news", "crash", "recovery"}

\* Only the variables of part p change.
Only(p) ==
    /\ part = p /\ UNCHANGED part
    /\ IF p = "budget" THEN TRUE ELSE UNCHANGED budgetVars
    /\ IF p = "pacer" THEN TRUE ELSE UNCHANGED pacerVars
    /\ IF p = "snapshots" THEN TRUE ELSE UNCHANGED snapshotVars
    /\ IF p = "downloads" THEN TRUE ELSE UNCHANGED downloadVars
    /\ IF p = "summary" THEN TRUE ELSE UNCHANGED summaryVars
    /\ IF p = "analysis" THEN TRUE ELSE UNCHANGED analysisVars
    /\ IF p \in Syncs THEN TRUE ELSE UNCHANGED filingVars
    /\ IF p = "index" THEN TRUE ELSE UNCHANGED indexVars
    /\ IF p \in {"listing", "filings"} THEN TRUE ELSE UNCHANGED radarVars

OnFiling ==
    /\ \A r \in DOMAIN rows : rows[r].subject = filing
    /\ asking[c1] = Analysis!Idle \/ asking[c1].subject = filing
    /\ asking[c2] = Analysis!Idle
OneModel ==
    /\ provider # model2
    /\ \A r \in DOMAIN rows : rows[r].model # model2 /\ job[r].model # model2
    /\ \A c \in {c1, c2} : asking[c] = Analysis!Idle \/ asking[c].model # model2

\* A scan may find the radar's table empty; an operator's refresh follows a first scan.
Reads(r) == radar'[r] # Radar!Idle /\ radar'[r].baseline => r = "scheduler"

\* A filing comes at the second tick, perhaps after a first sync of the target, another
\* at the last one, when the first may be cleaned up.
Arrivals ==
    /\ published'[f1] = (IF hour' < 2 THEN 0 ELSE 2)
    /\ published'[f2] = (IF hour' < 5 THEN 0 ELSE 5)

Next ==
    \/ Only("budget") /\ Budget!Next
    \/ Only("pacer") /\ Pacer!Next
    \/ Only("snapshots") /\ Snapshots!Next
    \/ Only("downloads") /\ Downloads!Next
    \/ Only("summary") /\ Summary!Next
    \* Two subjects and requests at a time, or two models.
    \/ Only("analysis") /\ Analysis!Next /\ (OneModel \/ OnFiling)'
    \* One or two refreshes before the fourth tick, the first one early.
    \/ Only("news") /\ News!Next /\ Arrivals /\ Len(failures') <= 1
       /\ (hour' = 3 => runs # << >>) /\ (hour < 4 => Len(runs') <= 2)
    \/ Only("crash") /\ Crashes!Next /\ Arrivals
    \/ Only("recovery") /\ Recovery!Next
    \/ Only("index") /\ Index!Next
    \/ Only("listing") /\ Radar!Next /\ accepted' = accepted
       /\ radar'["scheduler"] = radar["scheduler"] /\ Reads("request")
    \* Nobody gives the issuer a ticker; SEC accepts a filing between two jobs.
    \/ Only("filings") /\ Radar!Next /\ changes' = changes
       /\ radar'["listings"] = radar["listings"]
       /\ \A r \in {"scheduler", "request"} :
             /\ radar'[r] = Radar!Idle \/ radar'[r].entry.ticker = Nobody
             /\ accepted' = accepted \/ radar[r] = Radar!Idle
             /\ Reads(r)

Spec == Init /\ [][Next]_<<part, budgetVars, pacerVars, snapshotVars, downloadVars,
                           summaryVars, analysisVars, filingVars, indexVars, radarVars>>

-----------------------------------------------------------------------------
(* What each part keeps; the conjuncts are defined in its module.          *)

\* The stored counter is exact, and over both processes the daily budget and the
\* pace hold.
BudgetKept ==
    /\ [](part = "budget" => Budget!TypeOK /\ Budget!UsedExact)
    /\ Budget!BudgetKept /\ Budget!Paced

\* No slot is used before a cooldown announced earlier is over.
CooldownKept == [](part = "pacer" => Pacer!TypeOK) /\ Pacer!Paced

\* Overlapping refreshes store an answer once, and the receipt never goes back.
SnapshotsKept ==
    /\ [](part = "snapshots" => Snapshots!TypeOK /\ Snapshots!ContentOnce)
    /\ Snapshots!ReceiptForward

\* One download per path at a time, and what it returns is what the file holds.
DownloadsKept == part = "downloads" => Downloads!OnePerPath /\ Downloads!ResultIsFile

\* A cached summary is not older than a statement that ended before it was asked for.
SeesEarlierStatements == part = "summary" => Summary!SeesEarlierStatements

\* One live analysis per question, judgements only from genuine answers about the
\* same facts, and a bounded number of calls.
AnalysisKept ==
    part = "analysis" =>
        Analysis!TypeOK /\ Analysis!OneActive /\ Analysis!JudgementIsGenuine /\ Analysis!CallsBounded

\* A filing is announced once for a target, unless dropped too early; a run that ended
\* well decided on all it associated, and one that did not dropped something only by a
\* failure or a filing that was gone; the task reports as many unresolved targets as it
\* left; a trust's filing is taken for a fund only if SEC lists its class.
FilingsKept ==
    /\ part = "news" => News!TypeOK /\ News!AnnouncedOnce /\ News!NothingDropped
    /\ part = "crash" => Crashes!TypeOK /\ Crashes!AnnouncedOnce /\ Crashes!NothingDropped
    /\ part = "recovery" => Recovery!TypeOK /\ Recovery!UnresolvedExact
    /\ part = "index" => Index!TypeOK /\ Index!MatchedIsListed

\* A listed issuer is shown under a ticker confirmed with its market, whatever the
\* jobs overwrite; filings, offerings and progress are announced once, one offering
\* is the initial one, and what is recorded as told was told.
RadarKept ==
    part \in {"listing", "filings"} =>
        /\ Radar!TypeOK /\ Radar!ListedOnEvidence /\ Radar!ToldOnce /\ Radar!OneInitial
        /\ Radar!ProgressTold
=============================================================================
