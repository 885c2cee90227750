----------------------------- MODULE FundIndex ------------------------------
(***************************************************************************)
(* Filings of a trust belong to many funds.  The filing sync takes one for *)
(* a watched fund only if SEC's index of the filing names its class        *)
(* (service/filing.go, filterFundFilings), reads each index through the    *)
(* paced and retrying client (sec/client.go, sec/fund_identity.go) and     *)
(* caches what it read, failures included, by accession number.  Two       *)
(* syncs may work on the same filing.                                      *)
(***************************************************************************)
EXTENDS Naturals

CONSTANTS
    Class,            \* the classes (with their series) that may be watched
    Sync,             \* syncs that may overlap
    Answer,           \* what SEC answers a request with
    MaxRetries,       \* RequestPolicy.MaxRetries
    TransientAfter,   \* ticks of fundFilingIdentityTransientRetryAfter
    IncompleteAfter,  \* ticks of fundFilingIdentityIncompleteRetryAfter
    MaxTime           \* bound

VARIABLES
    now,
    index,   \* the classes SEC's index of the filing names so far
    row,     \* fund_filing_identities
    sync     \* what each sync is at, or its last result
vars == <<now, index, row, sync>>

NoRow == [status |-> "none", classes |-> {}, cause |-> "none", at |-> 0]
Result(class, verdict, cause, age) ==
    [pc |-> "idle", class |-> class, force |-> FALSE,
     verdict |-> verdict, cause |-> cause, age |-> age, read |-> {}]

Init ==
    /\ now = 1
    /\ index = {}
    /\ row = NoRow
    /\ \E c \in Class : sync = [s \in Sync |-> Result(c, "none", "none", 0)]

Tick == now < MaxTime /\ now' = now + 1 /\ UNCHANGED <<index, row, sync>>
\* SEC completes the index.
Amend(c) == index' = index \cup {c} /\ c \notin index /\ UNCHANGED <<now, row, sync>>

(***************************************************************************)
(* HTTPClient.do                                                           *)
(***************************************************************************)
\* Answers that are worth another attempt (retryableStatus, retryableRequestError).
RetryableStatus == {"408", "429", "502", "503", "504"}
Retryable == RetryableStatus \cup {"timeout"}
\* Answers that say nothing about the filing.
Temporary == Retryable \cup {"500", "reset"}

\* The attempts end with the first answer that is not retryable, or the last.
Do(script) ==
    LET final == {i \in DOMAIN script : i = MaxRetries + 1 \/ script[i] \notin Retryable}
    IN script[CHOOSE i \in final : \A j \in final : i <= j]

\* fundFilingMetadataFailureIsTransient reads the error's text: a RequestError
\* names a status as "rate limited" or "HTTP 503", which it does not look for.
ReadsAsTransient(cause) == cause \notin RetryableStatus /\ cause \in Temporary

(***************************************************************************)
(* filterFundFilings for one filing                                        *)
(***************************************************************************)
\* A slip that takes the trust's filings for each of its funds.
Match_Slip(class, classes) == IF classes # {} THEN "matched" ELSE "unmatched"
\* matchFundFilingRelationships
Match(class, classes) == IF class \in classes THEN "matched" ELSE "unmatched"

\* cachedFundFilingMatch: the verdict of the cached row, or "miss".
Younger(ticks) == row.at + ticks > now
Cached(class, force) ==
    IF row.status = "none" THEN "miss"
    ELSE IF row.classes # {} THEN IF row.status = "parsed" THEN Match(class, row.classes) ELSE "error"
    ELSE IF row.cause = "incomplete" THEN IF Younger(IncompleteAfter) THEN "unmatched" ELSE "miss"
    ELSE IF ReadsAsTransient(row.cause) /\ (force \/ ~Younger(TransientAfter)) THEN "miss"
    ELSE "error"

\* RefreshTarget forces the retry of a transient failure.
Lookup(s, class, force) ==
    /\ sync[s].pc = "idle"
    /\ LET verdict == Cached(class, force) IN
       sync' = [sync EXCEPT ![s] =
           IF verdict = "miss" THEN [Result(class, "none", "none", 0) EXCEPT !.pc = "fetch", !.force = force]
           ELSE Result(class, verdict, row.cause, now - row.at)]
    /\ UNCHANGED <<now, index, row>>

\* ParseFundFiling
Fetch(s) ==
    /\ sync[s].pc = "fetch"
    /\ \E script \in [1..(MaxRetries + 1) -> Answer] :
          sync' = [sync EXCEPT ![s].pc = "store", ![s].cause = Do(script),
                               ![s].read = IF Do(script) = "ok" THEN index ELSE {}]
    /\ UNCHANGED <<now, index, row>>

\* storeFundFilingParseFailure leaves the relationships of an existing row alone.
StoreFailure(cause) == row' = [row EXCEPT !.status = "failed", !.cause = cause, !.at = now]
\* storeFundFilingMetadata
StoreMetadata(classes) == row' = [status |-> "parsed", classes |-> classes, cause |-> "none", at |-> now]

Store(s) ==
    LET me == sync[s] IN
    /\ me.pc = "store"
    /\ \/ /\ me.cause # "ok" /\ StoreFailure(me.cause)
          /\ sync' = [sync EXCEPT ![s] = Result(me.class, "error", me.cause, 0)]
       \/ /\ me.cause = "ok" /\ me.read = {} /\ StoreFailure("incomplete")
          /\ sync' = [sync EXCEPT ![s] = Result(me.class, "unmatched", "incomplete", 0)]
       \/ /\ me.cause = "ok" /\ me.read # {} /\ StoreMetadata(me.read)
          /\ sync' = [sync EXCEPT ![s] = Result(me.class, Match(me.class, me.read), "none", 0)]
    /\ UNCHANGED <<now, index>>

Next ==
    \/ Tick \/ \E c \in Class : Amend(c)
    \/ \E s \in Sync : \/ \E c \in Class, force \in BOOLEAN : Lookup(s, c, force)
                       \/ Fetch(s) \/ Store(s)

Spec == Init /\ [][Next]_vars

-----------------------------------------------------------------------------
TypeOK ==
    /\ now \in 1..MaxTime /\ index \subseteq Class
    /\ row.status \in {"none", "failed", "parsed"} /\ row.classes \subseteq index
    /\ \A s \in Sync : sync[s].verdict \in {"none", "matched", "unmatched", "error"}

\* Exact fund identity fails closed: a filing is taken for a fund only if SEC's
\* index names its class, whatever was cached for another fund of the trust.
MatchedIsListed == \A s \in Sync : sync[s].verdict = "matched" => sync[s].class \in index

\* "A failed SEC index request must not poison the identity cache forever"
\* (filing.go:79): after the short cooldown no temporary failure is answered from
\* the cache.
NotPoisoned ==
    \A s \in Sync : sync[s].verdict = "error" /\ sync[s].cause \in Temporary =>
        sync[s].age < TransientAfter
=============================================================================
