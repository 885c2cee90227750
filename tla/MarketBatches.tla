---------------------------- MODULE MarketBatches ----------------------------
(***************************************************************************)
(* The market batches of one security universe (discovery/universe.go,     *)
(* market_price_recovery.go, market_repair_retention.go): the daily sync   *)
(* prices every security from the provider and, for what it left out, from *)
(* the stored closes; the operator repairs the price of one security in a  *)
(* copy of the current batch; the cleanup deletes copies that were         *)
(* superseded.  Sync and repair hold the gate of the process.              *)
(*                                                                         *)
(* A row of a batch is the trading day of the close it was valued with;    *)
(* its score follows from it.  Days are trading days of one week.  Market  *)
(* caps, the policy and the provider's health are left out, and so is the  *)
(* failed batch that a sync which stops before its draft writes about      *)
(* itself (recordPreflightFailure), which nothing reads.                   *)
(*                                                                         *)
(* An operator named X_Slip or X_<Name> is X as a plausible slip would     *)
(* leave it; no action uses it.                                            *)
(***************************************************************************)
EXTENDS Naturals, Sequences, FiniteSets, FiniteSetsExt

CONSTANTS
    Security,    \* numbered in the order of their rows
    Candidate,   \* the securities that the operator repairs
    MaxDrop,     \* how far coverage may fall from one sync to the next
    MinCoverage, \* what a batch must cover to be published
    RepairAge,   \* the age of a close that still counts as that of the last trading day
    MaxDay,      \* bound: trading days
    MaxStarts,   \* bound: drafts begun
    MaxFaults    \* bound: failing steps and crashes

VARIABLES day, stored, batch, pointer, builder, starts, faults
vars == <<day, stored, batch, pointer, builder, starts, faults>>

NoBatch == <<>>
Unset == MaxDay + 1     \* a row that is not written
Job == {"sync", "repair"}
Idle == [pc |-> "idle", name |-> NoBatch, base |-> NoBatch]

Init ==
    /\ day = 1
    /\ stored = [s \in Security |-> {}]
    /\ batch = [n \in {} |-> {}]
    /\ pointer = NoBatch
    /\ builder = [j \in Job |-> Idle]
    /\ starts = 0 /\ faults = 0

-----------------------------------------------------------------------------
\* The close of another trading day is available.
Close ==
    /\ day < MaxDay
    /\ day' = day + 1
    /\ UNCHANGED <<stored, batch, pointer, builder, starts, faults>>

\* The repair of one symbol's history stores its closes.
StoreHistory(s) ==
    /\ stored[s] # 1..day
    /\ stored' = [stored EXCEPT ![s] = 1..day]
    /\ UNCHANGED <<day, batch, pointer, builder, starts, faults>>

\* acquireCoordinatorRun: one sync or repair of the process at a time.
Gate_Open(j) == builder[j].pc = "idle"
Gate(j) == \A k \in Job : builder[k].pc = "idle"

-----------------------------------------------------------------------------
(* The names of batches: a hash of the day, the closes with their source   *)
(* and, for a repaired copy, of the repairs in their order.                *)

Name(quote) == [day |-> day, quote |-> quote, repairs |-> <<>>]

Repaired(n, s, d) == [n EXCEPT !.repairs = Append(@, [security |-> s, close |-> d])]

Covered(n) == {s \in Security : n.quote[s].close # 0}

\* localPriceFallbackRecords: the newest stored close of this trading day or the
\* one before.
Fallback(s) ==
    LET usable == {d \in stored[s] : d <= day /\ d + 1 >= day}
    IN IF usable = {} THEN 0 ELSE Max(usable)

\* mergeResearchLocalPriceFallback: what the provider did not answer for.
Quotes(live) ==
    [s \in Security |->
        IF s \in live THEN [close |-> day, source |-> "live"]
        ELSE IF Fallback(s) # 0 THEN [close |-> Fallback(s), source |-> "local"]
        ELSE [close |-> 0, source |-> "none"]]

\* SyncMarketPrices: when no session ended since the last close and no live fetch is
\* forced, or the provider fails, the stored closes are all there is.
Load(live) ==
    /\ Gate("sync")
    /\ LET n == Name(Quotes(live)) IN
         /\ Covered(n) # {}
         /\ builder' = [builder EXCEPT !["sync"] = [pc |-> "draft", name |-> n, base |-> NoBatch]]
    /\ UNCHANGED <<day, stored, batch, pointer, starts, faults>>

\* RepriceCurrentCandidateFromLocalHistory: the newest valid close of the symbol,
\* no newer than the batch and current enough, in a copy of the current batch; a
\* symbol repaired before is refused as a duplicate source.
RepairClose_Oldest(s) == Min(stored[s])
RepairClose(s) == Max(stored[s])

Reprice(s) ==
    /\ Gate("repair")
    /\ pointer # NoBatch
    /\ stored[s] # {}
    /\ RepairClose(s) <= pointer.day /\ RepairClose(s) + RepairAge >= pointer.day
    /\ \A i \in DOMAIN pointer.repairs : pointer.repairs[i].security # s
    /\ builder' = [builder EXCEPT !["repair"] =
         [pc |-> "draft", name |-> Repaired(pointer, s, RepairClose(s)), base |-> pointer]]
    /\ UNCHANGED <<day, stored, batch, pointer, starts, faults>>

-----------------------------------------------------------------------------
This(j) == builder[j].name

\* createDraft and resetRetryableBatch: a published batch is returned as it is and the
\* pointer stays; any other starts over without rows.
CreateDraft(j) ==
    /\ builder[j].pc = "draft"
    /\ IF This(j) \in DOMAIN batch /\ batch[This(j)].status = "published"
       THEN builder' = [builder EXCEPT ![j] = Idle] /\ UNCHANGED <<batch, starts>>
       ELSE /\ starts < MaxStarts
            /\ starts' = starts + 1
            /\ LET b == [status |-> "draft", started |-> starts + 1, old |-> FALSE,
                         coverage |-> 0, rows |-> [s \in Security |-> Unset]]
               IN batch' = [n \in (DOMAIN batch) \cup {This(j)} |-> IF n = This(j) THEN b ELSE batch[n]]
            /\ builder' = [builder EXCEPT ![j].pc = IF j = "sync" THEN "prices" ELSE "copy"]
    /\ UNCHANGED <<day, stored, pointer, faults>>

\* persistPrices: kept whatever becomes of the batch.
PersistPrices(j) ==
    /\ builder[j].pc = "prices"
    /\ stored' = [s \in Security |->
         IF s \in Covered(This(j)) THEN stored[s] \cup {This(j).quote[s].close} ELSE stored[s]]
    /\ builder' = [builder EXCEPT ![j].pc = "diagnose"]
    /\ UNCHANGED <<day, batch, pointer, starts, faults>>

\* persistProviderRunDB: the run of the provider is recorded with the batch.
Diagnose(j) ==
    /\ builder[j].pc = "diagnose"
    /\ batch' = [batch EXCEPT ![This(j)].coverage = Cardinality(Covered(This(j)))]
    /\ builder' = [builder EXCEPT ![j].pc = "gates"]
    /\ UNCHANGED <<day, stored, pointer, starts, faults>>

\* rejectResearchCoverageDrop compares with the published batch of a sync started
\* last: repaired copies have no run of the provider.
Measured_Current(j) == {n \in DOMAIN batch : n = pointer /\ batch[n].coverage # 0}
Measured(j) ==
    {n \in DOMAIN batch : /\ batch[n].status = "published" /\ batch[n].coverage # 0
                          /\ batch[n].started < batch[This(j)].started}

CoverageHolds(j) ==
    /\ batch[This(j)].coverage >= MinCoverage
    /\ \A n \in Measured(j) :
         (\A m \in Measured(j) : batch[m].started <= batch[n].started) =>
            batch[n].coverage <= batch[This(j)].coverage + MaxDrop

PassGates(j) ==
    /\ builder[j].pc = "gates"
    /\ CoverageHolds(j)
    /\ builder' = [builder EXCEPT ![j].pc = "rows"]
    /\ UNCHANGED <<day, stored, batch, pointer, starts, faults>>

\* failBatch
FailBatch(j) ==
    /\ batch' = [batch EXCEPT ![This(j)].status = "failed"]
    /\ builder' = [builder EXCEPT ![j] = Idle]

Reject(j) ==
    /\ builder[j].pc = "gates"
    /\ ~CoverageHolds(j)
    /\ FailBatch(j)
    /\ UNCHANGED <<day, stored, pointer, starts, faults>>

\* buildUniverseSnapshots, persistUniverseSnapshots: in chunks, any of which may be
\* the last before a failure.
StageRow(j, s) ==
    /\ builder[j].pc = "rows"
    /\ batch[This(j)].rows[s] = Unset
    /\ \A t \in Security : batch[This(j)].rows[t] = Unset => s <= t
    /\ batch' = [batch EXCEPT ![This(j)].rows[s] = This(j).quote[s].close]
    /\ UNCHANGED <<day, stored, pointer, builder, starts, faults>>

\* persistCandidateScoreSnapshots and validateMarketStage, which counts the rows.
Validate(j) ==
    /\ builder[j].pc = "rows"
    /\ \A s \in Security : batch[This(j)].rows[s] # Unset
    /\ builder' = [builder EXCEPT ![j].pc = "publish"]
    /\ UNCHANGED <<day, stored, batch, pointer, starts, faults>>

\* The rows and scores of the base, but for the repaired one, in one transaction.
CopyRows(j) ==
    /\ builder[j].pc = "copy"
    /\ builder[j].base \in DOMAIN batch
    /\ LET last == This(j).repairs[Len(This(j).repairs)] IN
       batch' = [batch EXCEPT ![This(j)].rows =
                    [batch[builder[j].base].rows EXCEPT ![last.security] = last.close]]
    /\ builder' = [builder EXCEPT ![j].pc = "publish"]
    /\ UNCHANGED <<day, stored, pointer, starts, faults>>

\* publish: the batch, the events of its candidates and the pointer in one transaction.
Publish(j) ==
    /\ builder[j].pc = "publish"
    /\ batch[This(j)].status = "draft"
    /\ batch' = [batch EXCEPT ![This(j)].status = "published"]
    /\ pointer' = This(j)
    /\ builder' = [builder EXCEPT ![j] = Idle]
    /\ UNCHANGED <<day, stored, starts, faults>>

\* A statement fails or the context ends.  A repair that stops before publish leaves
\* its draft as it is.
StepFails(j) ==
    /\ faults < MaxFaults
    /\ builder[j].pc # "idle"
    /\ faults' = faults + 1
    /\ \/ /\ builder[j].pc \in {"draft", "copy"}
          /\ builder' = [builder EXCEPT ![j] = Idle] /\ UNCHANGED batch
       \/ builder[j].pc \notin {"draft", "copy"} /\ FailBatch(j)
    /\ UNCHANGED <<day, stored, pointer, starts>>

Crash ==
    /\ faults < MaxFaults
    /\ \E j \in Job : builder[j].pc # "idle"
    /\ faults' = faults + 1
    /\ builder' = [j \in Job |-> Idle]
    /\ UNCHANGED <<day, stored, batch, pointer, starts>>

-----------------------------------------------------------------------------
\* Retention runs out for a published repair; that of others means nothing.
Age(n) ==
    /\ n.repairs # <<>>
    /\ batch[n].status = "published" /\ ~batch[n].old
    /\ batch' = [batch EXCEPT ![n].old = TRUE]
    /\ UNCHANGED <<day, stored, pointer, builder, starts, faults>>

\* supersededMarketRepairBatchIDs: old published repairs, but not the current one.
Superseded_Any ==
    {n \in DOMAIN batch : batch[n].status = "published" /\ batch[n].old /\ n.repairs # <<>>}
Superseded ==
    IF pointer = NoBatch THEN {}
    ELSE {n \in DOMAIN batch : /\ batch[n].status = "published" /\ batch[n].old
                               /\ n.repairs # <<>> /\ n # pointer}

\* CleanupSupersededMarketRepairBatches, in one transaction, without the gate.
CleanUp ==
    /\ Superseded # {}
    /\ batch' = [n \in (DOMAIN batch) \ Superseded |-> batch[n]]
    /\ UNCHANGED <<day, stored, pointer, builder, starts, faults>>

Next ==
    \/ Close
    \/ \E live \in SUBSET Security : Load(live)
    \/ \E s \in Candidate : StoreHistory(s) \/ Reprice(s)
    \/ \E j \in Job, s \in Security : StageRow(j, s)
    \/ \E j \in Job :
         \/ CreateDraft(j) \/ PersistPrices(j) \/ Diagnose(j) \/ PassGates(j) \/ Reject(j)
         \/ Validate(j) \/ CopyRows(j) \/ Publish(j) \/ StepFails(j)
    \/ Crash
    \/ \E n \in DOMAIN batch : Age(n)
    \/ CleanUp

Spec == Init /\ [][Next]_vars

-----------------------------------------------------------------------------
TypeOK ==
    /\ day \in 1..MaxDay
    /\ stored \in [Security -> SUBSET (1..MaxDay)]
    /\ \A n \in DOMAIN batch :
         /\ batch[n].status \in {"draft", "failed", "published"}
         /\ batch[n].rows \in [Security -> 0..Unset]
    /\ starts \in 0..MaxStarts /\ faults \in 0..MaxFaults

\* The batch that the pointer names is there, published and whole, whatever failed,
\* was retried, repaired or cleaned up.
CurrentWhole ==
    pointer # NoBatch =>
        /\ pointer \in DOMAIN batch
        /\ batch[pointer].status = "published"
        /\ \A s \in Security : batch[pointer].rows[s] # Unset

\* The rows of a published batch never change, and only old repaired copies go.
PublishedStays ==
    [][\A n \in DOMAIN batch : batch[n].status = "published" =>
         IF n \in DOMAIN batch'
         THEN batch'[n].status = "published" /\ batch'[n].rows = batch[n].rows
         ELSE n.repairs # <<>> /\ n # pointer']_vars

\* A repair replaces the batch it was made from and no other: all the other rows are
\* as they were, and the repaired close is not an older one.
RepairsCurrent ==
    [][pointer' # pointer /\ pointer'.repairs # <<>> =>
         LET last == pointer'.repairs[Len(pointer'.repairs)] IN
         /\ pointer.day = pointer'.day
         /\ \A s \in Security \ {last.security} : batch'[pointer'].rows[s] = batch[pointer].rows[s]
         /\ batch'[pointer'].rows[last.security] >= batch[pointer].rows[last.security]]_vars

\* From one sync's batch to the next, with repairs in between or not, coverage does not
\* fall by more than allowed, however often a day is retried.
CoverageKept ==
    [][pointer' # pointer /\ pointer'.repairs = <<>> /\ pointer # NoBatch =>
         LET before == [pointer EXCEPT !.repairs = <<>>] IN
         Cardinality(Covered(before)) <= Cardinality(Covered(pointer')) + MaxDrop]_vars
=============================================================================
