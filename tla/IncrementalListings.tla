------------------------ MODULE IncrementalListings ------------------------
(***************************************************************************)
(* The daily step that adds new listings to the published security         *)
(* universe without the full archives (discovery/incremental_listings.go,  *)
(* with Coordinator.createDraft, stageSecurity, validateSecurityStage and  *)
(* publish of universe.go, and discoverIncrementalListings of              *)
(* service/discovery_sync.go).  A plan decides what to fetch; under the    *)
(* gate it is made again from the records fetched, the published evidence  *)
(* is cloned without what is replaced, the new records are staged on it in *)
(* checkpointed chunks, and the pointer moves.  The weekly calibration,    *)
(* SecurityBatches, is one step here: the workflow's lease (DiscoverySync) *)
(* keeps the two apart.                                                    *)
(*                                                                         *)
(* A directory has one record per ticker (CompositeSecurityMetadataSource  *)
(* refuses a duplicate): no issuer when SEC names none or several.  An     *)
(* identity stands for the issuer's classification, share selection and    *)
(* metrics, staged with it.  An issuer's facts are fetched or not, and are *)
(* staged in a chunk of their own.  Published batches that the pointer has *)
(* left are not kept, nor their drafts: a batch is named by its base.      *)
(*                                                                         *)
(* An operator named X_<Name> is X as a plausible slip would leave it; no  *)
(* action uses it.                                                         *)
(***************************************************************************)
EXTENDS Naturals, FiniteSets

CONSTANTS
    Issuer,      \* the CIKs, positive numbers
    Ticker,      \* numbers, in the order of the tickers
    NonCommon,   \* the tickers whose security name says warrant, right or unit
    MaxChanges,  \* bound: changes of the directories
    MaxStops     \* bound: failures and crashes

VARIABLES directory, universe, draft, sync, changes, stops
vars == <<directory, universe, draft, sync, changes, stops>>

\* A ticker that is not listed, and one that has no issuer.
Absent == 0 - 1
Nobody == 0
Holder == Issuer \cup {Nobody, Absent}

NoIdentity == [ticker |-> 0, current |-> FALSE, facts |-> FALSE]
ChunkKinds == {"listings", "identities", "facts"}
NoDraft == [name |-> {}, exists |-> FALSE, done |-> {}, listing |-> [t \in Ticker |-> Absent],
            identity |-> [i \in Issuer |-> NoIdentity]]
Idle == [pc |-> "idle", records |-> {}, facts |-> {}]

Records(d) == {r \in [ticker : Ticker, cik : Issuer \cup {Nobody}] : d[r.ticker] = r.cik}

-----------------------------------------------------------------------------
(* groupMetadata and selectPrimaryCommonListing: one listing, or one that  *)
(* is not an attached warrant, right or unit, is the issuer's; otherwise   *)
(* the first is taken and the mapping is a conflict.                       *)

Group(records, i) == {r.ticker : r \in {s \in records : s.cik = i}}
Common(g) == g \ NonCommon
MappedOnce(g) == Cardinality(g) = 1 \/ Cardinality(Common(g)) = 1
First(g) == CHOOSE t \in g : \A u \in g : t <= u
Primary(g) == IF Cardinality(Common(g)) = 1 THEN First(Common(g)) ELSE First(g)

Identity(records, i) ==
    LET g == Group(records, i) IN [ticker |-> Primary(g), current |-> MappedOnce(g), facts |-> FALSE]

Known(i) == universe.identity[i] # NoIdentity
Taken(t) == \E i \in Issuer : Known(i) /\ universe.identity[i].ticker = t

\* FindNewListings: an issuer that is not known, under a ticker that no identity
\* has, unless the ticker is listed for somebody.
New(records) ==
    {r \in records : /\ r.cik # Nobody
                     /\ ~Known(r.cik)
                     /\ ~Taken(r.ticker)
                     /\ universe.listing[r.ticker] \in {Absent, Nobody}}

\* An issuer whose mapping was a conflict is repaired when the directory tells its
\* common share.
Repaired_Any(records) ==
    {i \in Issuer : Known(i) /\ Group(records, i) # {} /\ MappedOnce(Group(records, i))}
Repaired(records) ==
    {i \in Issuer : /\ Known(i) /\ ~universe.identity[i].current
                    /\ Group(records, i) # {} /\ MappedOnce(Group(records, i))}

Plan(records) == New(records) \cup {r \in records : r.cik \in Repaired(records)}

Planned == Plan(sync.records)
\* A row of the listings that the plan replaces is not cloned.
Replaced == {r.ticker : r \in Planned}

-----------------------------------------------------------------------------
Full(d, facts) ==
    [listing |-> d,
     identity |-> [i \in Issuer |->
        IF Group(Records(d), i) = {} THEN NoIdentity
        ELSE [Identity(Records(d), i) EXCEPT !.facts = i \in facts]]]

Init ==
    /\ directory \in [Ticker -> Holder]
    /\ universe = Full(directory, Issuer)
    /\ draft = NoDraft
    /\ sync = Idle
    /\ changes = 0 /\ stops = 0

\* An exchange lists, delists or renames, or SEC changes its file.
Relist(t, h) ==
    /\ changes < MaxChanges
    /\ directory' = [directory EXCEPT ![t] = h]
    /\ changes' = changes + 1
    /\ UNCHANGED <<universe, draft, sync, stops>>

\* The weekly calibration publishes the directory as it is.
Calibrate ==
    /\ sync.pc = "idle"
    /\ universe' = Full(directory, Issuer)
    /\ draft' = NoDraft
    /\ UNCHANGED <<directory, sync, changes, stops>>

\* The effective date is part of a batch's name: no draft of yesterday is taken up.
NextDay ==
    /\ sync.pc = "idle"
    /\ draft.exists
    /\ draft' = NoDraft
    /\ UNCHANGED <<directory, universe, sync, changes, stops>>

-----------------------------------------------------------------------------
\* discoverIncrementalListings and LoadIncrementalIssuerData: the documents of the
\* issuers in the plan are fetched; one that cannot be had is a warning.
Discover(fetched) ==
    LET records == Plan(Records(directory)) IN
    /\ sync.pc = "idle"
    /\ records # {}
    /\ fetched \subseteq {r.cik : r \in records}
    /\ sync' = [pc |-> "draft", records |-> records, facts |-> fetched]
    /\ UNCHANGED <<directory, universe, draft, changes, stops>>

\* SyncIncrementalListings, createDraft: the plan is made again; a draft or a failed
\* batch of the same name is taken up with the rows and checkpoints it has.
Name == Planned \X {sync.facts}

CreateDraft ==
    /\ sync.pc = "draft"
    /\ IF Planned = {} THEN sync' = Idle /\ UNCHANGED draft
       ELSE /\ sync' = [sync EXCEPT !.pc = "clone"]
            /\ draft' = IF draft.exists /\ draft.name = Name THEN draft
                        ELSE [NoDraft EXCEPT !.name = Name, !.exists = TRUE]
    /\ UNCHANGED <<directory, universe, changes, stops>>

\* cloneSecurityBatchEvidence, in one transaction: rows that exist stay.
Kept_All == Issuer
Kept == Issuer \ Repaired(sync.records)

Clone ==
    /\ sync.pc = "clone"
    /\ draft' = [draft EXCEPT
         !.listing = [t \in Ticker |->
            IF @[t] = Absent /\ t \notin Replaced THEN universe.listing[t] ELSE @[t]],
         !.identity = [i \in Issuer |->
            IF @[i] = NoIdentity /\ i \in Kept THEN universe.identity[i] ELSE @[i]]]
    /\ sync' = [sync EXCEPT !.pc = "listings"]
    /\ UNCHANGED <<directory, universe, changes, stops>>

\* runSecurityStageChunk: a chunk that is completed is skipped; the others are
\* written with their checkpoint in one transaction.
After(chunk) == CASE chunk = "listings" -> "identities"
                  [] chunk = "identities" -> "facts"
                  [] chunk = "facts" -> "publish"

Staged(i) == Group(Planned, i) # {}

Rows(chunk) ==
    IF chunk \in draft.done THEN draft
    ELSE [draft EXCEPT
        !.done = @ \cup {chunk},
        !.listing = [t \in Ticker |->
            IF chunk = "listings" /\ @[t] = Absent /\ t \in Replaced
            THEN (CHOOSE r \in Planned : r.ticker = t).cik ELSE @[t]],
        !.identity = [i \in Issuer |->
            IF chunk = "identities" /\ @[i] = NoIdentity /\ Staged(i) THEN Identity(Planned, i)
            ELSE IF chunk = "facts" /\ i \in sync.facts THEN [@[i] EXCEPT !.facts = TRUE]
            ELSE @[i]]]

Stage(chunk) ==
    /\ sync.pc = chunk
    /\ draft' = Rows(chunk)
    /\ sync' = [sync EXCEPT !.pc = After(chunk)]
    /\ UNCHANGED <<directory, universe, changes, stops>>

\* validateSecurityStage: the clones and the groups make up the rows, and there are
\* listings for them.
Identities(b) == {i \in Issuer : b.identity[i] # NoIdentity}
Expected == {i \in Kept : Known(i)} \cup {i \in Issuer : Staged(i)}
Listed(b) == {t \in Ticker : b.listing[t] # Absent}

Publish ==
    /\ sync.pc = "publish"
    /\ Cardinality(Identities(draft)) = Cardinality(Expected)
    /\ Listed(draft) # {} /\ Cardinality(Identities(draft)) <= Cardinality(Listed(draft))
    /\ universe' = [listing |-> draft.listing, identity |-> draft.identity]
    /\ draft' = NoDraft
    /\ sync' = Idle
    /\ UNCHANGED <<directory, changes, stops>>

\* A statement fails, the count does not fit, or the process ends: the batch is
\* failed or still a draft, with its rows.
Stop ==
    /\ stops < MaxStops
    /\ sync.pc # "idle"
    /\ sync' = Idle
    /\ stops' = stops + 1
    /\ UNCHANGED <<directory, universe, draft, changes>>

Next ==
    \/ \E t \in Ticker, h \in Holder : Relist(t, h)
    \/ Calibrate \/ NextDay
    \/ \E fetched \in SUBSET Issuer : Discover(fetched)
    \/ CreateDraft \/ Clone \/ Publish \/ Stop
    \/ \E chunk \in ChunkKinds : Stage(chunk)

Spec == Init /\ [][Next]_vars

-----------------------------------------------------------------------------
TypeOK ==
    /\ directory \in [Ticker -> Holder]
    /\ universe.listing \in [Ticker -> Holder] /\ draft.listing \in [Ticker -> Holder]
    /\ \A b \in {universe, draft} : \A i \in Issuer :
         b.identity[i] = NoIdentity \/ b.identity[i].ticker \in Ticker
    /\ draft.done \subseteq ChunkKinds
    /\ sync.facts \subseteq Issuer

Advances == universe' # universe /\ sync.pc = "publish"

\* A daily advance of the universe, in however many attempts, leaves every issuer
\* that was mapped once as it was; a new one comes under a ticker that nobody has,
\* with its listing; and a repaired one is mapped once from then on.  Both are what
\* the records and the facts fetched for them say (FindNewListings, cloneSecurityBatchEvidence).
UniverseCarried ==
    [][Advances => \A i \in Issuer :
        LET old == universe.identity[i] new == universe'.identity[i] IN
        /\ old # NoIdentity /\ old.current => new = old
        /\ old = NoIdentity /\ new # NoIdentity =>
             ~Taken(new.ticker) /\ universe'.listing[new.ticker] = i
        /\ old # NoIdentity /\ new # old =>
             new.current /\ universe'.listing[new.ticker] = i
        /\ Staged(i) => new = [Identity(Planned, i) EXCEPT !.facts = i \in sync.facts]]_vars
=============================================================================
