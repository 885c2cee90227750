--------------------------- MODULE ResearchProofs ---------------------------
(***************************************************************************)
(* The properties of the run Research.  A behaviour of the sum is, seen by *)
(* one part, a behaviour of the part: it starts as the part starts, and    *)
(* every step is a step of the part or leaves its variables alone.  The    *)
(* downloads, the analyses and the filing sync have modules of proofs; the *)
(* summary, the pacer, the snapshots, the index, the radar and the         *)
(* allowance are proved here, for any number of goroutines, jobs, filings  *)
(* and requests.                                                           *)
(***************************************************************************)
EXTENDS MCResearch, FiniteSetTheorems, SequenceTheorems, TLAPS

\* The model value that stands for "none" is none of the others.
NobodyIsNone == Nobody \notin {lock1, lock2, path}

all == <<part, budgetVars, pacerVars, snapshotVars, downloadVars,
         summaryVars, analysisVars, filingVars, indexVars, radarVars>>

LEMMA PartsStart ==
    ASSUME Init
    PROVE  /\ Budget!Init /\ Pacer!Init /\ Snapshots!Init /\ Downloads!Init /\ Summary!Init
           /\ Analysis!Init /\ Index!Init /\ Radar!Init
BY DEF Init

LEMMA PartsStep ==
    ASSUME [Next]_all
    PROVE  /\ [Budget!Next]_budgetVars
           /\ [Pacer!Next]_pacerVars
           /\ [Snapshots!Next]_snapshotVars
           /\ [Downloads!Next]_downloadVars
           /\ [Summary!Next]_summaryVars
           /\ [Analysis!Next]_analysisVars
           /\ [Index!Next]_indexVars
           /\ [Radar!Next]_radarVars
<1>1. [Budget!Next]_budgetVars BY Zenon DEF Next, Only, Syncs, all
<1>2. [Pacer!Next]_pacerVars BY Zenon DEF Next, Only, Syncs, all
<1>3. [Snapshots!Next]_snapshotVars BY Zenon DEF Next, Only, Syncs, all
<1>4. [Downloads!Next]_downloadVars BY Zenon DEF Next, Only, Syncs, all
<1>5. [Summary!Next]_summaryVars BY Zenon DEF Next, Only, Syncs, all
<1>6. [Analysis!Next]_analysisVars BY Zenon DEF Next, Only, Syncs, all
<1>7. [Index!Next]_indexVars BY Zenon DEF Next, Only, Syncs, all
<1>8. [Radar!Next]_radarVars BY Zenon DEF Next, Only, Syncs, all
<1> QED BY <1>1, <1>2, <1>3, <1>4, <1>5, <1>6, <1>7, <1>8

-----------------------------------------------------------------------------
(* The summary.  A write returns only after it has raised the revision, so *)
(* while a revision stands no write returns.  A build that read the        *)
(* revision before its data is therefore current as long as the revision   *)
(* it read stands, and so is the cache that holds it.  The mutex saves     *)
(* work and is not needed for this.                                        *)

Build == [pc : {"idle", "wait", "first", "store", "served"},
          needs : Nat, revision : Nat, value : Nat]

SummaryTyped ==
    /\ version \in Nat /\ returned \in Nat /\ revision \in Nat
    /\ cache \in [value : Nat, revision : Nat, age : Nat]
    /\ reader \in [Reader -> Build]
    /\ writer \in [Writer -> {"idle", "committed", "open"}]
    /\ plain \in BOOLEAN

\* What has returned is committed, and nothing is tagged with a revision to come.
WritesPassed ==
    /\ returned <= version
    /\ cache.revision <= revision
    /\ \A r \in Reader : reader[r].revision <= revision /\ reader[r].needs <= returned

\* Statements of their own leave no transaction open.
NoneOpen == \A w \in Writer : writer[w] # "open"

\* What is tagged with the standing revision holds all that has returned.
KeptCurrent ==
    /\ Summary!Valid => cache.value >= returned
    /\ \A r \in Reader :
         reader[r].pc = "store" /\ reader[r].revision = revision => reader[r].value >= returned

\* A request has all it needs from its first read on.
ReadersSatisfied ==
    \A r \in Reader : reader[r].pc \in {"store", "served"} => reader[r].value >= reader[r].needs

SummaryFresh ==
    SummaryTyped /\ (plain => WritesPassed /\ NoneOpen /\ KeptCurrent /\ ReadersSatisfied)

LEMMA SummaryStarts ==
    ASSUME Lifetime \in Nat, Summary!Init
    PROVE  SummaryFresh
<1>1. cache.age = Lifetime /\ ~Summary!Valid
    BY SMT DEF Summary!Init, Summary!None, Summary!Valid
<1> QED BY <1>1 DEF Summary!Init, Summary!None, Summary!Idle, SummaryFresh, SummaryTyped,
        Build, WritesPassed, NoneOpen, KeptCurrent, ReadersSatisfied

\* The writers' steps.
LEMMA WriterKeeps ==
    ASSUME Lifetime \in Nat, SummaryFresh, NEW w \in Writer,
           \/ Summary!Statement(w) \/ Summary!Invalidate(w)
           \/ Summary!InTransaction(w) \/ Summary!Commit(w)
    PROVE  SummaryFresh'
<1> USE DEF SummaryFresh, SummaryTyped
<1>1. CASE Summary!Statement(w)
    BY <1>1 DEF Summary!Statement, WritesPassed, NoneOpen, KeptCurrent, ReadersSatisfied,
        Summary!Valid, Build
<1>2. CASE Summary!Invalidate(w)
    <2>1. SummaryTyped' BY <1>2 DEF Summary!Invalidate
    <2>2. CASE ~plain BY <2>1, <2>2, <1>2 DEF Summary!Invalidate
    <2>3. CASE plain
        <3>1. revision' = revision + 1 /\ returned' = version /\ version' = version
              /\ cache' = cache /\ reader' = reader /\ plain' = plain
            BY <1>2 DEF Summary!Invalidate
        <3>2. WritesPassed' BY <2>3, <3>1 DEF WritesPassed, Build
        <3>3. NoneOpen' BY <2>3, <1>2 DEF NoneOpen, Summary!Invalidate
        <3>4. ~Summary!Valid' BY <2>3, <3>1 DEF Summary!Valid, WritesPassed
        <3>5. \A r \in Reader : reader'[r].revision # revision'
            BY <2>3, <3>1 DEF WritesPassed, Build
        <3>6. ReadersSatisfied' BY <2>3, <3>1 DEF ReadersSatisfied
        <3> QED BY <2>1, <3>2, <3>3, <3>4, <3>5, <3>6 DEF KeptCurrent
    <2> QED BY <2>2, <2>3
<1>3. CASE Summary!InTransaction(w)
    <2>1. plain' = FALSE /\ plain' \in BOOLEAN BY <1>3 DEF Summary!InTransaction
    <2>2. /\ version' \in Nat /\ returned' \in Nat /\ revision' \in Nat
          /\ writer' \in [Writer -> {"idle", "committed", "open"}]
        BY <1>3 DEF Summary!InTransaction
    <2>3. cache' \in [value : Nat, revision : Nat, age : Nat] /\ reader' \in [Reader -> Build]
        BY <1>3 DEF Summary!InTransaction
    <2>4. SummaryTyped' BY <2>1, <2>2, <2>3
    <2> QED BY <2>1, <2>4
<1>4. CASE Summary!Commit(w)
    <2>1. ~plain BY <1>4 DEF Summary!Commit, NoneOpen
    <2> QED BY <2>1, <1>4 DEF Summary!Commit
<1> QED BY <1>1, <1>2, <1>3, <1>4

\* What a reader's step leaves alone, and what it makes of its own record.
LEMMA ReaderKeeps ==
    ASSUME Lifetime \in Nat, SummaryFresh, NEW r \in Reader,
           UNCHANGED <<version, returned, revision, writer, plain>>,
           reader' \in [Reader -> Build], \A q \in Reader : q # r => reader'[q] = reader[q],
           plain => /\ reader'[r].revision <= revision /\ reader'[r].needs <= returned
                    /\ reader'[r].pc = "store" /\ reader'[r].revision = revision
                          => reader'[r].value >= returned
                    /\ reader'[r].pc \in {"store", "served"}
                          => reader'[r].value >= reader'[r].needs,
           cache' \in [value : Nat, revision : Nat, age : Nat],
           \/ cache' = cache
           \/ plain => cache'.revision <= revision
                       /\ (cache'.revision = revision => cache'.value >= returned)
    PROVE  SummaryFresh'
<1>1. SummaryTyped' BY DEF SummaryFresh, SummaryTyped
<1>2. CASE ~plain BY <1>1, <1>2 DEF SummaryFresh
<1>3. CASE plain
    <2>1. WritesPassed' BY <1>3 DEF SummaryFresh, WritesPassed
    <2>2. NoneOpen' BY <1>3 DEF SummaryFresh, NoneOpen
    <2>3. (Summary!Valid => cache.value >= returned)' BY <1>3 DEF SummaryFresh, KeptCurrent,
            Summary!Valid
    <2>4. KeptCurrent' BY <1>3, <2>3 DEF SummaryFresh, KeptCurrent
    <2>5. ReadersSatisfied' BY <1>3 DEF SummaryFresh, ReadersSatisfied
    <2> QED BY <1>1, <2>1, <2>2, <2>4, <2>5 DEF SummaryFresh
<1> QED BY <1>2, <1>3

LEMMA SummaryStep ==
    ASSUME Lifetime \in Nat, SummaryFresh, [Summary!Next]_Summary!vars
    PROVE  SummaryFresh'
<1>t. SummaryTyped BY DEF SummaryFresh
<1>1. ASSUME NEW w \in Writer, \/ Summary!Statement(w) \/ Summary!Invalidate(w)
                              \/ Summary!InTransaction(w) \/ Summary!Commit(w)
      PROVE  SummaryFresh'
    BY <1>1, WriterKeeps
<1>2. ASSUME NEW r \in Reader, Summary!Arrive(r)
      PROVE  SummaryFresh'
    <2>1. /\ reader' \in [Reader -> Build] /\ \A q \in Reader : q # r => reader'[q] = reader[q]
          /\ reader'[r].pc = "wait" /\ reader'[r].needs = returned /\ reader'[r].revision = 0
        BY <1>t, <1>2 DEF Summary!Arrive, SummaryTyped, Build, Summary!Idle
    <2> QED BY <1>t, <2>1, <1>2, ReaderKeeps DEF Summary!Arrive, SummaryTyped
<1>3. ASSUME NEW r \in Reader, Summary!Enter(r)
      PROVE  SummaryFresh'
    <2>1. CASE /\ Summary!Valid
               /\ reader' = [reader EXCEPT ![r].pc = "served", ![r].value = cache.value]
        <3>1. /\ reader' \in [Reader -> Build] /\ \A q \in Reader : q # r => reader'[q] = reader[q]
              /\ reader'[r].pc = "served" /\ reader'[r].value = cache.value
              /\ reader'[r].needs = reader[r].needs /\ reader'[r].revision = reader[r].revision
            BY <1>t, <2>1 DEF SummaryTyped, Build
        <3>2. plain => /\ reader'[r].revision <= revision /\ reader'[r].needs <= returned
                       /\ reader'[r].value >= reader'[r].needs
            BY <2>1, <3>1 DEF SummaryFresh, WritesPassed, KeptCurrent, SummaryTyped,
                Build
        <3> QED BY <1>t, <3>1, <3>2, <1>3, ReaderKeeps DEF Summary!Enter, SummaryTyped
    <2>2. CASE reader' = [reader EXCEPT ![r].pc = "first", ![r].revision = revision]
        <3>1. /\ reader' \in [Reader -> Build] /\ \A q \in Reader : q # r => reader'[q] = reader[q]
              /\ reader'[r].pc = "first" /\ reader'[r].revision = revision
              /\ reader'[r].needs = reader[r].needs
            BY <1>t, <2>2 DEF SummaryTyped, Build
        <3>2. plain => reader'[r].revision <= revision /\ reader'[r].needs <= returned
            BY <3>1 DEF SummaryFresh, WritesPassed, SummaryTyped
        <3> QED BY <1>t, <3>1, <3>2, <1>3, ReaderKeeps DEF Summary!Enter, SummaryTyped
    <2> QED BY <1>3, <2>1, <2>2 DEF Summary!Enter
<1>4. ASSUME NEW r \in Reader, Summary!ReadFirst(r)
      PROVE  SummaryFresh'
    <2>1. /\ reader' \in [Reader -> Build] /\ \A q \in Reader : q # r => reader'[q] = reader[q]
          /\ reader'[r].value = version
          /\ reader'[r].needs = reader[r].needs /\ reader'[r].revision = reader[r].revision
        BY <1>t, <1>4 DEF SummaryTyped, Build, Summary!ReadFirst
    <2>2. plain => /\ reader'[r].revision <= revision /\ reader'[r].needs <= returned
                   /\ reader'[r].value >= returned /\ reader'[r].value >= reader'[r].needs
        BY <2>1 DEF SummaryFresh, WritesPassed, SummaryTyped, Build
    <2> QED BY <1>t, <2>1, <2>2, <1>4, ReaderKeeps DEF Summary!ReadFirst, SummaryTyped
<1>5. ASSUME NEW r \in Reader, Summary!BuildFails(r) \/ Summary!Answer(r)
      PROVE  SummaryFresh'
    <2>1. /\ reader' \in [Reader -> Build] /\ \A q \in Reader : q # r => reader'[q] = reader[q]
          /\ reader'[r].pc = "idle" /\ reader'[r].needs = 0 /\ reader'[r].revision = 0
        BY <1>t, <1>5 DEF SummaryTyped, Build, Summary!BuildFails, Summary!Answer,
            Summary!Idle
    <2>2. UNCHANGED <<version, returned, revision, cache, writer, plain>>
        BY <1>5 DEF Summary!BuildFails, Summary!Answer
    <2> QED BY <1>t, <2>1, <2>2, ReaderKeeps DEF SummaryTyped
<1>6. ASSUME NEW r \in Reader, Summary!Store(r)
      PROVE  SummaryFresh'
    <2>1. /\ reader' \in [Reader -> Build] /\ \A q \in Reader : q # r => reader'[q] = reader[q]
          /\ reader'[r].pc = "served" /\ reader'[r].value = reader[r].value
          /\ reader'[r].needs = reader[r].needs /\ reader'[r].revision = reader[r].revision
        BY <1>t, <1>6 DEF SummaryTyped, Build, Summary!Store
    <2>2. plain => /\ reader'[r].revision <= revision /\ reader'[r].needs <= returned
                   /\ reader'[r].value >= reader'[r].needs
        BY <1>6, <2>1 DEF SummaryFresh, WritesPassed, ReadersSatisfied, Summary!Store
    <2>3. CASE revision = reader[r].revision
        <3>1. plain => reader[r].value >= returned
            BY <1>6, <2>3 DEF Summary!Store, SummaryFresh, KeptCurrent
        <3>2. /\ cache' \in [value : Nat, revision : Nat, age : Nat]
              /\ cache'.value = reader[r].value /\ cache'.revision = revision
            BY <1>t, <1>6, <2>3 DEF Summary!Store, SummaryTyped, Build
        <3>3. revision <= revision BY <1>t DEF SummaryTyped
        <3> QED BY <1>6, <2>1, <2>2, <3>1, <3>2, <3>3, ReaderKeeps DEF Summary!Store
    <2>4. CASE revision # reader[r].revision
        <3>1. cache' = cache BY <1>6, <2>4 DEF Summary!Store
        <3> QED BY <1>t, <1>6, <2>1, <2>2, <3>1, ReaderKeeps DEF Summary!Store, SummaryTyped
    <2> QED BY <2>3, <2>4
<1>7. CASE Summary!Tick
    <2>1. /\ cache' \in [value : Nat, revision : Nat, age : Nat]
          /\ cache'.value = cache.value /\ cache'.revision = cache.revision
          /\ cache'.age = cache.age + 1
        BY <1>t, <1>7 DEF Summary!Tick, SummaryTyped
    <2>2. Summary!Valid' => Summary!Valid BY <1>t, <1>7, <2>1 DEF Summary!Tick, Summary!Valid,
            SummaryTyped
    <2> QED BY <1>7, <2>1, <2>2 DEF Summary!Tick, SummaryFresh, SummaryTyped, WritesPassed,
            NoneOpen, KeptCurrent, ReadersSatisfied
<1>8. CASE UNCHANGED Summary!vars
    BY <1>8 DEF Summary!vars, SummaryFresh, SummaryTyped, WritesPassed, NoneOpen, KeptCurrent,
        ReadersSatisfied, Summary!Valid
<1> QED BY <1>1, <1>2, <1>3, <1>4, <1>5, <1>6, <1>7, <1>8 DEF Summary!Next

\* readCandidateSummary: a request is never served a summary from before a
\* write that had returned when it came in, as long as every write has been a
\* statement of its own; the callbacks that raise the revision run after such
\* a statement's commit, and before the commit of an explicit transaction.
THEOREM EarlierStatementsSeen ==
    ASSUME Lifetime \in Nat
    PROVE  Summary!Spec => []Summary!SeesEarlierStatements
<1>1. Summary!Init => SummaryFresh BY SummaryStarts
<1>2. SummaryFresh /\ [Summary!Next]_Summary!vars => SummaryFresh' BY SummaryStep
<1>3. SummaryFresh => Summary!SeesEarlierStatements
    BY DEF SummaryFresh, ReadersSatisfied, Summary!SeesEarlierStatements,
        Summary!SeesEarlierWrites
<1> QED BY <1>1, <1>2, <1>3, PTL DEF Summary!Spec

\* A summary is not older than a statement that had returned before it was asked for.
THEOREM SummaryCurrent ==
    ASSUME Lifetime \in Nat
    PROVE  Spec => []SeesEarlierStatements
<1>1. Init => Summary!Init BY PartsStart
<1>2. [Next]_all => [Summary!Next]_Summary!vars
    BY PartsStep DEF Summary!vars, summaryVars
<1>3. Summary!SeesEarlierStatements => SeesEarlierStatements BY DEF SeesEarlierStatements
<1> QED BY <1>1, <1>2, <1>3, EarlierStatementsSeen, PTL DEF Spec, Summary!Spec, all
-----------------------------------------------------------------------------
(* The pacer.  The next slot lies an interval after the last request let   *)
(* through, and not before the end of a cooldown somebody was told.        *)

PacerNumbers ==
    Interval \in Nat /\ MaxDelay \in Nat /\ PacerEnd \in Nat /\ Interval <= PacerEnd

Waiting == [pc : {"idle", "slot", "sleep", "call"}, wake : Nat, attempt : 0..2]

PacerTyped ==
    /\ now \in 0..PacerEnd /\ granted \in 0..now
    /\ nextRequestAt \in Nat /\ calm \in Nat
    /\ waiting \in [Requester -> Waiting]

NextSlotIsFair ==
    /\ calm <= nextRequestAt
    /\ nextRequestAt >= granted + Interval \/ (granted = 0 /\ now >= Interval)

PacerInv == PacerTyped /\ NextSlotIsFair

PacerStepFair ==
    \A c \in Requester : waiting[c].pc # "call" /\ waiting'[c].pc = "call"
        => now >= granted + Interval /\ now >= calm

LEMMA CooldownTyped ==
    ASSUME PacerNumbers, NEW attempt \in 0..1
    PROVE  Pacer!Cooldown(attempt) \subseteq Nat
<1> DEFINE delay == Interval * Pacer!Doubled[attempt + 1]
           bounded == IF delay > MaxDelay THEN MaxDelay ELSE delay
<1>1. Pacer!Doubled[attempt + 1] \in {2, 4} BY DEF Pacer!Doubled
<1>2. delay \in Nat BY <1>1 DEF PacerNumbers
<1>3. bounded \in Nat BY <1>2 DEF PacerNumbers
<1>4. Pacer!Cooldown(attempt) = IF Interval \div 2 = 0 THEN {bounded}
                                ELSE bounded .. (bounded + (Interval \div 2) - 1)
    BY Zenon DEF Pacer!Cooldown
<1> HIDE DEF bounded
<1>5. Interval \div 2 \in Nat BY DEF PacerNumbers
<1> QED BY <1>3, <1>4, <1>5

LEMMA PacerStarts ==
    ASSUME PacerNumbers, Pacer!Init
    PROVE  PacerInv
BY DEF PacerNumbers, Pacer!Init, Pacer!Idle, PacerInv, PacerTyped, Waiting, NextSlotIsFair

LEMMA PacerStep ==
    ASSUME PacerNumbers, PacerInv, [Pacer!Next]_Pacer!vars
    PROVE  PacerInv' /\ PacerStepFair
<1> USE DEF PacerInv, PacerTyped
<1>1. CASE Pacer!Tick
    BY <1>1 DEF PacerNumbers, Pacer!Tick, NextSlotIsFair, PacerStepFair
<1>2. ASSUME NEW c \in Requester, Pacer!Request(c) \/ Pacer!Wake(c)
      PROVE  PacerInv' /\ PacerStepFair
    <2>1. UNCHANGED <<now, nextRequestAt, granted, calm>>
        BY <1>2 DEF Pacer!Request, Pacer!Wake
    <2>2. /\ waiting' \in [Requester -> Waiting] /\ waiting'[c].pc \in {"slot", "idle"}
          /\ \A d \in Requester : d # c => waiting'[d] = waiting[d]
        BY <1>2 DEF Pacer!Request, Pacer!Wake, Pacer!Idle, Waiting
    <2> QED BY <2>1, <2>2 DEF NextSlotIsFair, PacerStepFair
<1>3. ASSUME NEW c \in Requester, Pacer!Slot(c)
      PROVE  PacerInv' /\ PacerStepFair
    <2>1. CASE nextRequestAt <= now
        <3>1. /\ nextRequestAt' = now + Interval /\ granted' = now
              /\ waiting' = [waiting EXCEPT ![c].pc = "call"] /\ UNCHANGED <<now, calm>>
            BY <1>3, <2>1 DEF Pacer!Slot
        <3>2. waiting' \in [Requester -> Waiting] BY <3>1 DEF Waiting
        <3>3. now >= granted + Interval /\ now >= calm
            BY <2>1 DEF NextSlotIsFair, PacerNumbers
        <3> QED BY <2>1, <3>1, <3>2, <3>3 DEF NextSlotIsFair, PacerStepFair, PacerNumbers
    <2>2. CASE ~(nextRequestAt <= now)
        <3>1. /\ UNCHANGED <<now, nextRequestAt, granted, calm>>
              /\ waiting' = [waiting EXCEPT ![c].pc = "sleep", ![c].wake = nextRequestAt]
            BY <1>3, <2>2 DEF Pacer!Slot
        <3>2. /\ waiting' \in [Requester -> Waiting] /\ waiting'[c].pc = "sleep"
              /\ \A d \in Requester : d # c => waiting'[d] = waiting[d]
            BY <3>1 DEF Waiting
        <3> QED BY <3>1, <3>2 DEF NextSlotIsFair, PacerStepFair
    <2> QED BY <2>1, <2>2
<1>4. ASSUME NEW c \in Requester, Pacer!Answer(c)
      PROVE  PacerInv' /\ PacerStepFair
    <2>1. UNCHANGED <<now, granted>> BY <1>4 DEF Pacer!Answer
    <2>2. CASE waiting' = [waiting EXCEPT ![c] = Pacer!Idle] /\ UNCHANGED <<nextRequestAt, calm>>
        <3>1. /\ waiting' \in [Requester -> Waiting] /\ waiting'[c].pc = "idle"
              /\ \A d \in Requester : d # c => waiting'[d] = waiting[d]
            BY <2>2 DEF Waiting, Pacer!Idle
        <3> QED BY <2>1, <2>2, <3>1 DEF NextSlotIsFair, PacerStepFair
    <2>3. CASE /\ waiting[c].attempt + 1 < Pacer!Attempts /\ Pacer!Defer(c)
               /\ waiting' = [waiting EXCEPT ![c].pc = "slot", ![c].attempt = @ + 1]
        <3>1. waiting[c].attempt \in 0..1 /\ waiting[c].attempt + 1 \in 0..2
            BY <2>3 DEF Waiting, Pacer!Attempts
        <3>2. /\ waiting' \in [Requester -> Waiting] /\ waiting'[c].pc = "slot"
              /\ \A d \in Requester : d # c => waiting'[d] = waiting[d]
            BY <2>3, <3>1 DEF Waiting
        <3>3. PICK d \in Pacer!Cooldown(waiting[c].attempt) :
                 /\ nextRequestAt' = IF now + d > nextRequestAt THEN now + d ELSE nextRequestAt
                 /\ calm' = IF now + d > calm THEN now + d ELSE calm
            BY <2>3 DEF Pacer!Defer
        <3>4. d \in Nat BY <3>1, CooldownTyped
        <3>5. /\ nextRequestAt' \in Nat /\ calm' \in Nat
              /\ nextRequestAt' >= nextRequestAt /\ calm' <= nextRequestAt'
            BY <3>3, <3>4 DEF NextSlotIsFair
        <3> QED BY <2>1, <3>2, <3>5 DEF NextSlotIsFair, PacerStepFair, PacerNumbers
    <2> QED BY <1>4, <2>2, <2>3 DEF Pacer!Answer
<1>5. CASE UNCHANGED Pacer!vars
    BY <1>5 DEF Pacer!vars, NextSlotIsFair, PacerStepFair
<1> QED BY <1>1, <1>2, <1>3, <1>4, <1>5 DEF Pacer!Next

\* Two requests are an interval apart, and none is let through inside a cooldown
\* that any caller was told, whoever slept for a slot meanwhile
\* (waitLongbridgeFundamentalSlot, deferLongbridgeFundamentalRequests).
THEOREM CooldownRespected ==
    ASSUME PacerNumbers
    PROVE  Spec => CooldownKept
<1>1. Init => Pacer!Init BY PartsStart
<1>2. [Next]_all => [Pacer!Next]_Pacer!vars BY PartsStep DEF Pacer!vars, pacerVars
<1>3. Pacer!Init => PacerInv BY PacerStarts
<1>4. PacerInv /\ [Pacer!Next]_Pacer!vars => PacerInv' BY PacerStep
<1>5. PacerInv /\ [Pacer!Next]_Pacer!vars =>
        [\A c \in Requester : waiting[c].pc # "call" /\ waiting'[c].pc = "call"
            => now >= granted + Interval /\ now >= calm]_Pacer!vars
    BY PacerStep DEF PacerStepFair
<1>6. PacerInv => (part = "pacer" => Pacer!TypeOK)
    BY DEF PacerInv, PacerTyped, Pacer!TypeOK, Waiting, Pacer!Attempts
<1> QED BY <1>1, <1>2, <1>3, <1>4, <1>5, <1>6, PTL DEF Spec, all, CooldownKept, Pacer!Paced

-----------------------------------------------------------------------------
(* The snapshots.  Whatever overlaps, a row is added only for a content    *)
(* that no row has, and every step keeps the contents of the others.       *)

Snapshot(until) ==
    [content : Content, at : 1..until, note : {"pending", "not_applicable", "sent", "failed"}]
Asked(until) == [pc : {"asked"}, at : 1..until]
Answered(until) == [pc : {"compare", "confirm"}, at : 1..until, content : Content]
Compared(until) == [pc : {"confirm", "insert"}, at : 1..until, content : Content,
                    note : {"pending", "not_applicable"}]

SnapshotsTyped ==
    /\ family \in Snapshots!Family /\ day \in 1..LastDay /\ receipt \in 0..day
    /\ store \in Seq(Snapshot(day))
    /\ refresher \in [Refresher -> {Snapshots!Idle} \cup Asked(day) \cup Answered(day)
                                     \cup Compared(day)]

SnapshotsInv == SnapshotsTyped /\ Snapshots!ContentOnce

LEMMA SnapshotsStart ==
    ASSUME LastDay \in Nat \ {0}, Snapshots!Init
    PROVE  SnapshotsInv
<1>1. store \in Seq(Snapshot(day)) /\ Len(store) = 0 BY EmptySeq DEF Snapshots!Init
<1> QED BY <1>1 DEF Snapshots!Init, Snapshots!Idle, SnapshotsInv, SnapshotsTyped,
        Snapshots!ContentOnce, Snapshots!Row

\* The steps of a refresh that leave the rows alone.
LEMMA RefreshKeeps ==
    ASSUME LastDay \in Nat \ {0}, SnapshotsInv, NEW c \in Refresher,
           \/ Snapshots!Begin(c) \/ Snapshots!Answer(c) \/ Snapshots!Compare(c)
           \/ Snapshots!Confirm(c)
    PROVE  SnapshotsInv' /\ receipt' >= receipt
<1> USE DEF SnapshotsInv, SnapshotsTyped
<1>1. UNCHANGED <<family, day, store>>
    BY DEF Snapshots!Begin, Snapshots!Answer, Snapshots!Compare, Snapshots!Confirm
<1>2. CASE Snapshots!Begin(c)
    <2>1. [pc |-> "asked", at |-> day] \in Asked(day) BY DEF Asked
    <2>2. refresher' = [refresher EXCEPT ![c] = [pc |-> "asked", at |-> day]]
          /\ receipt' = receipt
        BY <1>2 DEF Snapshots!Begin
    <2> QED BY <1>1, <2>1, <2>2 DEF Snapshots!ContentOnce, Snapshots!Row
<1>3. CASE Snapshots!Answer(c)
    <2>1. refresher[c].pc = "asked" /\ receipt' = receipt BY <1>3 DEF Snapshots!Answer
    <2>2. refresher[c] \in Asked(day)
        BY <2>1 DEF Snapshots!Idle, Asked, Answered, Compared
    <2>3. refresher[c].at \in 1..day BY <2>2 DEF Asked
    <2>4. PICK v : /\ refresher' = [refresher EXCEPT ![c] = v]
                   /\ v = Snapshots!Idle \/ v \in Answered(day)
        <3>1. CASE refresher' = [refresher EXCEPT ![c] = Snapshots!Idle] BY <3>1
        <3>2. ASSUME NEW content \in Content,
                     refresher' = [refresher EXCEPT ![c] =
                        [pc |-> IF family = "eps" /\ content = NoCoverage THEN "confirm" ELSE "compare",
                         at |-> IF family = "eps" THEN refresher[c].at ELSE day,
                         content |-> content]]
              PROVE  \E v : /\ refresher' = [refresher EXCEPT ![c] = v]
                            /\ v \in Answered(day)
            <4>1. [pc |-> IF family = "eps" /\ content = NoCoverage THEN "confirm" ELSE "compare",
                   at |-> IF family = "eps" THEN refresher[c].at ELSE day,
                   content |-> content] \in Answered(day)
                BY <2>3 DEF Answered
            <4> QED BY <3>2, <4>1
        <3> QED BY <1>3, <3>1, <3>2 DEF Snapshots!Answer
    <2> QED BY <1>1, <2>1, <2>4 DEF Snapshots!ContentOnce, Snapshots!Row
<1>4. CASE Snapshots!Compare(c)
    <2>1. refresher[c].pc = "compare" /\ receipt' = receipt BY <1>4 DEF Snapshots!Compare
    <2>2. refresher[c] \in Answered(day)
        BY <2>1 DEF Snapshots!Idle, Asked, Answered, Compared
    <2>3. refresher[c].at \in 1..day /\ refresher[c].content \in Content BY <2>2 DEF Answered
    <2>4. PICK p \in {"confirm", "insert"}, n \in {"pending", "not_applicable"} :
             refresher' = [refresher EXCEPT ![c] =
                [pc |-> p, at |-> @.at, content |-> @.content, note |-> n]]
        BY <1>4 DEF Snapshots!Compare
    <2>5. [pc |-> p, at |-> refresher[c].at, content |-> refresher[c].content, note |-> n]
             \in Compared(day)
        BY <2>3 DEF Compared
    <2> QED BY <1>1, <2>1, <2>4, <2>5 DEF Snapshots!ContentOnce, Snapshots!Row
<1>5. CASE Snapshots!Confirm(c)
    <2>1. /\ refresher[c].pc = "confirm"
          /\ receipt' = IF refresher[c].at >= receipt THEN refresher[c].at ELSE receipt
          /\ refresher' = [refresher EXCEPT ![c] = Snapshots!Idle]
        BY <1>5 DEF Snapshots!Confirm
    <2>2. refresher[c] \in Answered(day) \/ refresher[c] \in Compared(day)
        BY <2>1 DEF Snapshots!Idle, Asked, Answered, Compared
    <2>3. refresher[c].at \in 1..day BY <2>2 DEF Answered, Compared
    <2>4. receipt' \in 0..day /\ receipt' >= receipt BY <2>1, <2>3
    <2> QED BY <1>1, <2>1, <2>4 DEF Snapshots!ContentOnce, Snapshots!Row
<1> QED BY <1>2, <1>3, <1>4, <1>5

\* The insert, which does nothing for a content that is there.
LEMMA InsertKeeps ==
    ASSUME LastDay \in Nat \ {0}, SnapshotsInv, NEW c \in Refresher, Snapshots!Insert(c)
    PROVE  SnapshotsInv' /\ receipt' = receipt
<1> USE DEF SnapshotsInv, SnapshotsTyped
<1> DEFINE added == [content |-> refresher[c].content, at |-> refresher[c].at,
                   note |-> refresher[c].note]
<1>1. /\ UNCHANGED <<family, day, receipt>> /\ refresher[c].pc = "insert"
      /\ refresher' = [refresher EXCEPT ![c].pc = "confirm"]
      /\ store' = IF \E i \in 1..Len(store) : store[i].content = refresher[c].content
                  THEN store ELSE Append(store, added)
    BY DEF Snapshots!Insert, Snapshots!Stored, Snapshots!Row
<1>2. refresher[c] \in Compared(day)
    BY <1>1 DEF Snapshots!Idle, Asked, Answered, Compared
<1>3. [refresher[c] EXCEPT !.pc = "confirm"] \in Compared(day) BY <1>2 DEF Compared
<1>4. refresher' \in [Refresher -> {Snapshots!Idle} \cup Asked(day) \cup Answered(day)
                                     \cup Compared(day)]
    BY <1>1, <1>3
<1>5. store' \in Seq(Snapshot(day)) /\ Snapshots!ContentOnce'
    <2>1. CASE \E i \in 1..Len(store) : store[i].content = refresher[c].content
        BY <1>1, <2>1 DEF Snapshots!ContentOnce, Snapshots!Row
    <2>2. CASE ~\E i \in 1..Len(store) : store[i].content = refresher[c].content
        <3>1. added \in Snapshot(day) /\ added.content = refresher[c].content
            BY <1>2 DEF Compared, Snapshot
        <3> HIDE DEF added
        <3>2. /\ store' \in Seq(Snapshot(day)) /\ Len(store') = Len(store) + 1
              /\ Len(store) \in Nat
              /\ \A i \in 1..Len(store) : store'[i] = store[i]
              /\ store'[Len(store) + 1] = added
            BY <1>1, <2>2, <3>1, AppendProperties
        <3> QED BY <2>2, <3>1, <3>2 DEF Snapshots!ContentOnce, Snapshots!Row
    <2> QED BY <2>1, <2>2
<1> QED BY <1>1, <1>4, <1>5

\* A delivery keeps the rows but for the note; the clock keeps them all.
LEMMA DeliveryKeeps ==
    ASSUME LastDay \in Nat \ {0}, SnapshotsInv,
           Snapshots!Deliver \/ Snapshots!Tick \/ UNCHANGED Snapshots!vars
    PROVE  SnapshotsInv' /\ receipt' = receipt
<1> USE DEF SnapshotsInv, SnapshotsTyped
<1>1. CASE Snapshots!Deliver
    <2>1. PICK S \in SUBSET {i \in 1..Len(store) : store[i].note = "pending"},
               result \in {"sent", "failed"} :
             store' = [i \in 1..Len(store) |-> IF i \in S THEN [store[i] EXCEPT !.note = result]
                                              ELSE store[i]]
        BY <1>1 DEF Snapshots!Deliver, Snapshots!Row
    <2>2. UNCHANGED <<family, day, receipt, refresher>> BY <1>1 DEF Snapshots!Deliver
    <2>3. Len(store) \in Nat /\ \A i \in 1..Len(store) : store[i] \in Snapshot(day)
        BY ElementOfSeq, LenProperties
    <2>4. \A i \in 1..Len(store) : /\ store'[i] \in Snapshot(day)
                                   /\ store'[i].content = store[i].content
        <3>1. \A i \in 1..Len(store) : /\ [store[i] EXCEPT !.note = result] \in Snapshot(day)
                                       /\ [store[i] EXCEPT !.note = result].content
                                            = store[i].content
            BY <2>3 DEF Snapshot
        <3> QED BY <2>1, <2>3, <3>1
    <2>5. store' \in [1..Len(store) -> Snapshot(day)] BY <2>1, <2>4
    <2>6. store' \in Seq(Snapshot(day)) /\ Len(store') = Len(store)
        BY <2>3, <2>5, SeqDef
    <2> QED BY <2>2, <2>4, <2>6 DEF Snapshots!ContentOnce, Snapshots!Row
<1>2. CASE Snapshots!Tick
    <2>1. /\ day < LastDay /\ day' = day + 1
          /\ UNCHANGED <<family, store, receipt, refresher>>
        BY <1>2 DEF Snapshots!Tick
    <2>2. Snapshot(day) \subseteq Snapshot(day') BY <2>1 DEF Snapshot
    <2>3. store \in Seq(Snapshot(day')) BY <2>2
    <2>4. /\ Asked(day) \subseteq Asked(day') /\ Answered(day) \subseteq Answered(day')
          /\ Compared(day) \subseteq Compared(day')
        BY <2>1 DEF Asked, Answered, Compared
    <2>5. refresher \in [Refresher -> {Snapshots!Idle} \cup Asked(day') \cup Answered(day')
                                        \cup Compared(day')]
        BY <2>4
    <2>6. SnapshotsTyped' BY <2>1, <2>3, <2>5
    <2> QED BY <2>1, <2>6 DEF Snapshots!ContentOnce, Snapshots!Row
<1>3. CASE UNCHANGED Snapshots!vars
    BY <1>3 DEF Snapshots!vars, Snapshots!ContentOnce, Snapshots!Row
<1> QED BY <1>1, <1>2, <1>3

LEMMA SnapshotsStep ==
    ASSUME LastDay \in Nat \ {0}, SnapshotsInv, [Snapshots!Next]_Snapshots!vars
    PROVE  SnapshotsInv' /\ receipt' >= receipt
<1>1. receipt >= receipt BY DEF SnapshotsInv, SnapshotsTyped
<1> QED BY <1>1, RefreshKeeps, InsertKeeps, DeliveryKeeps DEF Snapshots!Next

\* Overlapping refreshes store an answer once, and the receipt never goes back
\* (RecordAPIDataSync and the inserts that ignore a content already stored).
THEOREM AnswersStoredOnce ==
    ASSUME LastDay \in Nat \ {0}
    PROVE  Spec => SnapshotsKept
<1>1. Init => Snapshots!Init BY PartsStart
<1>2. [Next]_all => [Snapshots!Next]_Snapshots!vars
    BY PartsStep DEF Snapshots!vars, snapshotVars
<1>3. Snapshots!Init => SnapshotsInv BY SnapshotsStart
<1>4. SnapshotsInv /\ [Snapshots!Next]_Snapshots!vars => SnapshotsInv' BY SnapshotsStep
<1>5. SnapshotsInv /\ [Snapshots!Next]_Snapshots!vars => [receipt' >= receipt]_Snapshots!vars
    BY SnapshotsStep
<1>6. SnapshotsInv => (part = "snapshots" => Snapshots!TypeOK /\ Snapshots!ContentOnce)
    <2> SUFFICES ASSUME SnapshotsInv PROVE Snapshots!TypeOK /\ Snapshots!ContentOnce OBVIOUS
    <2>1. \A i \in 1..Len(store) : store[i] \in Snapshot(day)
        BY ElementOfSeq DEF SnapshotsInv, SnapshotsTyped
    <2>2. \A i \in 1..Len(store) : store[i].content \in Content /\ store[i].at \in 1..day
        BY <2>1 DEF Snapshot
    <2>3. \A c \in Refresher :
             refresher[c].pc \in {"idle", "asked", "compare", "insert", "confirm"}
        BY DEF SnapshotsInv, SnapshotsTyped, Snapshots!Idle, Asked, Answered, Compared
    <2> QED BY <2>2, <2>3 DEF SnapshotsInv, SnapshotsTyped, Snapshots!TypeOK, Snapshots!Row
<1> QED BY <1>1, <1>2, <1>3, <1>4, <1>5, <1>6, PTL
    DEF Spec, all, SnapshotsKept, Snapshots!ReceiptForward

-----------------------------------------------------------------------------
(* The index of a trust's filing.  What a sync read, and what is cached,   *)
(* are classes that the index names, and the index only grows.  Of the     *)
(* causes of failures nothing needs to be known.                           *)

Outcomes == {"none", "matched", "unmatched", "error"}
Looking(causes) ==
    [pc : {"idle", "fetch", "store"}, class : Class, force : BOOLEAN, verdict : Outcomes,
     cause : causes, age : Int, read : SUBSET index]
Cached(causes) ==
    [status : {"none", "failed", "parsed"}, classes : SUBSET index, cause : causes, at : 0..minute]

IndexTyped ==
    /\ minute \in 1..IndexEnd /\ index \in SUBSET Class
    /\ \E causes : row \in Cached(causes) /\ sync \in [Sync -> Looking(causes)]

IndexInv == IndexTyped /\ Index!MatchedIsListed

LEMMA IndexStarts ==
    ASSUME IndexEnd \in Nat \ {0}, Index!Init
    PROVE  IndexInv
<1>1. PICK c \in Class : sync = [s \in Sync |-> Index!Result(c, "none", "none", 0)]
    BY DEF Index!Init
<1>2. minute = 1 /\ index = {} /\ row = Index!NoRow BY DEF Index!Init
<1>3. Index!Result(c, "none", "none", 0) \in Looking({"none"})
    BY DEF Index!Result, Looking, Outcomes
<1>4. row \in Cached({"none"}) BY <1>2 DEF Index!NoRow, Cached
<1>5. IndexTyped BY <1>1, <1>2, <1>3, <1>4 DEF IndexTyped
<1>6. Index!MatchedIsListed BY <1>1 DEF Index!MatchedIsListed, Index!Result
<1> QED BY <1>5, <1>6 DEF IndexInv

\* The clock, and SEC's amendments of the index.
LEMMA IndexGrows ==
    ASSUME IndexEnd \in Nat \ {0}, IndexInv,
           Index!Tick \/ (\E c \in Class : Index!Amend(c)) \/ UNCHANGED Index!vars
    PROVE  IndexInv'
<1>1. UNCHANGED <<row, sync>> BY DEF Index!Tick, Index!Amend, Index!vars
<1>2. /\ minute \in 1..IndexEnd /\ minute' \in 1..IndexEnd /\ minute <= minute'
      /\ index \subseteq index' /\ index' \in SUBSET Class
    BY DEF IndexInv, IndexTyped, Index!Tick, Index!Amend, Index!vars
<1>3. PICK causes : row \in Cached(causes) /\ sync \in [Sync -> Looking(causes)]
    BY DEF IndexInv, IndexTyped
<1>4. row' \in Cached(causes)' BY <1>1, <1>2, <1>3 DEF Cached
<1>5. Looking(causes) \subseteq Looking(causes)' BY <1>2 DEF Looking
<1>6. IndexTyped'
    <2>1. sync' \in [Sync -> Looking(causes)'] BY <1>1, <1>3, <1>5
    <2> QED BY <1>2, <1>4, <2>1 DEF IndexTyped, Cached, Looking
<1>7. Index!MatchedIsListed' BY <1>1, <1>2 DEF IndexInv, Index!MatchedIsListed
<1> QED BY <1>6, <1>7 DEF IndexInv

\* What a step of one sync has to bring for the invariant to go on holding.
LEMMA SyncKeeps ==
    ASSUME IndexInv, UNCHANGED <<minute, index>>, NEW s \in Sync, NEW causes, NEW looking,
           sync \in [Sync -> Looking(causes)], row' \in Cached(causes),
           looking \in Looking(causes), sync' = [sync EXCEPT ![s] = looking],
           looking.verdict = "matched" => looking.class \in index
    PROVE  IndexInv'
<1>1. sync' \in [Sync -> Looking(causes)] OBVIOUS
<1>2. IndexTyped' BY <1>1 DEF IndexInv, IndexTyped, Cached, Looking
<1>3. Index!MatchedIsListed' BY DEF IndexInv, Index!MatchedIsListed
<1> QED BY <1>2, <1>3 DEF IndexInv

LEMMA LookupKeeps ==
    ASSUME IndexInv, NEW s \in Sync, NEW c \in Class, NEW force \in BOOLEAN,
           Index!Lookup(s, c, force)
    PROVE  IndexInv'
<1>1. PICK causes : row \in Cached(causes) /\ sync \in [Sync -> Looking(causes)]
    BY DEF IndexInv, IndexTyped
<1> DEFINE verdict == Index!Cached(c, force)
           more == causes \cup {"none"}
           blank == Index!Result(c, "none", "none", 0)
           miss == [blank EXCEPT !.pc = "fetch", !.force = force]
           hit == [pc |-> "idle", class |-> c, force |-> FALSE, verdict |-> verdict,
                   cause |-> row.cause, age |-> minute - row.at, read |-> {}]
<1>2. row \in Cached(more) /\ sync \in [Sync -> Looking(more)]
    <2>1. Looking(causes) \subseteq Looking(more) BY DEF Looking
    <2> QED BY <1>1, <2>1 DEF Cached
<1>3. UNCHANGED <<minute, index, row>> BY DEF Index!Lookup
<1>4. CASE verdict = "miss"
    <2>1. sync' = [sync EXCEPT ![s] = miss] BY <1>4 DEF Index!Lookup
    <2>2. blank \in Looking(more) /\ blank.verdict = "none"
        BY DEF Index!Result, Looking, Outcomes
    <2> HIDE DEF blank
    <2>3. miss \in Looking(more) /\ miss.verdict # "matched" BY <2>2 DEF Looking
    <2> HIDE DEF miss, more
    <2> QED BY <1>2, <1>3, <2>1, <2>3, SyncKeeps
<1>5. CASE verdict # "miss"
    <2>1. sync' = [sync EXCEPT ![s] = hit]
        BY <1>5 DEF Index!Lookup, Index!Result
    <2>2. verdict \in Outcomes BY <1>5 DEF Index!Cached, Index!Match, Outcomes
    <2>3. verdict = "matched" => c \in index
        <3>1. verdict = "matched" => c \in row.classes
            BY DEF Index!Cached, Index!Match
        <3>2. row.classes \subseteq index BY <1>1 DEF Cached
        <3> QED BY <3>1, <3>2
    <2> HIDE DEF verdict
    <2>4. hit \in Looking(more)
        <3>1. minute - row.at \in Int /\ row.cause \in more
            BY <1>1 DEF Cached, IndexInv, IndexTyped
        <3> QED BY <2>2, <3>1 DEF Looking
    <2>5. hit.verdict = "matched" => hit.class \in index BY <2>3
    <2> HIDE DEF hit, more
    <2> QED BY <1>2, <1>3, <2>1, <2>4, <2>5, SyncKeeps
<1> QED BY <1>4, <1>5

LEMMA FetchKeeps ==
    ASSUME IndexInv, NEW s \in Sync, Index!Fetch(s)
    PROVE  IndexInv'
<1>1. PICK causes : row \in Cached(causes) /\ sync \in [Sync -> Looking(causes)]
    BY DEF IndexInv, IndexTyped
<1>2. PICK answer, classes :
         /\ classes \in SUBSET index
         /\ sync' = [sync EXCEPT ![s].pc = "store", ![s].cause = answer, ![s].read = classes]
    <2>1. PICK script : sync' = [sync EXCEPT ![s].pc = "store", ![s].cause = Index!Do(script),
                            ![s].read = IF Index!Do(script) = "ok" THEN index ELSE {}]
        BY DEF Index!Fetch
    <2> DEFINE answer == Index!Do(script)
               classes == IF answer = "ok" THEN index ELSE {}
    <2>2. classes \in SUBSET index OBVIOUS
    <2> HIDE DEF answer
    <2>3. sync' = [sync EXCEPT ![s].pc = "store", ![s].cause = answer, ![s].read = classes]
        BY <2>1 DEF answer
    <2> HIDE DEF classes
    <2> QED BY <2>2, <2>3
<1> DEFINE more == causes \cup {answer}
           fetched == [sync[s] EXCEPT !.pc = "store", !.cause = answer, !.read = classes]
<1>3. UNCHANGED <<minute, index, row>> BY DEF Index!Fetch
<1>4. Looking(causes) \subseteq Looking(more) BY DEF Looking
<1>5. row' \in Cached(more) /\ sync \in [Sync -> Looking(more)]
    BY <1>1, <1>3, <1>4 DEF Cached
<1>6. /\ fetched \in Looking(more)
      /\ fetched.verdict = sync[s].verdict /\ fetched.class = sync[s].class
    <2>1. sync[s] \in Looking(more) BY <1>5
    <2> QED BY <1>2, <2>1 DEF Looking
<1>7. fetched.verdict = "matched" => fetched.class \in index
    BY <1>6 DEF IndexInv, Index!MatchedIsListed
<1>8. sync' = [sync EXCEPT ![s] = fetched] BY <1>1, <1>2
<1> HIDE DEF fetched, more
<1> QED BY <1>3, <1>5, <1>6, <1>7, <1>8, SyncKeeps

LEMMA StoreKeeps ==
    ASSUME IndexEnd \in Nat \ {0}, IndexInv, NEW s \in Sync, Index!Store(s)
    PROVE  IndexInv'
<1>1. PICK causes : row \in Cached(causes) /\ sync \in [Sync -> Looking(causes)]
    BY DEF IndexInv, IndexTyped
<1> DEFINE me == sync[s]
           more == causes \cup {"none", "incomplete"}
           failed(cause) == [row EXCEPT !.status = "failed", !.cause = cause, !.at = minute]
           parsed == [status |-> "parsed", classes |-> me.read, cause |-> "none", at |-> minute]
           verdict == Index!Match(me.class, me.read)
           result(v, cause) == [pc |-> "idle", class |-> me.class, force |-> FALSE, verdict |-> v,
                                cause |-> cause, age |-> 0, read |-> {}]
<1>2. sync \in [Sync -> Looking(more)] /\ row \in Cached(more)
    <2>1. Looking(causes) \subseteq Looking(more) BY DEF Looking
    <2> QED BY <1>1, <2>1 DEF Cached
<1>3. UNCHANGED <<minute, index>> BY DEF Index!Store
<1>4. /\ me.class \in Class /\ me.read \subseteq index /\ me.cause \in more
      /\ minute \in 0..minute
    BY <1>2 DEF Looking, IndexInv, IndexTyped
<1>5. PICK v \in {"error", "unmatched", "matched"}, cause \in more :
         /\ row' = failed(me.cause) \/ row' = failed("incomplete") \/ row' = parsed
         /\ sync' = [sync EXCEPT ![s] = result(v, cause)]
         /\ v = "matched" => me.class \in me.read
    <2>1. CASE row' = failed(me.cause) /\ sync' = [sync EXCEPT ![s] = result("error", me.cause)]
        BY <1>4, <2>1
    <2>2. CASE row' = failed("incomplete")
               /\ sync' = [sync EXCEPT ![s] = result("unmatched", "incomplete")]
        BY <2>2
    <2>3. CASE row' = parsed /\ sync' = [sync EXCEPT ![s] = result(verdict, "none")]
        <3>1. /\ verdict \in {"unmatched", "matched"}
              /\ verdict = "matched" => me.class \in me.read
            BY DEF Index!Match
        <3> QED BY <2>3, <3>1
    <2> QED BY <2>1, <2>2, <2>3
        DEF Index!Store, Index!StoreFailure, Index!StoreMetadata, Index!Result
<1>6. row' \in Cached(more)
    <2>1. failed(me.cause) \in Cached(more) /\ failed("incomplete") \in Cached(more)
        BY <1>2, <1>4 DEF Cached
    <2>2. parsed \in Cached(more) BY <1>4 DEF Cached
    <2> QED BY <1>5, <2>1, <2>2
<1>7. result(v, cause) \in Looking(more) BY <1>4, <1>5 DEF Looking, Outcomes
<1>8. result(v, cause).verdict = "matched" => result(v, cause).class \in index
    BY <1>4, <1>5
<1> HIDE DEF result, more, failed, parsed
<1> QED BY <1>2, <1>3, <1>5, <1>6, <1>7, <1>8, SyncKeeps

\* A trust's filing is taken for a fund only if SEC's index names the fund's class,
\* whatever was cached for another fund (matchFundFilingRelationships).
THEOREM FundsAreListed ==
    ASSUME IndexEnd \in Nat \ {0}
    PROVE  Spec => [](Index!TypeOK /\ Index!MatchedIsListed)
<1>1. Init => Index!Init BY PartsStart
<1>2. [Next]_all => [Index!Next]_Index!vars BY PartsStep DEF Index!vars, indexVars
<1>3. Index!Init => IndexInv BY IndexStarts
<1>4. IndexInv /\ [Index!Next]_Index!vars => IndexInv'
    BY IndexGrows, LookupKeeps, FetchKeeps, StoreKeeps DEF Index!Next
<1>5. IndexInv => Index!TypeOK /\ Index!MatchedIsListed
    <2> SUFFICES ASSUME IndexInv PROVE Index!TypeOK BY DEF IndexInv
    <2> QED BY DEF IndexInv, IndexTyped, Index!TypeOK, Cached, Looking, Outcomes
<1> QED BY <1>1, <1>2, <1>3, <1>4, <1>5, PTL DEF Spec, all

-----------------------------------------------------------------------------
(* The radar.  A row that says "listed" carries evidence, and so does each *)
(* copy of it a job holds; evidence is never taken back.  A filing is new  *)
(* to one job only, the one that stored it, and a job comes to each of its *)
(* stages once.                                                            *)

\* "None" is no other value of a column.
RadarValues ==
    /\ Forms \in Seq(STRING) /\ Forms # << >>
    /\ Nobody \notin Ticker \cup {"sec", "calendar", "longbridge", "market", "exchange"}
    /\ Nobody \notin {"parsed", "unsupported", "initial", "correction", "follow_on", "duplicate"}

RadarStage ==
    {"mapping", "confirm", "feed", "sweep", "deliver", "calendar", "offerings", "progress"}
RadarAt == {"begin", "save", "asked", "store", "history", "parse", "price", "record"}
RadarRunner == {"scheduler", "listings", "request"}
Entry == [ticker : Ticker \cup {Nobody}, exchange : {Nobody, "exchange"}]
Issuer ==
    [exists : BOOLEAN, ticker : Ticker \cup {Nobody}, source : {Nobody, "sec", "calendar"},
     exchange : {Nobody, "exchange", "market"},
     listedBy : {Nobody, "sec", "longbridge", "calendar"},
     verified : BOOLEAN, checked : BOOLEAN, swept : BOOLEAN, offer : Nat]
RadarJob(shown, limit) ==
    [left : Seq(RadarStage), at : RadarAt, seen : Issuer, entry : Entry,
     confirmed : BOOLEAN, baseline : BOOLEAN, known : BOOLEAN, backfilled : BOOLEAN,
     todo : SUBSET (1..limit), new : SUBSET Radar!Filing, loud : SUBSET Radar!Filing,
     offers : SUBSET Radar!Filing, key : shown \cup {Nobody}, id : Nat]
Terms ==
    [status : {Nobody, "parsed", "unsupported"},
     type : {Nobody, "initial", "correction", "follow_on", "duplicate"}, recent : BOOLEAN]

\* A row of market data: verified is on evidence, and what has data exists.
Founded(x, known) ==
    /\ x.verified <=> x.exchange # Nobody
    /\ x.verified => /\ x.ticker # Nobody /\ x.listedBy \in {"sec", "longbridge"}
                     /\ <<x.ticker, x.exchange>> \in known
    /\ x # Radar!NoRow => x.exists

\* No stage comes twice.
Distinct(s) == \A i, j \in 1..Len(s) : s[i] = s[j] => i = j
Ahead(s, x) == \E i \in 1..Len(s) : s[i] = x

\* A job's copy of the row, its progress key and what it stored, with the evidence,
\* whether there is a row, what was shown to followers and what is stored.
JobFits(l, known, exists, shown, kept, limit) ==
    /\ l \in RadarJob(shown, limit) /\ l.left # << >> /\ Distinct(l.left)
    /\ Founded(l.seen, known) /\ (l.seen.exists => exists)
    /\ l.at = "asked" => l.seen.ticker # Nobody
    /\ Head(l.left) = "calendar" /\ l.at = "save" => ~ l.seen.verified
    /\ l.at = "record" => l.key \in shown
    /\ l.new \subseteq kept /\ l.loud \subseteq l.new /\ l.offers \subseteq l.new

JobsFit ==
    /\ radar \in [RadarRunner -> {Radar!Idle} \cup RadarJob(heard, accepted)]
    /\ \A r \in RadarRunner :
          radar[r] # Radar!Idle => JobFits(radar[r], evidence, issuer.exists, heard, filings, accepted)

Working(r) == r \in RadarRunner /\ radar[r] # Radar!Idle

\* A filing is new to one job only.
NewOnce == \A r, s \in RadarRunner : r # s /\ Working(r) /\ Working(s) =>
               radar[r].new \cap radar[s].new = {}

\* What was told is stored, and nobody to whom it is new comes to tell it again.
TellOnce ==
    /\ told \in [Radar!Filing -> [filing : 0..1, offer : 0..1]]
    /\ \A f \in Radar!Filing : told[f].filing = 1 =>
          f \in filings /\ \A r \in RadarRunner :
             Working(r) /\ f \in radar[r].new => ~ Ahead(radar[r].left, "deliver")
    /\ \A f \in Radar!Filing : told[f].offer = 1 =>
          f \in filings /\ \A r \in RadarRunner :
             Working(r) /\ f \in radar[r].new => ~ Ahead(radar[r].left, "offerings")

OffersFit ==
    /\ offering \in [Radar!Offering -> Terms]
    /\ \A f \in Radar!Offering : offering[f].status = "parsed" <=> offering[f].type # Nobody
    /\ \A f, g \in Radar!Offering :
          offering[f].type = "initial" /\ offering[g].type = "initial" => f = g

TablesFit ==
    /\ accepted \in Nat /\ accepted <= Len(Forms) /\ entry \in Entry
    /\ filings \subseteq 1..accepted
    /\ issuer \in Issuer /\ Founded(issuer, evidence)
    /\ follow \in [id : Nat, key : heard \cup {Nobody}] /\ (follow.id # 0 => follow.key \in heard)
    /\ changes \in Nat

RadarInv == TablesFit /\ OffersFit /\ JobsFit /\ NewOnce /\ TellOnce

LEMMA StagesOnce ==
    ASSUME NEW name \in {"scan", "refresh", "lifecycle", "offerings", "listings"}
    PROVE  /\ Radar!Stages(name) \in Seq(RadarStage) /\ Radar!Stages(name) # << >>
           /\ Distinct(Radar!Stages(name))
<1>1. CASE name = "scan"
    <2> DEFINE s == <<"mapping", "feed", "deliver", "progress">>
    <2>1. Radar!Stages(name) = s BY <1>1 DEF Radar!Stages
    <2>2. s \in Seq(RadarStage) BY DEF RadarStage
    <2>4. Len(s) # 0 /\ Len(<< >>) = 0 OBVIOUS
    <2>5. s # << >> BY <2>4
    <2>3. Distinct(s) BY SMT DEF Distinct
    <2> QED BY <2>1, <2>2, <2>3, <2>5
<1>2. CASE name = "refresh"
    <2> DEFINE s == <<"mapping", "confirm", "feed", "sweep", "deliver", "calendar", "offerings", "progress">>
    <2>1. Radar!Stages(name) = s BY <1>2 DEF Radar!Stages
    <2>2. s \in Seq(RadarStage) BY DEF RadarStage
    <2>4. Len(s) # 0 /\ Len(<< >>) = 0 OBVIOUS
    <2>5. s # << >> BY <2>4
    <2>3. Distinct(s) BY SMT DEF Distinct
    <2> QED BY <2>1, <2>2, <2>3, <2>5
<1>3. CASE name = "lifecycle"
    <2> DEFINE s == <<"sweep">>
    <2>1. Radar!Stages(name) = s BY <1>3 DEF Radar!Stages
    <2>2. s \in Seq(RadarStage) BY DEF RadarStage
    <2>4. Len(s) # 0 /\ Len(<< >>) = 0 OBVIOUS
    <2>5. s # << >> BY <2>4
    <2>3. Distinct(s) BY SMT DEF Distinct
    <2> QED BY <2>1, <2>2, <2>3, <2>5
<1>4. CASE name = "offerings"
    <2> DEFINE s == <<"offerings">>
    <2>1. Radar!Stages(name) = s BY <1>4 DEF Radar!Stages
    <2>2. s \in Seq(RadarStage) BY DEF RadarStage
    <2>4. Len(s) # 0 /\ Len(<< >>) = 0 OBVIOUS
    <2>5. s # << >> BY <2>4
    <2>3. Distinct(s) BY SMT DEF Distinct
    <2> QED BY <2>1, <2>2, <2>3, <2>5
<1>5. CASE name = "listings"
    <2> DEFINE s == <<"confirm", "calendar">>
    <2>1. Radar!Stages(name) = s BY <1>5 DEF Radar!Stages
    <2>2. s \in Seq(RadarStage) BY DEF RadarStage
    <2>4. Len(s) # 0 /\ Len(<< >>) = 0 OBVIOUS
    <2>5. s # << >> BY <2>4
    <2>3. Distinct(s) BY SMT DEF Distinct
    <2> QED BY <2>1, <2>2, <2>3, <2>5
<1> QED BY <1>1, <1>2, <1>3, <1>4, <1>5

\* The next stage of a job, which the rest of its stages do not repeat.
LEMMA NextStage ==
    ASSUME NEW shown, NEW limit, NEW l \in RadarJob(shown, limit), l.left # << >>, Distinct(l.left)
    PROVE  /\ \/ Radar!Done(l) = Radar!Idle
              \/ /\ Radar!Done(l) = [l EXCEPT !.left = Tail(l.left), !.at = "begin"]
                 /\ Tail(l.left) # << >>
           /\ Tail(l.left) \in Seq(RadarStage) /\ Distinct(Tail(l.left))
           /\ ~ Ahead(Tail(l.left), Head(l.left))
           /\ \A x : Ahead(Tail(l.left), x) => Ahead(l.left, x)
<1> DEFINE s == l.left
           n == Len(s)
<1>1. s \in Seq(RadarStage) /\ n \in Nat /\ n # 0 BY EmptySeq DEF RadarJob
<1>2. /\ Tail(s) \in Seq(RadarStage) /\ Len(Tail(s)) = n - 1
      /\ \A i \in 1..(n - 1) : Tail(s)[i] = s[i + 1]
    BY <1>1, HeadTailProperties
<1>3. Head(s) = s[1] BY <1>1, HeadTailProperties
<1> HIDE DEF s
<1>4. Distinct(Tail(s)) BY <1>1, <1>2, SMT DEF Distinct, s
<1>5. ~ Ahead(Tail(s), Head(s)) BY <1>1, <1>2, <1>3, SMT DEF Distinct, Ahead, s
<1>6. \A x : Ahead(Tail(s), x) => Ahead(s, x) BY <1>1, <1>2, SMT DEF Ahead
<1>7. n # 1 => Tail(s) # << >>
    <2>1. Len(<< >>) = 0 OBVIOUS
    <2>2. n # 1 => Len(Tail(s)) # 0 BY <1>1, <1>2
    <2> QED BY <2>1, <2>2
<1>8. Radar!Done(l) = IF n = 1 THEN Radar!Idle ELSE [l EXCEPT !.left = Tail(s), !.at = "begin"]
    BY DEF Radar!Done, Radar!Go, s, RadarJob
<1> QED BY <1>2, <1>4, <1>5, <1>6, <1>7, <1>8 DEF s

LEMMA NextStageFits ==
    ASSUME NEW l, NEW known, NEW exists, NEW shown, NEW kept, NEW limit, JobFits(l, known, exists, shown, kept, limit)
    PROVE  \/ Radar!Done(l) = Radar!Idle
           \/ /\ JobFits(Radar!Done(l), known, exists, shown, kept, limit)
              /\ Radar!Done(l).new = l.new
              /\ \A x : Ahead(Radar!Done(l).left, x) => Ahead(l.left, x)
              /\ ~ Ahead(Radar!Done(l).left, Head(l.left))
<1>1. l \in RadarJob(shown, limit) /\ l.left # << >> /\ Distinct(l.left) BY DEF JobFits
<1> DEFINE d == Radar!Done(l)
<1>2. CASE d = Radar!Idle BY <1>2
<1>3. CASE /\ d = [l EXCEPT !.left = Tail(l.left), !.at = "begin"] /\ Tail(l.left) # << >>
    <2>1. /\ Tail(l.left) \in Seq(RadarStage) /\ Distinct(Tail(l.left))
          /\ ~ Ahead(Tail(l.left), Head(l.left))
          /\ \A x : Ahead(Tail(l.left), x) => Ahead(l.left, x)
        BY <1>1, NextStage
    <2>2. /\ d.left = Tail(l.left) /\ d.at = "begin" /\ d.seen = l.seen /\ d.key = l.key
          /\ d.new = l.new /\ d.loud = l.loud /\ d.offers = l.offers
        BY <1>1, <1>3 DEF RadarJob
    <2>3. d \in RadarJob(shown, limit) BY <1>1, <1>3, <2>1 DEF RadarJob, RadarAt
    <2> QED BY <1>3, <2>1, <2>2, <2>3 DEF JobFits
<1> QED BY <1>1, <1>2, <1>3, NextStage

\* The rest of the world moves on.
LEMMA FitsOn ==
    ASSUME NEW l, NEW known, NEW exists, NEW shown, NEW kept, NEW limit,
           JobFits(l, known, exists, shown, kept, limit),
           NEW known2, NEW exists2, NEW shown2, NEW kept2, NEW limit2,
           known \subseteq known2, exists => exists2, shown \subseteq shown2, kept \subseteq kept2,
           1..limit \subseteq 1..limit2
    PROVE  JobFits(l, known2, exists2, shown2, kept2, limit2)
<1>1. l \in RadarJob(shown2, limit2) BY DEF JobFits, RadarJob
<1>2. Founded(l.seen, known2) BY DEF JobFits, Founded
<1> QED BY <1>1, <1>2 DEF JobFits

\* One job moves, the others stay.
LEMMA JobsMove ==
    ASSUME RadarInv, NEW r \in RadarRunner, NEW l, radar' = [radar EXCEPT ![r] = l],
           evidence \subseteq evidence', issuer.exists => issuer'.exists,
           heard \subseteq heard', filings \subseteq filings', 1..accepted \subseteq 1..accepted',
           l = Radar!Idle \/ JobFits(l, evidence', issuer'.exists, heard', filings', accepted')
    PROVE  JobsFit'
<1>1. radar \in [RadarRunner -> {Radar!Idle} \cup RadarJob(heard, accepted)] BY DEF RadarInv, JobsFit
<1>2. \A x \in RadarJob(heard, accepted) : x \in RadarJob(heard', accepted') BY DEF RadarJob
<1>3. l \in {Radar!Idle} \cup RadarJob(heard', accepted') BY DEF JobFits
<1>4. radar' \in [RadarRunner -> {Radar!Idle} \cup RadarJob(heard', accepted')] BY <1>1, <1>2, <1>3
<1>5. ASSUME NEW s \in RadarRunner, radar'[s] # Radar!Idle
      PROVE  JobFits(radar'[s], evidence', issuer'.exists, heard', filings', accepted')
    <2>1. CASE s = r BY <1>1, <1>5, <2>1
    <2>2. CASE s # r
        <3>1. radar'[s] = radar[s] BY <1>1, <2>2
        <3>2. JobFits(radar[s], evidence, issuer.exists, heard, filings, accepted)
            BY <1>5, <3>1 DEF RadarInv, JobsFit
        <3> QED BY <3>1, <3>2, FitsOn
    <2> QED BY <2>1, <2>2
<1> QED BY <1>4, <1>5 DEF JobsFit

LEMMA JobsStay ==
    ASSUME RadarInv, radar' = radar,
           evidence \subseteq evidence', issuer.exists => issuer'.exists,
           heard \subseteq heard', filings \subseteq filings', 1..accepted \subseteq 1..accepted'
    PROVE  JobsFit'
<1>1. radar \in [RadarRunner -> {Radar!Idle} \cup RadarJob(heard, accepted)] BY DEF RadarInv, JobsFit
<1>2. \A x \in RadarJob(heard, accepted) : x \in RadarJob(heard', accepted') BY DEF RadarJob
<1>3. radar' \in [RadarRunner -> {Radar!Idle} \cup RadarJob(heard', accepted')] BY <1>1, <1>2
<1>4. ASSUME NEW s \in RadarRunner, radar'[s] # Radar!Idle
      PROVE  JobFits(radar'[s], evidence', issuer'.exists, heard', filings', accepted')
    <2>1. JobFits(radar[s], evidence, issuer.exists, heard, filings, accepted) BY <1>4 DEF RadarInv, JobsFit
    <2> QED BY <2>1, FitsOn
<1> QED BY <1>3, <1>4 DEF JobsFit

\* A job to which nothing becomes new and that goes on with its stages.
Onward(l, m) == l.new = m.new /\ \A x : Ahead(l.left, x) => Ahead(m.left, x)

LEMMA NewsMove ==
    ASSUME RadarInv, NEW r \in RadarRunner, radar[r] # Radar!Idle, NEW l,
           radar' = [radar EXCEPT ![r] = l], l = Radar!Idle \/ Onward(l, radar[r]),
           told' = told, filings \subseteq filings'
    PROVE  NewOnce' /\ TellOnce'
<1>1. radar \in [RadarRunner -> {Radar!Idle} \cup RadarJob(heard, accepted)] BY DEF RadarInv, JobsFit
<1>2. \A s \in RadarRunner : radar'[s] # Radar!Idle =>
         radar[s] # Radar!Idle /\ Onward(radar'[s], radar[s])
    BY <1>1 DEF Onward
<1>3. NewOnce' BY <1>2 DEF RadarInv, NewOnce, Working, Onward
<1>4. TellOnce' BY <1>2 DEF RadarInv, TellOnce, Working, Onward
<1> QED BY <1>3, <1>4

LEMMA NewsStay ==
    ASSUME RadarInv, radar' = radar, told' = told, filings \subseteq filings'
    PROVE  NewOnce' /\ TellOnce'
BY DEF RadarInv, NewOnce, TellOnce, Working

Fits(l) == JobFits(l, evidence, issuer.exists, heard, filings, accepted)

LEMMA InStage ==
    ASSUME RadarInv, NEW r \in RadarRunner, NEW name, NEW pos, Radar!In(r, name, pos)
    PROVE  /\ radar[r] # Radar!Idle /\ radar[r] \in RadarJob(heard, accepted) /\ Fits(radar[r])
           /\ Head(radar[r].left) = name /\ radar[r].at = pos
<1>1. radar[r] # Radar!Idle BY DEF Radar!In, Radar!Idle
<1> QED BY <1>1 DEF RadarInv, JobsFit, JobFits, Fits, Radar!In

\* A job that reads, or goes on to its next stage.
LEMMA JobReads ==
    ASSUME RadarInv, NEW r \in RadarRunner, radar[r] # Radar!Idle, NEW l, Radar!Set(r, l),
           UNCHANGED <<accepted, entry, filings, offering, issuer, told, heard, evidence, follow,
                       changes>>,
           l = Radar!Idle \/ (Fits(l) /\ Onward(l, radar[r]))
    PROVE  RadarInv'
<1>1. TablesFit' /\ OffersFit' BY DEF RadarInv, TablesFit, OffersFit
<1>2. JobsFit' BY JobsMove DEF Radar!Set, Fits
<1>3. NewOnce' /\ TellOnce' BY NewsMove DEF Radar!Set
<1> QED BY <1>1, <1>2, <1>3 DEF RadarInv

LEMMA StageDone ==
    ASSUME RadarInv, NEW r \in RadarRunner, radar[r] # Radar!Idle, NEW l, Fits(l), Onward(l, radar[r])
    PROVE  \/ Radar!Done(l) = Radar!Idle
           \/ Fits(Radar!Done(l)) /\ Onward(Radar!Done(l), radar[r])
<1>1. \/ Radar!Done(l) = Radar!Idle
      \/ /\ JobFits(Radar!Done(l), evidence, issuer.exists, heard, filings, accepted)
         /\ Radar!Done(l).new = l.new
         /\ \A x : Ahead(Radar!Done(l).left, x) => Ahead(l.left, x)
    BY NextStageFits DEF Fits
<1> QED BY <1>1 DEF Fits, Onward

LEMMA SelfOnward == \A r : Onward(radar[r], radar[r])
BY DEF Onward

LEMMA ReadMappingStep ==
    ASSUME RadarInv, NEW r \in RadarRunner, Radar!ReadMapping(r)
    PROVE  RadarInv'
<1> DEFINE old == radar[r]
           l == [old EXCEPT !.seen = issuer, !.entry = entry,
                            !.confirmed = entry.ticker # Nobody /\ entry.exchange # Nobody]
<1>1. Radar!In(r, "mapping", "begin") BY DEF Radar!ReadMapping
<1>2. old # Radar!Idle /\ old \in RadarJob(heard, accepted) /\ Fits(old) /\ Head(old.left) = "mapping"
      /\ old.at = "begin"
    BY <1>1, InStage
<1>3. issuer \in Issuer /\ entry \in Entry /\ Founded(issuer, evidence) BY DEF RadarInv, TablesFit
<1>4. l \in RadarJob(heard, accepted) BY <1>2, <1>3 DEF RadarJob
<1>5. /\ l.left = old.left /\ l.at = "begin" /\ l.seen = issuer /\ l.key = old.key
      /\ l.new = old.new /\ l.loud = old.loud /\ l.offers = old.offers
    BY <1>2 DEF RadarJob
<1>6. Fits(l) /\ Onward(l, old) BY <1>2, <1>3, <1>4, <1>5 DEF Fits, JobFits, Onward
<1>7. Radar!Go(l, "save") \in RadarJob(heard, accepted) BY <1>4 DEF Radar!Go, RadarJob, RadarAt
<1>8. LET g == Radar!Go(l, "save") IN
          /\ g.left = l.left /\ g.at = "save" /\ g.seen = l.seen /\ g.key = l.key
          /\ g.new = l.new /\ g.loud = l.loud /\ g.offers = l.offers
    BY <1>4 DEF Radar!Go, RadarJob
<1>9. Fits(Radar!Go(l, "save")) /\ Onward(Radar!Go(l, "save"), old)
    BY <1>2, <1>5, <1>6, <1>7, <1>8 DEF Fits, JobFits, Onward
<1>10. /\ (Radar!Done(old) = Radar!Idle \/ (Fits(Radar!Done(old)) /\ Onward(Radar!Done(old), old)))
       /\ (Radar!Done(l) = Radar!Idle \/ (Fits(Radar!Done(l)) /\ Onward(Radar!Done(l), old)))
    BY <1>2, <1>6, SelfOnward, StageDone
<1>11. PICK m : /\ Radar!Set(r, m)
                /\ m = Radar!Done(old) \/ m = Radar!Go(l, "save") \/ m = Radar!Done(l)
    BY DEF Radar!ReadMapping
<1>12. m = Radar!Idle \/ (Fits(m) /\ Onward(m, old)) BY <1>9, <1>10, <1>11
<1> HIDE DEF l
<1> QED BY <1>2, <1>11, <1>12, JobReads DEF Radar!ReadMapping, Radar!world

\* What a job needs to fit when its stages and its news stay.
LEMMA SameNews ==
    ASSUME NEW old, Fits(old), NEW l \in RadarJob(heard, accepted), l.left = old.left, l.new = old.new,
           l.loud = old.loud, l.offers = old.offers,
           Founded(l.seen, evidence), l.seen.exists => issuer.exists,
           l.at = "asked" => l.seen.ticker # Nobody,
           Head(old.left) = "calendar" /\ l.at = "save" => ~ l.seen.verified,
           l.at = "record" => l.key \in heard
    PROVE  Fits(l) /\ Onward(l, old)
BY DEF Fits, JobFits, Onward

LEMMA LoadCandidateStep ==
    ASSUME RadarInv, NEW r \in RadarRunner, Radar!LoadCandidate(r)
    PROVE  RadarInv'
<1> DEFINE old == radar[r]
           l == [old EXCEPT !.at = "asked", !.seen = issuer]
<1>1. Radar!In(r, "confirm", "begin") BY DEF Radar!LoadCandidate
<1>2. old # Radar!Idle /\ old \in RadarJob(heard, accepted) /\ Fits(old) /\ Head(old.left) = "confirm"
    BY <1>1, InStage
<1>3. issuer \in Issuer /\ Founded(issuer, evidence) BY DEF RadarInv, TablesFit
<1>4. /\ l \in RadarJob(heard, accepted) /\ l.left = old.left /\ l.at = "asked" /\ l.seen = issuer
      /\ l.new = old.new /\ l.loud = old.loud /\ l.offers = old.offers
    BY <1>2, <1>3 DEF RadarJob, RadarAt
<1>5. issuer.ticker # Nobody => Fits(l) /\ Onward(l, old) BY <1>2, <1>3, <1>4, SameNews
<1>6. Radar!Done(old) = Radar!Idle \/ (Fits(Radar!Done(old)) /\ Onward(Radar!Done(old), old))
    BY <1>2, SelfOnward, StageDone
<1>7. PICK m : /\ Radar!Set(r, m)
               /\ m = Radar!Done(old) \/ (m = l /\ issuer.ticker # Nobody)
    BY <1>2 DEF Radar!LoadCandidate, Radar!Go, RadarJob
<1>8. m = Radar!Idle \/ (Fits(m) /\ Onward(m, old)) BY <1>5, <1>6, <1>7
<1> HIDE DEF l
<1> QED BY <1>2, <1>7, <1>8, JobReads DEF Radar!LoadCandidate, Radar!world

LEMMA ReadCalendarStep ==
    ASSUME RadarInv, NEW r \in RadarRunner, NEW t \in Ticker \cup {Nobody}, Radar!ReadCalendar(r, t)
    PROVE  RadarInv'
<1> DEFINE old == radar[r]
           l == [old EXCEPT !.at = "save", !.seen = issuer, !.entry.ticker = t]
<1>1. Radar!In(r, "calendar", "begin") BY DEF Radar!ReadCalendar
<1>2. old # Radar!Idle /\ old \in RadarJob(heard, accepted) /\ Fits(old) BY <1>1, InStage
<1>3. issuer \in Issuer /\ Founded(issuer, evidence) BY DEF RadarInv, TablesFit
<1>4. [old.entry EXCEPT !.ticker = t] \in Entry BY <1>2 DEF RadarJob, Entry
<1>5. /\ l \in RadarJob(heard, accepted) /\ l.left = old.left /\ l.at = "save" /\ l.seen = issuer
      /\ l.new = old.new /\ l.loud = old.loud /\ l.offers = old.offers
    BY <1>2, <1>3, <1>4 DEF RadarJob, RadarAt
<1>6. ~ issuer.verified => Fits(l) /\ Onward(l, old) BY <1>2, <1>3, <1>5, SameNews
<1>7. Radar!Done(old) = Radar!Idle \/ (Fits(Radar!Done(old)) /\ Onward(Radar!Done(old), old))
    BY <1>2, SelfOnward, StageDone
<1>8. PICK m : /\ Radar!Set(r, m)
               /\ m = Radar!Done(old) \/ (m = l /\ ~ issuer.verified)
    BY <1>2 DEF Radar!ReadCalendar, Radar!Go, RadarJob
<1>9. m = Radar!Idle \/ (Fits(m) /\ Onward(m, old)) BY <1>6, <1>7, <1>8
<1> HIDE DEF l
<1> QED BY <1>2, <1>8, <1>9, JobReads DEF Radar!ReadCalendar, Radar!world

\* Steps that look and note what is to be done.
LEMMA ReadFeedStep ==
    ASSUME RadarInv, NEW r \in RadarRunner, Radar!ReadFeed(r)
    PROVE  RadarInv'
<1>0. PICK empty \in BOOLEAN :
          Radar!Set(r, [Radar!Go(radar[r], "store") EXCEPT !.baseline = empty,
                            !.known = Radar!Tracked, !.todo = 1..accepted])
    BY DEF Radar!ReadFeed
<1> DEFINE old == radar[r]
           l == [old EXCEPT !.at = "store", !.baseline = empty, !.known = Radar!Tracked,
                            !.todo = 1..accepted]
<1>1. Radar!In(r, "feed", "begin") BY DEF Radar!ReadFeed
<1>2. old # Radar!Idle /\ old \in RadarJob(heard, accepted) /\ Fits(old) BY <1>1, InStage
<1>3. 1..accepted \subseteq Radar!Filing
    BY LenProperties DEF RadarInv, TablesFit, Radar!Filing
<1>4. Radar!Tracked \in BOOLEAN BY DEF Radar!Tracked
<1>5. /\ l \in RadarJob(heard, accepted) /\ l.left = old.left /\ l.at = "store" /\ l.seen = old.seen
      /\ l.new = old.new /\ l.loud = old.loud /\ l.offers = old.offers
    BY <1>2, <1>3, <1>4 DEF RadarJob, RadarAt
<1>6. Fits(l) /\ Onward(l, old) BY <1>2, <1>5, SameNews DEF Fits, JobFits
<1>7. Radar!Set(r, l) BY <1>0, <1>2 DEF Radar!Go, RadarJob
<1>8. PICK m : m = l OBVIOUS
<1> HIDE DEF l
<1> QED BY <1>2, <1>6, <1>7, <1>8, JobReads DEF Radar!ReadFeed, Radar!world

LEMMA FeedDoneStep ==
    ASSUME RadarInv, NEW r \in RadarRunner, Radar!FeedDone(r)
    PROVE  RadarInv'
<1>1. Radar!In(r, "feed", "store") BY DEF Radar!FeedDone
<1>2. radar[r] # Radar!Idle /\ Fits(radar[r]) BY <1>1, InStage
<1>3. PICK m : m = Radar!Done(radar[r]) OBVIOUS
<1>4. m = Radar!Idle \/ (Fits(m) /\ Onward(m, radar[r])) BY <1>2, <1>3, SelfOnward, StageDone
<1> QED BY <1>2, <1>3, <1>4, JobReads DEF Radar!FeedDone, Radar!world

LEMMA SweepStep ==
    ASSUME RadarInv, NEW r \in RadarRunner, Radar!Sweep(r)
    PROVE  RadarInv'
<1> DEFINE old == radar[r]
           l == [old EXCEPT !.at = "history"]
<1>1. Radar!In(r, "sweep", "begin") BY DEF Radar!Sweep
<1>2. old # Radar!Idle /\ old \in RadarJob(heard, accepted) /\ Fits(old) BY <1>1, InStage
<1>3. /\ l \in RadarJob(heard, accepted) /\ l.left = old.left /\ l.at = "history" /\ l.seen = old.seen
      /\ l.new = old.new /\ l.loud = old.loud /\ l.offers = old.offers
    BY <1>2 DEF RadarJob, RadarAt
<1>4. Fits(l) /\ Onward(l, old) BY <1>2, <1>3, SameNews DEF Fits, JobFits
<1>5. Radar!Done(old) = Radar!Idle \/ (Fits(Radar!Done(old)) /\ Onward(Radar!Done(old), old))
    BY <1>2, SelfOnward, StageDone
<1>6. PICK m : Radar!Set(r, m) /\ (m = Radar!Done(old) \/ m = l)
    BY <1>2 DEF Radar!Sweep, Radar!Go, RadarJob
<1>7. m = Radar!Idle \/ (Fits(m) /\ Onward(m, old)) BY <1>4, <1>5, <1>6
<1> HIDE DEF l
<1> QED BY <1>2, <1>6, <1>7, JobReads DEF Radar!Sweep, Radar!world

LEMMA LoadPendingStep ==
    ASSUME RadarInv, NEW r \in RadarRunner, Radar!LoadPending(r)
    PROVE  RadarInv'
<1> DEFINE old == radar[r]
           l == [old EXCEPT !.at = "parse", !.todo = Radar!Pending]
<1>1. Radar!In(r, "offerings", "begin") BY DEF Radar!LoadPending
<1>2. old # Radar!Idle /\ old \in RadarJob(heard, accepted) /\ Fits(old) BY <1>1, InStage
<1>3. Radar!Pending \subseteq 1..accepted BY DEF Radar!Pending, RadarInv, TablesFit
<1>4. /\ l \in RadarJob(heard, accepted) /\ l.left = old.left /\ l.at = "parse" /\ l.seen = old.seen
      /\ l.new = old.new /\ l.loud = old.loud /\ l.offers = old.offers
    BY <1>2, <1>3 DEF RadarJob, RadarAt
<1>5. Fits(l) /\ Onward(l, old) BY <1>2, <1>4, SameNews DEF Fits, JobFits
<1>6. Radar!Set(r, l) BY <1>2 DEF Radar!LoadPending, Radar!Go, RadarJob
<1>7. PICK m : m = l OBVIOUS
<1> HIDE DEF l
<1> QED BY <1>2, <1>5, <1>6, <1>7, JobReads DEF Radar!LoadPending, Radar!world

LEMMA ReadPriceStep ==
    ASSUME RadarInv, NEW r \in RadarRunner, Radar!ReadPrice(r)
    PROVE  RadarInv'
<1> DEFINE old == radar[r]
           l == [old EXCEPT !.at = "save", !.seen = issuer]
<1>1. Radar!In(r, "offerings", "price") BY DEF Radar!ReadPrice
<1>2. old # Radar!Idle /\ old \in RadarJob(heard, accepted) /\ Fits(old) /\ Head(old.left) = "offerings"
    BY <1>1, InStage
<1>3. issuer \in Issuer /\ Founded(issuer, evidence) BY DEF RadarInv, TablesFit
<1>4. /\ l \in RadarJob(heard, accepted) /\ l.left = old.left /\ l.at = "save" /\ l.seen = issuer
      /\ l.new = old.new /\ l.loud = old.loud /\ l.offers = old.offers
    BY <1>2, <1>3 DEF RadarJob, RadarAt
<1>5. Fits(l) /\ Onward(l, old) BY <1>2, <1>3, <1>4, SameNews
<1>6. Radar!Set(r, l) BY <1>2 DEF Radar!ReadPrice, Radar!Go, RadarJob
<1>7. PICK m : m = l OBVIOUS
<1> HIDE DEF l
<1> QED BY <1>2, <1>5, <1>6, <1>7, JobReads DEF Radar!ReadPrice, Radar!world

LEMMA StopStep ==
    ASSUME RadarInv, NEW r \in RadarRunner, Radar!Stop(r)
    PROVE  RadarInv'
<1>1. PICK m : m = Radar!Idle OBVIOUS
<1> QED BY <1>1, JobReads DEF Radar!Stop, Radar!world

\* The row is written by a job.
LEMMA RowMoves ==
    ASSUME RadarInv, NEW r \in RadarRunner, radar[r] # Radar!Idle, NEW l, Radar!Set(r, l),
           issuer' \in Issuer, Founded(issuer', evidence'), issuer.exists => issuer'.exists,
           evidence \subseteq evidence',
           UNCHANGED <<accepted, entry, filings, offering, told, heard, follow, changes>>,
           l = Radar!Idle \/ (Fits(l) /\ Onward(l, radar[r]))
    PROVE  RadarInv'
<1>1. TablesFit' /\ OffersFit' BY DEF RadarInv, TablesFit, OffersFit
<1>2. l = Radar!Idle \/ JobFits(l, evidence', issuer'.exists, heard', filings', accepted')
    BY FitsOn DEF Fits
<1>3. JobsFit' BY <1>2, JobsMove DEF Radar!Set
<1>4. NewOnce' /\ TellOnce' BY NewsMove DEF Radar!Set
<1> QED BY <1>1, <1>3, <1>4 DEF RadarInv

LEMMA MappedFounded ==
    ASSUME RadarValues, NEW x \in Issuer, NEW e \in Entry, e.ticker # Nobody,
           NEW known, Founded(x, known)
    PROVE  LET y == [Radar!Mapped(x, e) EXCEPT !.exists = TRUE] IN
               /\ y \in Issuer /\ y.exists
               /\ Founded(y, IF e.exchange = Nobody THEN known
                             ELSE known \cup {<<e.ticker, e.exchange>>})
<1> DEFINE same == [x EXCEPT !.ticker = e.ticker, !.source = "sec"]
           y == [Radar!Mapped(x, e) EXCEPT !.exists = TRUE]
           known2 == IF e.exchange = Nobody THEN known ELSE known \cup {<<e.ticker, e.exchange>>}
<1>1. CASE e.exchange # Nobody
    <2>1. y = [same EXCEPT !.exchange = e.exchange, !.listedBy = "sec", !.verified = TRUE,
                           !.exists = TRUE]
        BY <1>1 DEF Radar!Mapped, Issuer
    <2>2. y \in Issuer BY <1>1, <2>1 DEF Issuer, Entry
    <2>3. y.exists /\ y.verified /\ y.ticker = e.ticker /\ y.exchange = e.exchange
          /\ y.listedBy = "sec"
        BY <2>1 DEF Issuer
    <2> QED BY <1>1, <2>2, <2>3 DEF Founded
<1>2. CASE e.exchange = Nobody /\ x.ticker = e.ticker /\ x.listedBy = "longbridge" /\ x.verified
    <2>1. y = [same EXCEPT !.exists = TRUE] BY <1>2 DEF Radar!Mapped, Issuer
    <2>2. y \in Issuer BY <2>1 DEF Issuer, Entry
    <2>3. y.exists /\ y.verified = x.verified /\ y.ticker = x.ticker /\ y.exchange = x.exchange
          /\ y.listedBy = x.listedBy
        BY <1>2, <2>1 DEF Issuer
    <2>4. known2 = known BY <1>2
    <2> HIDE DEF y, known2
    <2>5. Founded(y, known) BY <2>3 DEF Founded
    <2> QED BY <2>2, <2>3, <2>4, <2>5 DEF y, known2
<1>3. CASE e.exchange = Nobody
           /\ ~ (x.ticker = e.ticker /\ x.listedBy = "longbridge" /\ x.verified)
    <2>1. y = [same EXCEPT !.exchange = Nobody, !.listedBy = Nobody, !.verified = FALSE,
                           !.checked = FALSE, !.exists = TRUE]
        BY <1>3 DEF Radar!Mapped, Issuer
    <2>2. y \in Issuer BY <2>1 DEF Issuer, Entry
    <2>3. y.exists /\ ~ y.verified /\ y.exchange = Nobody BY <2>1 DEF Issuer
    <2> QED BY <1>3, <2>2, <2>3 DEF Founded
<1> QED BY <1>1, <1>2, <1>3

LEMMA SaveMappingStep ==
    ASSUME RadarValues, RadarInv, NEW r \in RadarRunner, Radar!SaveMapping(r)
    PROVE  RadarInv'
<1> DEFINE old == radar[r]
           e == old.entry
           known == IF e.exchange = Nobody THEN evidence
                    ELSE evidence \cup {<<e.ticker, e.exchange>>}
<1>1. Radar!In(r, "mapping", "save") BY DEF Radar!SaveMapping
<1>2. old # Radar!Idle /\ old \in RadarJob(heard, accepted) /\ Fits(old) /\ Head(old.left) = "mapping"
      /\ old.at = "save"
    BY <1>1, InStage
<1>3. issuer \in Issuer /\ Founded(issuer, evidence) BY DEF RadarInv, TablesFit
<1>4. old.seen \in Issuer /\ e \in Entry /\ Founded(old.seen, evidence)
    BY <1>2 DEF RadarJob, Fits, JobFits
<1>5. UNCHANGED <<accepted, entry, filings, offering, told, heard, follow, changes>>
    BY DEF Radar!SaveMapping, Radar!world
<1>6. CASE e.ticker # Nobody
    <2> DEFINE l == [old EXCEPT !.confirmed = @ /\ Radar!Saves(r)]
    <2>1. Radar!Saves(r) \in BOOLEAN
        BY <1>3, <1>4 DEF Radar!Saves, Issuer
    <2>2. /\ l \in RadarJob(heard, accepted) /\ l.left = old.left /\ l.at = "save" /\ l.seen = old.seen
          /\ l.new = old.new /\ l.loud = old.loud /\ l.offers = old.offers
        BY <1>2, <2>1 DEF RadarJob
    <2>3. Fits(l) /\ Onward(l, old) BY <1>2, <2>2, SameNews DEF Fits, JobFits
    <2>4. PICK m : m = Radar!Done(l) OBVIOUS
    <2>5. m = Radar!Idle \/ (Fits(m) /\ Onward(m, old)) BY <1>2, <2>3, <2>4, StageDone
    <2>6. Radar!Set(r, m) /\ evidence' = known
          /\ issuer' = IF issuer.exists /\ ~ old.seen.exists THEN issuer
                       ELSE [Radar!Mapped(old.seen, e) EXCEPT !.exists = TRUE]
        BY <1>6, <2>4 DEF Radar!SaveMapping, Radar!Save
    <2>7. Founded(issuer, known) BY <1>3 DEF Founded
    <2>8. /\ issuer' \in Issuer /\ Founded(issuer', known)
          /\ issuer.exists => issuer'.exists
        BY <1>3, <1>4, <1>6, <2>6, <2>7, MappedFounded
    <2>9. evidence \subseteq evidence' BY <2>6
    <2> HIDE DEF l, known
    <2> QED BY <1>2, <1>5, <2>5, <2>6, <2>8, <2>9, RowMoves
<1>7. CASE e.ticker = Nobody
    <2>1. PICK m : m = Radar!Done(old) OBVIOUS
    <2>2. m = Radar!Idle \/ (Fits(m) /\ Onward(m, old)) BY <1>2, <2>1, SelfOnward, StageDone
    <2>3. /\ Radar!Set(r, m) /\ evidence' = evidence
          /\ issuer' = issuer \/ (issuer' = Radar!Cleared /\ issuer.exists)
        BY <1>7, <2>1 DEF Radar!SaveMapping
    <2>4. /\ Radar!Cleared \in Issuer /\ ~ Radar!Cleared.verified
          /\ Radar!Cleared.exchange = Nobody /\ Radar!Cleared.exists = issuer.exists
        BY <1>3 DEF Radar!Cleared, Issuer
    <2>5. issuer.exists => Founded(Radar!Cleared, evidence) BY <2>4 DEF Founded
    <2> QED BY <1>2, <1>3, <1>5, <2>2, <2>3, <2>4, <2>5, RowMoves
<1> QED BY <1>6, <1>7

LEMMA ConfirmStep ==
    ASSUME RadarValues, RadarInv, NEW r \in RadarRunner, Radar!Confirm(r)
    PROVE  RadarInv'
<1> DEFINE old == radar[r]
           x == old.seen
           y == [x EXCEPT !.exchange = "market", !.listedBy = "longbridge", !.verified = TRUE,
                          !.checked = TRUE]
           l == [old EXCEPT !.confirmed = TRUE]
<1>1. Radar!In(r, "confirm", "asked") BY DEF Radar!Confirm
<1>2. old # Radar!Idle /\ old \in RadarJob(heard, accepted) /\ Fits(old) /\ Head(old.left) = "confirm"
      /\ old.at = "asked"
    BY <1>1, InStage
<1>3. x \in Issuer /\ Founded(x, evidence) /\ x.ticker # Nobody
    BY <1>2 DEF RadarJob, Fits, JobFits
<1>4. x.exists BY <1>3 DEF Founded, Radar!NoRow
<1>5. /\ y \in Issuer /\ y.exists /\ y.verified /\ y.ticker = x.ticker /\ y.exchange = "market"
      /\ y.listedBy = "longbridge"
    BY <1>3, <1>4 DEF Issuer
<1>6. issuer' = y /\ evidence' = evidence \cup {<<x.ticker, "market">>} BY DEF Radar!Confirm
<1>7. Founded(issuer', evidence') BY <1>3, <1>5, <1>6 DEF Founded, RadarValues
<1>8. /\ l \in RadarJob(heard, accepted) /\ l.left = old.left /\ l.at = "asked" /\ l.seen = old.seen
      /\ l.new = old.new /\ l.loud = old.loud /\ l.offers = old.offers
    BY <1>2 DEF RadarJob
<1>9. Fits(l) /\ Onward(l, old) BY <1>2, <1>8, SameNews DEF Fits, JobFits
<1>10. PICK m : m = Radar!Done(l) OBVIOUS
<1>11. m = Radar!Idle \/ (Fits(m) /\ Onward(m, old)) BY <1>2, <1>9, <1>10, StageDone
<1>12. Radar!Set(r, m) BY <1>10 DEF Radar!Confirm
<1>13. UNCHANGED <<accepted, entry, filings, offering, told, heard, follow, changes>>
    BY DEF Radar!Confirm, Radar!world
<1>14. evidence \subseteq evidence' BY <1>6
<1> HIDE DEF l, y
<1> QED BY <1>2, <1>5, <1>6, <1>7, <1>11, <1>12, <1>13, <1>14, RowMoves

LEMMA MissStep ==
    ASSUME RadarInv, NEW r \in RadarRunner, Radar!Miss(r)
    PROVE  RadarInv'
<1> DEFINE old == radar[r]
<1>1. Radar!In(r, "confirm", "asked") BY DEF Radar!Miss
<1>2. old # Radar!Idle /\ old \in RadarJob(heard, accepted) /\ Fits(old) /\ old.at = "asked" BY <1>1, InStage
<1>3. old.seen \in Issuer /\ Founded(old.seen, evidence) /\ old.seen.ticker # Nobody
      /\ (old.seen.exists => issuer.exists)
    BY <1>2 DEF RadarJob, Fits, JobFits
<1>4. issuer.exists BY <1>3 DEF Founded, Radar!NoRow
<1>5. issuer \in Issuer /\ Founded(issuer, evidence) BY DEF RadarInv, TablesFit
<1>6. issuer' = [issuer EXCEPT !.checked = TRUE] BY DEF Radar!Miss
<1>7. /\ issuer' \in Issuer /\ issuer'.exists /\ issuer'.verified = issuer.verified
      /\ issuer'.ticker = issuer.ticker /\ issuer'.exchange = issuer.exchange
      /\ issuer'.listedBy = issuer.listedBy
    BY <1>4, <1>5, <1>6 DEF Issuer
<1>8. Founded(issuer', evidence) BY <1>5, <1>7 DEF Founded
<1>9. PICK m : m = Radar!Done(old) OBVIOUS
<1>10. m = Radar!Idle \/ (Fits(m) /\ Onward(m, old)) BY <1>2, <1>9, SelfOnward, StageDone
<1>11. UNCHANGED <<accepted, entry, filings, offering, told, heard, follow, changes, evidence>>
    BY DEF Radar!Miss, Radar!world
<1>12. Radar!Set(r, m) BY <1>9 DEF Radar!Miss
<1> QED BY <1>2, <1>7, <1>8, <1>10, <1>11, <1>12, RowMoves

\* A row that was read is saved with other columns; or the insert fails.
LEMMA SaveFounded ==
    ASSUME RadarInv, NEW r \in RadarRunner, NEW y \in Issuer,
           Founded([y EXCEPT !.exists = TRUE], evidence), issuer' = Radar!Save(r, y)
    PROVE  /\ issuer' \in Issuer /\ Founded(issuer', evidence)
           /\ issuer.exists => issuer'.exists
<1>1. issuer \in Issuer /\ Founded(issuer, evidence) BY DEF RadarInv, TablesFit
<1>2. [y EXCEPT !.exists = TRUE] \in Issuer /\ [y EXCEPT !.exists = TRUE].exists BY DEF Issuer
<1> QED BY <1>1, <1>2 DEF Radar!Save

LEMMA SaveCalendarStep ==
    ASSUME RadarValues, RadarInv, NEW r \in RadarRunner, Radar!SaveCalendar(r)
    PROVE  RadarInv'
<1> DEFINE old == radar[r]
           y == [old.seen EXCEPT !.ticker = old.entry.ticker, !.source = "calendar",
                                 !.listedBy = "calendar"]
<1>1. Radar!In(r, "calendar", "save") BY DEF Radar!SaveCalendar
<1>2. old # Radar!Idle /\ old \in RadarJob(heard, accepted) /\ Fits(old) /\ Head(old.left) = "calendar"
      /\ old.at = "save"
    BY <1>1, InStage
<1>3. old.seen \in Issuer /\ old.entry \in Entry /\ Founded(old.seen, evidence)
      /\ ~ old.seen.verified
    BY <1>2 DEF RadarJob, Fits, JobFits
<1>4. /\ y \in Issuer /\ [y EXCEPT !.exists = TRUE].exists
      /\ ~ [y EXCEPT !.exists = TRUE].verified /\ [y EXCEPT !.exists = TRUE].exchange = Nobody
    BY <1>3 DEF Issuer, Entry, Founded
<1>5. Founded([y EXCEPT !.exists = TRUE], evidence) BY <1>4 DEF Founded
<1>6. issuer' = Radar!Save(r, y) BY DEF Radar!SaveCalendar
<1>7. /\ issuer' \in Issuer /\ Founded(issuer', evidence)
      /\ issuer.exists => issuer'.exists
    BY <1>4, <1>5, <1>6, SaveFounded
<1>8. PICK m : m = Radar!Done(old) OBVIOUS
<1>9. m = Radar!Idle \/ (Fits(m) /\ Onward(m, old)) BY <1>2, <1>8, SelfOnward, StageDone
<1>10. UNCHANGED <<accepted, entry, filings, offering, told, heard, follow, changes, evidence>>
    BY DEF Radar!SaveCalendar, Radar!world
<1>11. Radar!Set(r, m) BY <1>8 DEF Radar!SaveCalendar
<1> HIDE DEF y
<1> QED BY <1>2, <1>7, <1>9, <1>10, <1>11, RowMoves

LEMMA SavePriceStep ==
    ASSUME RadarInv, NEW r \in RadarRunner, Radar!SavePrice(r)
    PROVE  RadarInv'
<1> DEFINE old == radar[r]
           f == old.id
           y == [old.seen EXCEPT !.offer = f]
           g == IF Radar!Saves(r) /\ f \in old.new /\ ~ old.baseline THEN old.offers \cup {f}
                ELSE old.offers
           l == [old EXCEPT !.at = "parse", !.todo = @ \ {f}, !.id = 0, !.offers = g]
<1>1. Radar!In(r, "offerings", "save") BY DEF Radar!SavePrice
<1>2. old # Radar!Idle /\ old \in RadarJob(heard, accepted) /\ Fits(old) BY <1>1, InStage
<1>3. old.seen \in Issuer /\ Founded(old.seen, evidence) /\ f \in Nat
    BY <1>2 DEF RadarJob, Fits, JobFits
<1>4. /\ y \in Issuer /\ [y EXCEPT !.exists = TRUE].exists
      /\ [y EXCEPT !.exists = TRUE].verified = old.seen.verified
      /\ [y EXCEPT !.exists = TRUE].ticker = old.seen.ticker
      /\ [y EXCEPT !.exists = TRUE].exchange = old.seen.exchange
      /\ [y EXCEPT !.exists = TRUE].listedBy = old.seen.listedBy
    BY <1>3 DEF Issuer
<1>5. Founded([y EXCEPT !.exists = TRUE], evidence) BY <1>3, <1>4 DEF Founded
<1>6. issuer' = Radar!Save(r, y) BY DEF Radar!SavePrice
<1>7. /\ issuer' \in Issuer /\ Founded(issuer', evidence)
      /\ issuer.exists => issuer'.exists
    BY <1>4, <1>5, <1>6, SaveFounded
<1>8. g \subseteq old.new /\ g \subseteq Radar!Filing BY <1>2 DEF RadarJob, Fits, JobFits
<1>9. /\ l \in RadarJob(heard, accepted) /\ l.left = old.left /\ l.at = "parse" /\ l.seen = old.seen
      /\ l.new = old.new /\ l.loud = old.loud /\ l.offers = g
    BY <1>2, <1>8 DEF RadarJob, RadarAt
<1>10. Fits(l) /\ Onward(l, old) BY <1>2, <1>8, <1>9 DEF Fits, JobFits, Onward
<1>11. Radar!Set(r, l) BY <1>2 DEF Radar!SavePrice, Radar!Go, RadarJob
<1>12. PICK m : m = l OBVIOUS
<1>13. UNCHANGED <<accepted, entry, filings, offering, told, heard, follow, changes, evidence>>
    BY DEF Radar!SavePrice, Radar!world
<1> HIDE DEF l, y, g
<1> QED BY <1>2, <1>7, <1>10, <1>11, <1>12, <1>13, RowMoves


\* A job starts.
LEMMA StartStep ==
    ASSUME RadarValues, RadarInv, NEW r \in RadarRunner, NEW name \in Radar!Jobs(r),
           Radar!Start(r, name)
    PROVE  RadarInv'
<1> DEFINE l == [left |-> Radar!Stages(name), at |-> "begin", seen |-> Radar!NoRow, entry |-> entry,
                 confirmed |-> FALSE, baseline |-> FALSE, known |-> FALSE, backfilled |-> FALSE,
                 todo |-> {}, new |-> {}, loud |-> {}, offers |-> {}, key |-> Nobody, id |-> 0]
<1>1. name \in {"scan", "refresh", "lifecycle", "offerings", "listings"}
    BY SMT DEF Radar!Jobs, RadarRunner
<1>2. /\ Radar!Stages(name) \in Seq(RadarStage) /\ Radar!Stages(name) # << >>
      /\ Distinct(Radar!Stages(name))
    BY <1>1, StagesOnce
<1>3. entry \in Entry BY DEF RadarInv, TablesFit
<1>4. Radar!NoRow \in Issuer /\ Founded(Radar!NoRow, evidence) /\ ~ Radar!NoRow.exists
      /\ ~ Radar!NoRow.verified
    BY DEF Radar!NoRow, Issuer, Founded
<1>5. /\ l.left = Radar!Stages(name) /\ l.at = "begin" /\ l.seen = Radar!NoRow
      /\ l.new = {} /\ l.loud = {} /\ l.offers = {}
    OBVIOUS
<1> HIDE DEF Issuer
<1>6. l \in RadarJob(heard, accepted) BY <1>2, <1>3, <1>4 DEF RadarJob, RadarAt
<1>7. radar[r] = Radar!Idle /\ radar' = [radar EXCEPT ![r] = l]
    BY DEF Radar!Start
<1> HIDE DEF l
<1>8. JobFits(l, evidence, issuer.exists, heard, filings, accepted)
    BY <1>2, <1>4, <1>5, <1>6 DEF JobFits
<1>9. UNCHANGED <<accepted, entry, filings, offering, issuer, told, heard, evidence, follow, changes>>
    BY DEF Radar!Start, Radar!world
<1>10. TablesFit' /\ OffersFit' BY <1>9 DEF RadarInv, TablesFit, OffersFit
<1>11. JobsFit' BY <1>7, <1>8, <1>9, JobsMove
<1>12. \A s \in RadarRunner : radar'[s] = IF s = r THEN l ELSE radar[s]
    BY <1>7 DEF RadarInv, JobsFit
<1>13. NewOnce' BY <1>5, <1>12 DEF RadarInv, NewOnce, Working
<1>14. TellOnce' BY <1>5, <1>9, <1>12 DEF RadarInv, TellOnce, Working
<1> QED BY <1>10, <1>11, <1>13, <1>14 DEF RadarInv

\* A job stores filings, all its own if they were not stored before; it has not come to tell.
LEMMA Stored ==
    ASSUME RadarInv, NEW r \in RadarRunner, radar[r] # Radar!Idle, NEW l, Radar!Set(r, l),
           NEW m, JobFits(m, evidence, issuer'.exists, heard, filings', accepted),
           l = Radar!Idle \/ (JobFits(l, evidence, issuer'.exists, heard, filings', accepted) /\ Onward(l, m)),
           m.left = radar[r].left, m.new \subseteq radar[r].new \cup (filings' \ filings),
           filings \subseteq filings', filings' \subseteq 1..accepted,
           issuer' \in Issuer, Founded(issuer', evidence), issuer.exists => issuer'.exists,
           UNCHANGED <<accepted, entry, offering, told, heard, evidence, follow, changes>>
    PROVE  RadarInv'
<1>1. TablesFit' /\ OffersFit' BY DEF RadarInv, TablesFit, OffersFit
<1>2. radar' = [radar EXCEPT ![r] = l] BY DEF Radar!Set
<1>3. JobsFit' BY <1>2, JobsMove
<1>4. \A s \in RadarRunner : radar'[s] = IF s = r THEN l ELSE radar[s]
    BY <1>2 DEF RadarInv, JobsFit
<1>5. \A s \in RadarRunner : Working(s) => radar[s].new \subseteq filings
    BY DEF RadarInv, JobsFit, JobFits, Working
<1>6. l # Radar!Idle => /\ l.new \subseteq radar[r].new \cup (filings' \ filings)
                        /\ \A x : Ahead(l.left, x) => Ahead(radar[r].left, x)
    BY DEF Onward
<1>7. NewOnce' BY <1>4, <1>5, <1>6 DEF RadarInv, NewOnce, Working
<1>8. TellOnce'
    <2>1. told \in [Radar!Filing -> [filing : 0..1, offer : 0..1]] BY DEF RadarInv, TellOnce
    <2>2. ASSUME NEW f \in Radar!Filing, told[f].filing = 1
          PROVE  f \in filings' /\ \A s \in RadarRunner :
                    Working(s)' /\ f \in radar'[s].new => ~ Ahead(radar'[s].left, "deliver")
        <3>1. f \in filings /\ \A s \in RadarRunner :
                    Working(s) /\ f \in radar[s].new => ~ Ahead(radar[s].left, "deliver")
            BY <2>2 DEF RadarInv, TellOnce
        <3> QED BY <1>4, <1>6, <3>1 DEF Working
    <2>3. ASSUME NEW f \in Radar!Filing, told[f].offer = 1
          PROVE  f \in filings' /\ \A s \in RadarRunner :
                    Working(s)' /\ f \in radar'[s].new => ~ Ahead(radar'[s].left, "offerings")
        <3>1. f \in filings /\ \A s \in RadarRunner :
                    Working(s) /\ f \in radar[s].new => ~ Ahead(radar[s].left, "offerings")
            BY <2>3 DEF RadarInv, TellOnce
        <3> QED BY <1>4, <1>6, <3>1 DEF Working
    <2> QED BY <2>1, <2>2, <2>3 DEF TellOnce
<1> QED BY <1>1, <1>3, <1>7, <1>8 DEF RadarInv

LEMMA StoreFilingStep ==
    ASSUME RadarInv, NEW r \in RadarRunner, NEW f \in Radar!Filing, Radar!StoreFiling(r, f)
    PROVE  RadarInv'
<1> DEFINE old == radar[r]
           rest == [old EXCEPT !.todo = @ \ {f}]
           l == [rest EXCEPT
                  !.new = IF Radar!Created(f) THEN @ \cup {f} ELSE @,
                  !.loud = IF Radar!Created(f) /\ ~ old.confirmed /\ ~ old.baseline THEN @ \cup {f}
                           ELSE @,
                  !.known = @ \/ ~ old.confirmed,
                  !.at = IF old.confirmed \/ old.backfilled THEN @ ELSE "history"]
<1>1. Radar!In(r, "feed", "store") BY DEF Radar!StoreFiling
<1>2. old # Radar!Idle /\ old \in RadarJob(heard, accepted) /\ Fits(old) /\ Head(old.left) = "feed"
      /\ old.at = "store"
    BY <1>1, InStage
<1>3. UNCHANGED <<accepted, entry, offering, told, issuer, heard, evidence, follow, changes>>
    BY DEF Radar!StoreFiling, Radar!world
<1>4. /\ rest \in RadarJob(heard, accepted) /\ rest.left = old.left /\ rest.at = "store"
      /\ rest.seen = old.seen /\ rest.new = old.new /\ rest.loud = old.loud
      /\ rest.offers = old.offers /\ rest.key = old.key /\ rest.known = old.known
    BY <1>2 DEF RadarJob
<1>5. CASE Radar!Set(r, rest) /\ filings' = filings
    <2>1. Fits(rest) /\ Onward(rest, old) BY <1>2, <1>4, SameNews DEF Fits, JobFits
    <2> HIDE DEF rest
    <2> QED BY <1>2, <1>3, <1>5, <2>1, JobReads
<1>6. CASE Radar!Set(r, l) /\ filings' = filings \cup {f} /\ f \in old.todo
    <2>1. filings \subseteq filings' /\ filings' \subseteq 1..accepted
        BY <1>2, <1>6 DEF RadarJob, RadarInv, TablesFit
    <2>2. /\ Radar!Created(f) <=> f \notin filings
          /\ old.new \subseteq filings /\ old.loud \subseteq old.new /\ old.offers \subseteq old.new
          /\ old.new \subseteq Radar!Filing
        BY <1>2 DEF Radar!Created, Fits, JobFits, RadarJob
    <2> DEFINE new == IF Radar!Created(f) THEN old.new \cup {f} ELSE old.new
               loud == IF Radar!Created(f) /\ ~ old.confirmed /\ ~ old.baseline THEN old.loud \cup {f}
                       ELSE old.loud
               pos == IF old.confirmed \/ old.backfilled THEN "store" ELSE "history"
    <2>3. /\ new \in SUBSET Radar!Filing /\ loud \in SUBSET Radar!Filing /\ loud \subseteq new
          /\ new \subseteq filings' /\ old.new \subseteq new
          /\ new \subseteq old.new \cup (filings' \ filings)
        BY <1>6, <2>2
    <2>4. l = [rest EXCEPT !.new = new, !.loud = loud, !.known = old.known \/ ~ old.confirmed,
                           !.at = pos]
        BY <1>2, <1>4 DEF RadarJob
    <2>5. old.known \in BOOLEAN /\ old.confirmed \in BOOLEAN BY <1>2 DEF RadarJob
    <2>6. pos \in RadarAt /\ pos # "asked" /\ pos # "record" BY DEF RadarAt
    <2> HIDE DEF new, loud, pos, rest, l
    <2>7. /\ l \in RadarJob(heard, accepted) /\ l.left = old.left /\ l.at = pos /\ l.seen = old.seen
          /\ l.new = new /\ l.loud = loud /\ l.offers = old.offers
        BY <1>4, <2>3, <2>4, <2>5, <2>6 DEF RadarJob
    <2>8. JobFits(l, evidence, issuer'.exists, heard, filings', accepted)
        BY <1>2, <1>3, <2>2, <2>3, <2>6, <2>7 DEF Fits, JobFits
    <2>9. issuer' \in Issuer /\ Founded(issuer', evidence) /\ issuer'.exists = issuer.exists
        BY <1>3 DEF RadarInv, TablesFit
    <2>10. Onward(l, l) BY DEF Onward
    <2>11. Radar!Set(r, l) BY <1>6 DEF l, rest
    <2> QED BY <1>2, <1>3, <2>1, <2>3, <2>7, <2>8, <2>9, <2>10, <2>11, Stored
<1> QED BY <1>5, <1>6 DEF Radar!StoreFiling

LEMMA BackfillStep ==
    ASSUME RadarInv, NEW r \in RadarRunner, Radar!Backfill(r)
    PROVE  RadarInv'
<1> DEFINE old == radar[r]
<1>1. Radar!In(r, "feed", "history") BY DEF Radar!Backfill
<1>2. old # Radar!Idle /\ old \in RadarJob(heard, accepted) /\ Fits(old) /\ Head(old.left) = "feed"
    BY <1>1, InStage
<1>3. UNCHANGED <<accepted, entry, offering, told, issuer, heard, evidence, follow, changes>>
    BY DEF Radar!Backfill, Radar!world
<1>4. filings' = 1..accepted /\ filings \subseteq filings' /\ filings' \subseteq Radar!Filing
    BY LenProperties DEF Radar!Backfill, RadarInv, TablesFit, Radar!Filing
<1>5. PICK whole : whole = filings' OBVIOUS
<1> DEFINE g == old.new \cup (whole \ filings)
           m == [old EXCEPT !.at = "store", !.new = g, !.backfilled = TRUE]
<1>6. old.new \subseteq filings /\ old.loud \subseteq old.new /\ old.offers \subseteq old.new
      /\ old.new \subseteq Radar!Filing
    BY <1>2 DEF Fits, JobFits, RadarJob
<1>7. /\ g \in SUBSET Radar!Filing /\ old.loud \subseteq g /\ old.offers \subseteq g
      /\ g \subseteq filings' /\ g \subseteq old.new \cup (filings' \ filings)
    BY <1>4, <1>5, <1>6
<1>8. /\ m \in RadarJob(heard, accepted) /\ m.left = old.left /\ m.at = "store" /\ m.seen = old.seen
      /\ m.new = g /\ m.loud = old.loud /\ m.offers = old.offers
    BY <1>2, <1>7 DEF RadarJob, RadarAt
<1>9. Radar!Set(r, m) BY <1>2, <1>5 DEF Radar!Backfill, Radar!Go, RadarJob
<1> HIDE DEF m, g
<1>10. JobFits(m, evidence, issuer'.exists, heard, filings', accepted)
    BY <1>2, <1>3, <1>6, <1>7, <1>8 DEF Fits, JobFits
<1>11. issuer' \in Issuer /\ Founded(issuer', evidence) /\ issuer'.exists = issuer.exists
    BY <1>3 DEF RadarInv, TablesFit
<1>12. Onward(m, m) BY DEF Onward
<1> QED BY <1>2, <1>3, <1>4, <1>7, <1>8, <1>9, <1>10, <1>11, <1>12, Stored

LEMMA SweepHistoryStep ==
    ASSUME RadarInv, NEW r \in RadarRunner, Radar!SweepHistory(r)
    PROVE  RadarInv'
<1> DEFINE old == radar[r]
<1>1. Radar!In(r, "sweep", "history") BY DEF Radar!SweepHistory
<1>2. old # Radar!Idle /\ old \in RadarJob(heard, accepted) /\ Fits(old) /\ old.at = "history"
    BY <1>1, InStage
<1>3. UNCHANGED <<accepted, entry, offering, told, heard, evidence, follow, changes>>
    BY DEF Radar!SweepHistory, Radar!world
<1>4. filings' = 1..accepted /\ filings \subseteq filings' /\ filings' \subseteq Radar!Filing
    BY LenProperties DEF Radar!SweepHistory, RadarInv, TablesFit, Radar!Filing
<1>5. issuer \in Issuer /\ Founded(issuer, evidence) BY DEF RadarInv, TablesFit
<1>6. issuer' = [issuer EXCEPT !.exists = TRUE, !.swept = TRUE] BY DEF Radar!SweepHistory
<1>7. /\ issuer' \in Issuer /\ issuer'.exists /\ issuer'.verified = issuer.verified
      /\ issuer'.ticker = issuer.ticker /\ issuer'.exchange = issuer.exchange
      /\ issuer'.listedBy = issuer.listedBy
    BY <1>5, <1>6 DEF Issuer
<1>8. Founded(issuer', evidence) BY <1>5, <1>7 DEF Founded
<1>9. PICK whole : whole = filings' OBVIOUS
<1> DEFINE g == old.new \cup (whole \ filings)
           m == [old EXCEPT !.new = g]
<1>10. old.new \subseteq filings /\ old.loud \subseteq old.new /\ old.offers \subseteq old.new
       /\ old.new \subseteq Radar!Filing
    BY <1>2 DEF Fits, JobFits, RadarJob
<1>11. /\ g \in SUBSET Radar!Filing /\ old.loud \subseteq g /\ old.offers \subseteq g
       /\ g \subseteq filings' /\ g \subseteq old.new \cup (filings' \ filings)
    BY <1>4, <1>9, <1>10
<1>12. /\ m \in RadarJob(heard, accepted) /\ m.left = old.left /\ m.at = "history"
       /\ m.seen = old.seen /\ m.new = g /\ m.loud = old.loud /\ m.offers = old.offers
    BY <1>2, <1>11 DEF RadarJob
<1>13. PICK l : l = Radar!Done(m) OBVIOUS
<1>14. Radar!Set(r, l) BY <1>9, <1>13 DEF Radar!SweepHistory
<1> HIDE DEF m, g
<1>15. JobFits(m, evidence, issuer'.exists, heard, filings', accepted)
    BY <1>2, <1>7, <1>10, <1>11, <1>12 DEF Fits, JobFits
<1>16. l = Radar!Idle \/ (JobFits(l, evidence, issuer'.exists, heard, filings', accepted) /\ Onward(l, m))
    BY <1>13, <1>15, NextStageFits DEF Onward
<1> QED BY <1>2, <1>3, <1>4, <1>7, <1>8, <1>11, <1>12, <1>14, <1>15, <1>16, Stored

\* What a job hands over is new to it, was never told and is not told again.
LEMMA TellsOnce ==
    ASSUME RadarInv, NEW r \in RadarRunner, radar[r] # Radar!Idle, NEW l, Radar!Set(r, l),
           l = Radar!Idle \/ (/\ Fits(l) /\ Onward(l, radar[r])
                              /\ ~ Ahead(l.left, Head(radar[r].left))),
           NEW batch, batch \subseteq radar[r].new,
           told' \in [Radar!Filing -> [filing : Nat, offer : Nat]],
           \/ /\ Head(radar[r].left) = "deliver"
              /\ \A f \in Radar!Filing : told'[f].offer = told[f].offer
              /\ \A f \in Radar!Filing :
                    told'[f].filing = IF f \in batch THEN told[f].filing + 1 ELSE told[f].filing
           \/ /\ Head(radar[r].left) = "offerings"
              /\ \A f \in Radar!Filing : told'[f].filing = told[f].filing
              /\ \A f \in Radar!Filing :
                    told'[f].offer = IF f \in batch THEN told[f].offer + 1 ELSE told[f].offer,
           UNCHANGED <<accepted, entry, filings, offering, issuer, heard, evidence, follow, changes>>
    PROVE  RadarInv'
<1> DEFINE old == radar[r]
<1>1. TablesFit' /\ OffersFit' BY DEF RadarInv, TablesFit, OffersFit
<1>2. radar' = [radar EXCEPT ![r] = l] BY DEF Radar!Set
<1>3. JobsFit' BY <1>2, JobsMove DEF Fits
<1>4. \A s \in RadarRunner : radar'[s] = IF s = r THEN l ELSE radar[s]
    BY <1>2 DEF RadarInv, JobsFit
<1>5. /\ old.left \in Seq(RadarStage) /\ old.left # << >> /\ old.new \subseteq filings
    BY DEF RadarInv, JobsFit, JobFits, RadarJob
<1>6. Ahead(old.left, Head(old.left))
    BY <1>5, EmptySeq, HeadTailProperties DEF Ahead
<1>7. l # Radar!Idle => /\ l.new = old.new
                        /\ \A x : Ahead(l.left, x) => Ahead(old.left, x)
                        /\ ~ Ahead(l.left, Head(old.left))
    BY DEF Onward
<1>8. NewOnce' BY <1>4, <1>7 DEF RadarInv, NewOnce, Working
<1>9. told \in [Radar!Filing -> [filing : 0..1, offer : 0..1]] BY DEF RadarInv, TellOnce
<1>10. \A f \in batch : \A s \in RadarRunner : s # r /\ Working(s) => f \notin radar[s].new
    BY DEF RadarInv, NewOnce, Working
<1>11. \A f \in Radar!Filing : told[f].filing = 1 =>
          f \in filings /\ \A s \in RadarRunner :
             Working(s) /\ f \in radar[s].new => ~ Ahead(radar[s].left, "deliver")
    BY DEF RadarInv, TellOnce
<1>12. \A f \in Radar!Filing : told[f].offer = 1 =>
          f \in filings /\ \A s \in RadarRunner :
             Working(s) /\ f \in radar[s].new => ~ Ahead(radar[s].left, "offerings")
    BY DEF RadarInv, TellOnce
<1>13. Working(r) BY DEF Working
<1>14. \A f \in Radar!Filing : told'[f].filing \in 0..1 /\ told'[f].offer \in 0..1
    <2> SUFFICES ASSUME NEW f \in Radar!Filing PROVE told'[f].filing \in 0..1 /\ told'[f].offer \in 0..1
        OBVIOUS
    <2>1. told[f].filing \in 0..1 /\ told[f].offer \in 0..1 BY <1>9
    <2>2. Head(old.left) = "deliver" /\ f \in batch => told[f].filing = 0
        BY <1>6, <1>11, <1>13, <2>1
    <2>3. Head(old.left) = "offerings" /\ f \in batch => told[f].offer = 0
        BY <1>6, <1>12, <1>13, <2>1
    <2> QED BY <2>1, <2>2, <2>3
<1>15. told' \in [Radar!Filing -> [filing : 0..1, offer : 0..1]]
    <2>1. \A f \in Radar!Filing : told'[f] \in [filing : 0..1, offer : 0..1] BY <1>14
    <2> QED BY <2>1
<1>16. ASSUME NEW f \in Radar!Filing, told'[f].filing = 1
       PROVE  f \in filings' /\ \A s \in RadarRunner :
                 Working(s)' /\ f \in radar'[s].new => ~ Ahead(radar'[s].left, "deliver")
    <2>1. told[f].filing = 1 \/ (f \in batch /\ Head(old.left) = "deliver") BY <1>16
    <2>2. CASE told[f].filing = 1 BY <1>4, <1>7, <1>11, <1>13, <2>2 DEF Working
    <2>3. CASE f \in batch /\ Head(old.left) = "deliver"
        BY <1>4, <1>5, <1>7, <1>10, <2>3 DEF Working
    <2> QED BY <2>1, <2>2, <2>3
<1>17. ASSUME NEW f \in Radar!Filing, told'[f].offer = 1
       PROVE  f \in filings' /\ \A s \in RadarRunner :
                 Working(s)' /\ f \in radar'[s].new => ~ Ahead(radar'[s].left, "offerings")
    <2>1. told[f].offer = 1 \/ (f \in batch /\ Head(old.left) = "offerings") BY <1>17
    <2>2. CASE told[f].offer = 1 BY <1>4, <1>7, <1>12, <1>13, <2>2 DEF Working
    <2>3. CASE f \in batch /\ Head(old.left) = "offerings"
        BY <1>4, <1>5, <1>7, <1>10, <2>3 DEF Working
    <2> QED BY <2>1, <2>2, <2>3
<1>18. TellOnce' BY <1>15, <1>16, <1>17 DEF TellOnce
<1> QED BY <1>1, <1>3, <1>8, <1>18 DEF RadarInv

\* The stage is over once something was handed over.
LEMMA StageOver ==
    ASSUME RadarInv, NEW r \in RadarRunner, radar[r] # Radar!Idle
    PROVE  \/ Radar!Done(radar[r]) = Radar!Idle
           \/ /\ Fits(Radar!Done(radar[r])) /\ Onward(Radar!Done(radar[r]), radar[r])
              /\ ~ Ahead(Radar!Done(radar[r]).left, Head(radar[r].left))
<1>1. JobFits(radar[r], evidence, issuer.exists, heard, filings, accepted)
    BY DEF RadarInv, JobsFit
<1> QED BY <1>1, NextStageFits DEF Fits, Onward

LEMMA DeliverStep ==
    ASSUME RadarInv, NEW r \in RadarRunner, Radar!Deliver(r)
    PROVE  RadarInv'
<1> DEFINE old == radar[r]
<1>1. Radar!In(r, "deliver", "begin") BY DEF Radar!Deliver
<1>2. old # Radar!Idle /\ Fits(old) /\ Head(old.left) = "deliver" BY <1>1, InStage
<1>3. PICK l : l = Radar!Done(old) OBVIOUS
<1>4. l = Radar!Idle \/ (Fits(l) /\ Onward(l, old) /\ ~ Ahead(l.left, Head(old.left)))
    BY <1>2, <1>3, StageOver
<1>5. Radar!Set(r, l) BY <1>3 DEF Radar!Deliver
<1>6. PICK batch : batch = old.loud OBVIOUS
<1>7. batch \subseteq old.new BY <1>2, <1>6 DEF Fits, JobFits
<1>8. told \in [Radar!Filing -> [filing : 0..1, offer : 0..1]] BY DEF RadarInv, TellOnce
<1>9. told' = [f \in Radar!Filing |-> IF f \in batch THEN [told[f] EXCEPT !.filing = @ + 1] ELSE told[f]]
    BY <1>6 DEF Radar!Deliver
<1>10. \A f \in Radar!Filing : told[f] \in [filing : 0..1, offer : 0..1] BY <1>8
<1>11. \A f \in Radar!Filing :
          /\ told'[f] \in [filing : Nat, offer : Nat] /\ told'[f].offer = told[f].offer
          /\ told'[f].filing = IF f \in batch THEN told[f].filing + 1 ELSE told[f].filing
    BY <1>9, <1>10
<1>12. told' \in [Radar!Filing -> [filing : Nat, offer : Nat]] BY <1>9, <1>11
<1>13. UNCHANGED <<accepted, entry, filings, offering, issuer, heard, evidence, follow, changes>>
    BY DEF Radar!Deliver, Radar!world
<1> QED BY <1>2, <1>4, <1>5, <1>7, <1>11, <1>12, <1>13, TellsOnce

LEMMA DeliverOffersStep ==
    ASSUME RadarInv, NEW r \in RadarRunner, Radar!DeliverOffers(r)
    PROVE  RadarInv'
<1> DEFINE old == radar[r]
<1>1. Radar!In(r, "offerings", "parse") BY DEF Radar!DeliverOffers
<1>2. old # Radar!Idle /\ Fits(old) /\ Head(old.left) = "offerings" BY <1>1, InStage
<1>3. PICK l : l = Radar!Done(old) OBVIOUS
<1>4. l = Radar!Idle \/ (Fits(l) /\ Onward(l, old) /\ ~ Ahead(l.left, Head(old.left)))
    BY <1>2, <1>3, StageOver
<1>5. Radar!Set(r, l) BY <1>3 DEF Radar!DeliverOffers
<1>6. PICK batch : batch = old.offers OBVIOUS
<1>7. batch \subseteq old.new BY <1>2, <1>6 DEF Fits, JobFits
<1>8. told \in [Radar!Filing -> [filing : 0..1, offer : 0..1]] BY DEF RadarInv, TellOnce
<1>9. told' = [f \in Radar!Filing |-> IF f \in batch THEN [told[f] EXCEPT !.offer = @ + 1] ELSE told[f]]
    BY <1>6 DEF Radar!DeliverOffers
<1>10. \A f \in Radar!Filing : told[f] \in [filing : 0..1, offer : 0..1] BY <1>8
<1>11. \A f \in Radar!Filing :
          /\ told'[f] \in [filing : Nat, offer : Nat] /\ told'[f].filing = told[f].filing
          /\ told'[f].offer = IF f \in batch THEN told[f].offer + 1 ELSE told[f].offer
    BY <1>9, <1>10
<1>12. told' \in [Radar!Filing -> [filing : Nat, offer : Nat]] BY <1>9, <1>11
<1>13. UNCHANGED <<accepted, entry, filings, offering, issuer, heard, evidence, follow, changes>>
    BY DEF Radar!DeliverOffers, Radar!world
<1> QED BY <1>2, <1>4, <1>5, <1>7, <1>11, <1>12, <1>13, TellsOnce

\* An event changes; the job goes on.
LEMMA EventMoves ==
    ASSUME RadarInv, NEW r \in RadarRunner, radar[r] # Radar!Idle, NEW l, Radar!Set(r, l),
           Fits(l), Onward(l, radar[r]), OffersFit',
           UNCHANGED <<accepted, entry, filings, issuer, told, heard, evidence, follow, changes>>
    PROVE  RadarInv'
<1>1. TablesFit' BY DEF RadarInv, TablesFit
<1>2. JobsFit' BY JobsMove DEF Radar!Set, Fits
<1>3. NewOnce' /\ TellOnce' BY NewsMove DEF Radar!Set
<1> QED BY <1>1, <1>2, <1>3 DEF RadarInv

LEMMA UnsupportedStep ==
    ASSUME RadarValues, RadarInv, NEW r \in RadarRunner, Radar!Unsupported(r)
    PROVE  RadarInv'
<1> DEFINE old == radar[r]
<1>1. Radar!In(r, "offerings", "parse") BY DEF Radar!Unsupported
<1>2. old # Radar!Idle /\ old \in RadarJob(heard, accepted) /\ Fits(old) /\ old.at = "parse"
    BY <1>1, InStage
<1>3. PICK f : f = Radar!Min(old.todo) OBVIOUS
<1> DEFINE v == [status |-> "unsupported", type |-> Nobody, recent |-> TRUE]
           l == [old EXCEPT !.todo = @ \ {f}]
<1>4. Radar!Set(r, l) /\ offering' = [offering EXCEPT ![f] = v] BY <1>3 DEF Radar!Unsupported
<1>5. /\ l \in RadarJob(heard, accepted) /\ l.left = old.left /\ l.at = "parse"
      /\ l.seen = old.seen /\ l.new = old.new /\ l.loud = old.loud /\ l.offers = old.offers
    BY <1>2 DEF RadarJob
<1>6. Fits(l) /\ Onward(l, old) BY <1>2, <1>5, SameNews DEF Fits, JobFits
<1>7. v \in Terms /\ v.status # "parsed" /\ v.type = Nobody /\ v.type # "initial"
    BY DEF Terms, RadarValues
<1> HIDE DEF v, l
<1>8. offering \in [Radar!Offering -> Terms] BY DEF RadarInv, OffersFit
<1>9. offering' \in [Radar!Offering -> Terms] BY <1>4, <1>7, <1>8
<1>10. \A g \in Radar!Offering : offering'[g] = IF g = f THEN v ELSE offering[g]
    BY <1>4, <1>8
<1>11. OffersFit' BY <1>7, <1>9, <1>10 DEF RadarInv, OffersFit
<1>12. PICK m : m = l OBVIOUS
<1>13. UNCHANGED <<accepted, entry, filings, issuer, told, heard, evidence, follow, changes>>
    BY DEF Radar!Unsupported, Radar!world
<1> QED BY <1>2, <1>4, <1>6, <1>11, <1>12, <1>13, EventMoves

\* Of filings to parse there is a first one.
LEMMA FirstIsThere ==
    ASSUME NEW n, n \in Nat, NEW T, T \subseteq 1..n, T # {}
    PROVE  Radar!Min(T) \in T
<1> DEFINE Down(f) == {g \in T : g < f}
           D == {Down(f) : f \in T}
<1>0. IsFiniteSet(1..n) BY FS_Interval
<1>1. IsFiniteSet(T) BY <1>0, FS_Subset
<1>7. T \subseteq Int OBVIOUS
<1>8. \A f \in T : Down(f) \in SUBSET T /\ IsFiniteSet(Down(f)) BY <1>1, FS_Subset
<1>2. D \subseteq FiniteSubsetsOf(T) /\ D # {} BY <1>8 DEF FiniteSubsetsOf
<1>3. PICK U \in D : \A V \in D : ~(<<V, U>> \in StrictSubsetOrdering(T))
    <2>1. IsWellFoundedOn(StrictSubsetOrdering(T), FiniteSubsetsOf(T))
        BY <1>1, FS_StrictSubsetOrderingWellFounded
    <2> HIDE DEF D
    <2> QED BY <1>2, <2>1, WFMin
<1>4. PICK f \in T : U = Down(f) BY <1>3
<1>5. Down(f) = {}
    <2> SUFFICES ASSUME NEW g \in Down(f) PROVE FALSE OBVIOUS
    <2>1. g \in T /\ g < f /\ f \in Int /\ g \in Int OBVIOUS
    <2>4. \A h \in Down(g) : h \in Down(f) BY <1>7, <2>1
    <2>5. g \notin Down(g) BY <2>1
    <2>2. Down(g) \subseteq Down(f) /\ g \notin Down(g)
        <3> HIDE DEF Down
        <3> QED BY <2>4, <2>5
    <2>3. <<Down(g), Down(f)>> \in StrictSubsetOrdering(T) BY <2>1, <2>2 DEF StrictSubsetOrdering
    <2> QED BY <1>3, <1>4, <2>1, <2>3
<1>6. \A g \in T : f <= g BY <1>5
<1> QED BY <1>6 DEF Radar!Min

LEMMA RecordOfferingStep ==
    ASSUME RadarValues, RadarInv, NEW r \in RadarRunner, Radar!RecordOffering(r)
    PROVE  RadarInv'
<1> DEFINE old == radar[r]
<1>1. Radar!In(r, "offerings", "parse") /\ old.todo # {} BY DEF Radar!RecordOffering
<1>2. old # Radar!Idle /\ old \in RadarJob(heard, accepted) /\ Fits(old) /\ old.at = "parse"
      /\ Head(old.left) = "offerings"
    BY <1>1, InStage
<1>3. PICK f : f = Radar!Min(old.todo) OBVIOUS
<1>4. f \in Nat
    <2>1. old.todo \subseteq 1..accepted /\ accepted \in Nat BY <1>2 DEF RadarJob, RadarInv, TablesFit
    <2>2. f \in old.todo BY <1>1, <1>3, <2>1, FirstIsThere
    <2> QED BY <2>1, <2>2
<1>5. PICK type : type = Radar!OfferingType(f) OBVIOUS
<1>6. type \in {"initial", "correction", "follow_on", "duplicate"}
    BY <1>5 DEF Radar!OfferingType
<1>7. type = "initial" => Radar!Earlier(f) = {} BY <1>5 DEF Radar!OfferingType
<1> DEFINE v == [status |-> "parsed", type |-> type, recent |-> FALSE]
           l == [old EXCEPT !.at = "price", !.id = f]
           m == [old EXCEPT !.todo = @ \ {f}]
<1>8. /\ l \in RadarJob(heard, accepted) /\ l.left = old.left /\ l.at = "price"
      /\ l.seen = old.seen /\ l.new = old.new /\ l.loud = old.loud /\ l.offers = old.offers
    BY <1>2, <1>4 DEF RadarJob, RadarAt
<1>9. Fits(l) /\ Onward(l, old) BY <1>2, <1>8, SameNews DEF Fits, JobFits
<1>10. /\ m \in RadarJob(heard, accepted) /\ m.left = old.left /\ m.at = "parse"
       /\ m.seen = old.seen /\ m.new = old.new /\ m.loud = old.loud /\ m.offers = old.offers
    BY <1>2 DEF RadarJob
<1>11. Fits(m) /\ Onward(m, old) BY <1>2, <1>10, SameNews DEF Fits, JobFits
<1>12. PICK n : Radar!Set(r, n) /\ (n = l \/ n = m)
    BY <1>2, <1>3 DEF Radar!RecordOffering, Radar!Go, RadarJob
<1>13. Fits(n) /\ Onward(n, old) BY <1>9, <1>11, <1>12
<1>14. offering' = offering \/ offering' = [offering EXCEPT ![f] = v]
    BY <1>3, <1>5 DEF Radar!RecordOffering
<1>15. v \in Terms /\ v.status = "parsed" /\ v.type = type /\ type # Nobody
    BY <1>6 DEF Terms, RadarValues
<1> HIDE DEF v, l, m
<1>16. offering \in [Radar!Offering -> Terms] BY DEF RadarInv, OffersFit
<1>17. CASE offering' = offering
    <2>1. OffersFit' BY <1>17 DEF RadarInv, OffersFit
    <2> QED BY <1>2, <1>12, <1>13, <2>1, EventMoves DEF Radar!RecordOffering, Radar!world
<1>18. CASE offering' = [offering EXCEPT ![f] = v]
    <2>1. offering' \in [Radar!Offering -> Terms] BY <1>15, <1>16, <1>18
    <2>2. \A g \in Radar!Offering : offering'[g] = IF g = f THEN v ELSE offering[g]
        BY <1>16, <1>18
    <2>3. type = "initial" => \A g \in Radar!Offering : g # f => offering[g].type # "initial"
        BY <1>7 DEF Radar!Earlier
    <2>4. \A g \in Radar!Offering : offering'[g].status = "parsed" <=> offering'[g].type # Nobody
        BY <1>15, <2>2 DEF RadarInv, OffersFit
    <2>5. \A g, h \in Radar!Offering :
             offering'[g].type = "initial" /\ offering'[h].type = "initial" => g = h
        BY <1>15, <2>2, <2>3 DEF RadarInv, OffersFit
    <2>6. OffersFit' BY <2>1, <2>4, <2>5 DEF OffersFit
    <2> QED BY <1>2, <1>12, <1>13, <2>6, EventMoves DEF Radar!RecordOffering, Radar!world
<1> QED BY <1>14, <1>17, <1>18

\* Progress is handed over before it is recorded.
LEMMA ReportStep ==
    ASSUME RadarInv, NEW r \in RadarRunner, Radar!Report(r)
    PROVE  RadarInv'
<1> DEFINE old == radar[r]
<1>1. Radar!In(r, "progress", "begin") BY DEF Radar!Report
<1>2. old # Radar!Idle /\ old \in RadarJob(heard, accepted) /\ Fits(old)
      /\ Head(old.left) = "progress"
    BY <1>1, InStage
<1>3. UNCHANGED <<accepted, entry, filings, offering, told, issuer, evidence, follow, changes>>
    BY DEF Radar!Report, Radar!world
<1>4. follow \in [id : Nat, key : heard \cup {Nobody}] /\ (follow.id # 0 => follow.key \in heard)
    BY DEF RadarInv, TablesFit
<1>5. PICK key : key = Radar!ProgressKey OBVIOUS
<1> DEFINE l == [old EXCEPT !.at = "record", !.key = key, !.id = follow.id]
<1>6. CASE heard' = heard \cup {key} /\ Radar!Set(r, l)
    <2>1. /\ l \in RadarJob(heard', accepted) /\ l.left = old.left /\ l.at = "record"
          /\ l.seen = old.seen /\ l.new = old.new /\ l.loud = old.loud /\ l.offers = old.offers
          /\ l.key = key
        BY <1>2, <1>4, <1>6 DEF RadarJob, RadarAt
    <2> HIDE DEF l
    <2>2. JobFits(l, evidence, issuer.exists, heard', filings, accepted) /\ Onward(l, old)
        BY <1>2, <1>6, <2>1 DEF Fits, JobFits, Onward
    <2>3. TablesFit' BY <1>3, <1>4, <1>6 DEF RadarInv, TablesFit
    <2>4. OffersFit' BY <1>3 DEF RadarInv, OffersFit
    <2>5. JobsFit' BY <1>3, <1>6, <2>2, JobsMove DEF Radar!Set
    <2>6. NewOnce' /\ TellOnce' BY <1>2, <1>3, <1>6, <2>2, NewsMove DEF Radar!Set
    <2> QED BY <2>3, <2>4, <2>5, <2>6 DEF RadarInv
<1>7. CASE heard' = heard /\ Radar!Set(r, Radar!Done(old))
    <2>1. PICK m : m = Radar!Done(old) OBVIOUS
    <2>2. m = Radar!Idle \/ (Fits(m) /\ Onward(m, old)) BY <1>2, <2>1, SelfOnward, StageDone
    <2> QED BY <1>2, <1>3, <1>7, <2>1, <2>2, JobReads
<1> QED BY <1>2, <1>5, <1>6, <1>7 DEF Radar!Report, Radar!Go, RadarJob

LEMMA RecordProgressStep ==
    ASSUME RadarInv, NEW r \in RadarRunner, Radar!RecordProgress(r)
    PROVE  RadarInv'
<1> DEFINE old == radar[r]
<1>1. Radar!In(r, "progress", "record") BY DEF Radar!RecordProgress
<1>2. old # Radar!Idle /\ Fits(old) /\ old.key \in heard
    BY <1>1, InStage DEF Fits, JobFits
<1>3. UNCHANGED <<accepted, entry, filings, offering, told, issuer, evidence, heard, changes>>
    BY DEF Radar!RecordProgress
<1>4. follow \in [id : Nat, key : heard \cup {Nobody}] /\ (follow.id # 0 => follow.key \in heard)
    BY DEF RadarInv, TablesFit
<1>5. follow' = follow \/ follow' = [follow EXCEPT !.key = old.key] BY DEF Radar!RecordProgress
<1>6. follow' \in [id : Nat, key : heard \cup {Nobody}] /\ (follow'.id # 0 => follow'.key \in heard)
    BY <1>2, <1>4, <1>5
<1>7. PICK m : m = Radar!Done(old) OBVIOUS
<1>8. m = Radar!Idle \/ (Fits(m) /\ Onward(m, old)) BY <1>2, <1>7, SelfOnward, StageDone
<1>9. Radar!Set(r, m) BY <1>7 DEF Radar!RecordProgress
<1>10. TablesFit' /\ OffersFit' BY <1>3, <1>6 DEF RadarInv, TablesFit, OffersFit
<1>11. JobsFit' BY <1>3, <1>8, <1>9, JobsMove DEF Radar!Set, Fits
<1>12. NewOnce' /\ TellOnce' BY <1>2, <1>3, <1>8, <1>9, NewsMove DEF Radar!Set
<1> QED BY <1>10, <1>11, <1>12 DEF RadarInv

LEMMA SetCompanyFollowStep ==
    ASSUME RadarInv, Radar!SetCompanyFollow
    PROVE  RadarInv'
<1>1. UNCHANGED <<accepted, entry, filings, offering, told, issuer, evidence, radar>>
    BY DEF Radar!SetCompanyFollow
<1>2. changes \in Nat /\ changes' = changes + 1 BY DEF Radar!SetCompanyFollow, RadarInv, TablesFit
<1>3. PICK key : key = Radar!ProgressKey OBVIOUS
<1>4. \/ heard' = heard \cup {key} /\ follow' = [id |-> changes + 1, key |-> key]
      \/ heard' = heard /\ follow' = [id |-> 0, key |-> Nobody]
    BY <1>3 DEF Radar!SetCompanyFollow
<1>5. /\ follow' \in [id : Nat, key : heard' \cup {Nobody}]
      /\ follow'.id # 0 => follow'.key \in heard'
      /\ heard \subseteq heard'
    BY <1>2, <1>4
<1>6. TablesFit' /\ OffersFit' BY <1>1, <1>2, <1>5 DEF RadarInv, TablesFit, OffersFit
<1>7. JobsFit' BY <1>1, <1>5, JobsStay
<1>8. NewOnce' /\ TellOnce' BY <1>1, NewsStay
<1> QED BY <1>6, <1>7, <1>8 DEF RadarInv

\* The world: SEC accepts a filing or changes the entry, an operator overrides, time passes.
LEMMA WorldStep ==
    ASSUME RadarValues, RadarInv,
           Radar!Publish \/ Radar!Relist \/ Radar!UpsertCompanyOverride \/ Radar!Elapse
    PROVE  RadarInv'
<1>1. accepted \in Nat /\ accepted <= Len(Forms) /\ Len(Forms) \in Nat /\ entry \in Entry
      /\ issuer \in Issuer /\ Founded(issuer, evidence) /\ changes \in Nat
      /\ offering \in [Radar!Offering -> Terms]
    BY LenProperties DEF RadarInv, TablesFit, OffersFit, RadarValues
<1>2. UNCHANGED <<filings, told, heard, evidence, radar, follow>>
    BY DEF Radar!Publish, Radar!Relist, Radar!UpsertCompanyOverride, Radar!Elapse, Radar!world
<1>3. accepted' \in Nat /\ accepted' <= Len(Forms) /\ accepted <= accepted' /\ changes' \in Nat
    BY <1>1 DEF Radar!Publish, Radar!Relist, Radar!UpsertCompanyOverride, Radar!Elapse, Radar!world
<1>4. entry' \in Entry
    BY <1>1 DEF Radar!Publish, Radar!Relist, Radar!UpsertCompanyOverride, Radar!Elapse, Radar!world,
                Entry
<1>5. /\ issuer' \in Issuer /\ Founded(issuer', evidence) /\ issuer'.exists = issuer.exists
      /\ OffersFit'
    <2>1. CASE UNCHANGED <<issuer, offering>> BY <1>1, <2>1 DEF RadarInv, OffersFit
    <2>2. CASE Radar!Elapse
        <3>1. issuer' = [issuer EXCEPT !.checked = FALSE, !.swept = FALSE] BY <2>2 DEF Radar!Elapse
        <3>2. /\ issuer' \in Issuer /\ issuer'.exists = issuer.exists
              /\ issuer'.verified = issuer.verified /\ issuer'.ticker = issuer.ticker
              /\ issuer'.exchange = issuer.exchange /\ issuer'.listedBy = issuer.listedBy
            BY <1>1, <3>1 DEF Issuer
        <3>3. issuer = Radar!NoRow => issuer' = Radar!NoRow
            <4>1. Radar!NoRow.checked = FALSE /\ Radar!NoRow.swept = FALSE BY DEF Radar!NoRow
            <4>2. Radar!NoRow \in Issuer BY DEF Radar!NoRow, Issuer
            <4>3. [Radar!NoRow EXCEPT !.checked = FALSE, !.swept = FALSE] = Radar!NoRow
                BY <4>1, <4>2 DEF Issuer
            <4> QED BY <3>1, <4>3
        <3>4. issuer' # Radar!NoRow => issuer'.exists BY <1>1, <3>2, <3>3 DEF Founded
        <3>5. Founded(issuer', evidence) BY <1>1, <3>2, <3>4 DEF Founded
        <3>6. offering' = [f \in Radar!Offering |-> [offering[f] EXCEPT !.recent = FALSE]]
            BY <2>2 DEF Radar!Elapse
        <3>7. \A f \in Radar!Offering : /\ offering'[f] \in Terms
                                        /\ offering'[f].status = offering[f].status
                                        /\ offering'[f].type = offering[f].type
            BY <1>1, <3>6 DEF Terms
        <3>8. offering' \in [Radar!Offering -> Terms] BY <3>6, <3>7
        <3>9. OffersFit' BY <3>7, <3>8 DEF RadarInv, OffersFit
        <3> QED BY <3>2, <3>5, <3>9
    <2> QED BY <2>1, <2>2 DEF Radar!Publish, Radar!Relist, Radar!UpsertCompanyOverride
<1>6. 1..accepted \subseteq 1..accepted' BY <1>1, <1>3
<1>7. TablesFit' BY <1>2, <1>3, <1>4, <1>5, <1>6 DEF RadarInv, TablesFit
<1>8. JobsFit' BY <1>2, <1>5, <1>6, JobsStay
<1>9. NewOnce' /\ TellOnce' BY <1>2, NewsStay
<1> QED BY <1>5, <1>7, <1>8, <1>9 DEF RadarInv

LEMMA RadarStarts ==
    ASSUME RadarValues, Radar!Init
    PROVE  RadarInv
<1>1. Len(Forms) \in Nat /\ Len(Forms) # 0 BY LenProperties, EmptySeq DEF RadarValues
<1>2. 1 \in Nat /\ 1 <= Len(Forms) BY <1>1
<1>3. issuer = Radar!NoRow /\ evidence = {} BY DEF Radar!Init
<1>4. Radar!NoRow \in Issuer /\ Founded(Radar!NoRow, evidence)
    BY DEF Radar!NoRow, Issuer, Founded
<1>5. TablesFit BY <1>2, <1>3, <1>4 DEF Radar!Init, TablesFit, Entry
<1>6. Radar!NoEvent \in Terms /\ Radar!NoEvent.status = Nobody /\ Radar!NoEvent.type = Nobody
    BY DEF Radar!NoEvent, Terms
<1>7. OffersFit BY <1>6 DEF Radar!Init, OffersFit, RadarValues
<1>8. \A r \in RadarRunner : radar[r] = Radar!Idle
    BY DEF Radar!Init, RadarRunner
<1>9. radar \in [RadarRunner -> {Radar!Idle} \cup RadarJob(heard, accepted)]
    BY DEF Radar!Init, RadarRunner
<1>10. JobsFit BY <1>8, <1>9 DEF JobsFit
<1>11. NewOnce BY <1>8 DEF NewOnce, Working
<1>12. TellOnce BY <1>8 DEF Radar!Init, TellOnce, Working
<1> QED BY <1>5, <1>7, <1>10, <1>11, <1>12 DEF RadarInv

LEMMA RadarStep ==
    ASSUME RadarValues, RadarInv, [Radar!Next]_radarVars
    PROVE  RadarInv'
<1>1. CASE UNCHANGED radarVars
    BY <1>1 DEF radarVars, RadarInv, TablesFit, OffersFit, JobsFit, NewOnce, TellOnce, Working
<1>2. CASE Radar!Next
    <2>1. ASSUME NEW r \in RadarRunner, NEW name \in Radar!Jobs(r), Radar!Start(r, name)
          PROVE  RadarInv'
        BY <2>1, StartStep
    <2>2. ASSUME NEW r \in RadarRunner, NEW t \in Ticker \cup {Nobody}, Radar!ReadCalendar(r, t)
          PROVE  RadarInv'
        BY <2>2, ReadCalendarStep
    <2>3. ASSUME NEW r \in RadarRunner, NEW f \in Radar!Filing, Radar!StoreFiling(r, f)
          PROVE  RadarInv'
        BY <2>3, StoreFilingStep
    <2>4. ASSUME NEW r \in RadarRunner,
                 \/ Radar!ReadMapping(r) \/ Radar!SaveMapping(r)
                 \/ Radar!LoadCandidate(r) \/ Radar!Confirm(r) \/ Radar!Miss(r)
                 \/ Radar!SaveCalendar(r) \/ Radar!ReadFeed(r)
          PROVE  RadarInv'
        BY <2>4, ReadMappingStep, SaveMappingStep, LoadCandidateStep, ConfirmStep, MissStep,
           SaveCalendarStep, ReadFeedStep
    <2>5. ASSUME NEW r \in RadarRunner,
                 \/ Radar!Backfill(r) \/ Radar!FeedDone(r) \/ Radar!Sweep(r)
                 \/ Radar!SweepHistory(r) \/ Radar!Deliver(r)
          PROVE  RadarInv'
        BY <2>5, BackfillStep, FeedDoneStep, SweepStep, SweepHistoryStep, DeliverStep
    <2>6. ASSUME NEW r \in RadarRunner,
                 \/ Radar!LoadPending(r) \/ Radar!Unsupported(r) \/ Radar!RecordOffering(r)
                 \/ Radar!ReadPrice(r) \/ Radar!SavePrice(r)
          PROVE  RadarInv'
        BY <2>6, LoadPendingStep, UnsupportedStep, RecordOfferingStep, ReadPriceStep, SavePriceStep
    <2>7. ASSUME NEW r \in RadarRunner,
                 \/ Radar!DeliverOffers(r) \/ Radar!Report(r) \/ Radar!RecordProgress(r)
                 \/ Radar!Stop(r)
          PROVE  RadarInv'
        BY <2>7, DeliverOffersStep, ReportStep, RecordProgressStep, StopStep
    <2> QED BY <1>2, <2>1, <2>2, <2>3, <2>4, <2>5, <2>6, <2>7, SetCompanyFollowStep, WorldStep
            DEF Radar!Next, RadarRunner
<1> QED BY <1>1, <1>2

LEMMA RadarImplies ==
    ASSUME RadarValues, RadarInv
    PROVE  /\ Radar!TypeOK /\ Radar!ListedOnEvidence /\ Radar!ToldOnce /\ Radar!OneInitial
           /\ Radar!ProgressTold
<1>1. Radar!TypeOK BY DEF RadarInv, TablesFit, OffersFit, Founded, Radar!TypeOK
<1>2. Radar!ListedOnEvidence BY DEF RadarInv, TablesFit, Founded, Radar!ListedOnEvidence
<1>3. Radar!ToldOnce BY DEF RadarInv, TellOnce, Radar!ToldOnce
<1>4. Radar!OneInitial
    <2> DEFINE S == {f \in Radar!Offering : offering[f].type = "initial"}
    <2>1. \A f, g \in S : f = g BY DEF RadarInv, OffersFit
    <2>2. Cardinality(S) <= 1
        <3>1. CASE S = {} BY <3>1, FS_EmptySet
        <3>2. CASE S # {}
            <4>1. PICK f : f \in S BY <3>2
            <4>2. S = {f} BY <2>1, <4>1
            <4> QED BY <4>2, FS_Singleton
        <3> QED BY <3>1, <3>2
    <2>3. Radar!Cardinality(S) = Cardinality(S) BY Zenon DEF Radar!Cardinality, Cardinality
    <2> QED BY <2>2, <2>3 DEF Radar!OneInitial
<1>5. Radar!ProgressTold BY DEF RadarInv, TablesFit, Radar!ProgressTold
<1> QED BY <1>1, <1>2, <1>3, <1>4, <1>5

\* In every state a listing is shown on evidence, each filing and its terms are told at
\* most once, one offering at most is the initial one, and what a follower's row records
\* was handed over; whichever filings, tickers and terms, and however many jobs start,
\* overlap and end early.
THEOREM RadarIsSound ==
    ASSUME RadarValues
    PROVE  Spec => []RadarKept
<1>1. Init => RadarInv BY PartsStart, RadarStarts
<1>2. RadarInv /\ [Next]_all => RadarInv' BY PartsStep, RadarStep
<1>3. RadarInv => RadarKept BY RadarImplies DEF RadarKept
<1> QED BY <1>1, <1>2, <1>3, PTL DEF Spec, all

-----------------------------------------------------------------------------
(* The allowance.  The row of the provider is changed in one transaction,  *)
(* so its counter, its date and its last dispatch tell what was let        *)
(* through, and a clock read late cannot move the day back, the pace being *)
(* checked against the last dispatch.                                      *)

\* What the code makes of the constants: an interval is between 100 ms and a
\* minute (UpdatePolicy), and a caller lives in one process.
BudgetValues ==
    /\ Budgets \subseteq Nat
    /\ Intervals \subseteq Nat \ {0} /\ \E m \in Intervals : \A i \in Intervals : i <= m
    /\ DayLength \in Nat \ {0} /\ BudgetEnd \in Nat /\ Deaths \in Nat
    /\ Home \in [Client -> Process] /\ Nobody \notin Client

BudgetDays == 0..Budget!Day(BudgetEnd)

\* The row's counter, date and last dispatch tell the same story as the past.
BudgetCounted ==
    /\ newest = policy.last
    /\ policy.used = dispatched[policy.date]
    /\ \A d \in BudgetDays : d > policy.date => dispatched[d] = 0
    /\ policy.last # Budget!NoTime => policy.date = Budget!Day(policy.last)
    /\ policy.last = Budget!NoTime => policy.date = 0 /\ \A d \in BudgetDays : dispatched[d] = 0

\* There was at most one request per tick so far.
BudgetSparse ==
    policy.last # Budget!NoTime => \A d \in BudgetDays : dispatched[d] <= policy.last + 1

BudgetInv == Budget!TypeOK /\ BudgetCounted /\ BudgetSparse

-----------------------------------------------------------------------------
LEMMA LargestInterval ==
    ASSUME BudgetValues
    PROVE  /\ Budget!MaxInterval \in Nat /\ \A i \in Intervals : i <= Budget!MaxInterval
           /\ Budget!NoTime \in Nat /\ Budget!NoTime \notin Budget!Time
           /\ Budget!Time \subseteq Nat
<1>1. Budget!MaxInterval \in Intervals /\ \A i \in Intervals : i <= Budget!MaxInterval
    BY DEF BudgetValues, Budget!MaxInterval
<1>2. Budget!MaxInterval \in Nat BY <1>1 DEF BudgetValues
<1>3. Budget!NoTime \in Nat /\ Budget!NoTime > BudgetEnd BY <1>2 DEF Budget!NoTime, BudgetValues
<1> QED BY <1>1, <1>2, <1>3 DEF Budget!Time, BudgetValues

LEMMA DaysFollow ==
    ASSUME BudgetValues, NEW t \in Nat, NEW u \in Nat, t <= u
    PROVE  Budget!Day(t) \in Nat /\ Budget!Day(t) <= Budget!Day(u)
BY DEF BudgetValues, Budget!Day

LEMMA DayOfTime ==
    ASSUME BudgetValues, NEW t \in Budget!Time
    PROVE  Budget!Day(t) \in BudgetDays
BY LargestInterval, DaysFollow DEF Budget!Time, BudgetDays, BudgetValues

LEMMA SumOfTimes ==
    ASSUME BudgetValues, NEW t \in Budget!Time, NEW i \in Intervals
    PROVE  t \in Nat /\ i \in Nat /\ i > 0 /\ t + i \in 0..BudgetEnd + Budget!MaxInterval
<1>1. t \in Nat /\ t <= BudgetEnd /\ i \in Nat /\ i > 0 /\ i <= Budget!MaxInterval
    BY LargestInterval DEF Budget!Time, BudgetValues
<1>2. BudgetEnd \in Nat /\ Budget!MaxInterval \in Nat BY LargestInterval DEF BudgetValues
<1> QED BY <1>1, <1>2

-----------------------------------------------------------------------------
LEMMA BudgetStarts ==
    ASSUME BudgetValues, Budget!Init
    PROVE  BudgetInv
<1>1. 0 \in BudgetDays BY DayOfTime, DaysFollow DEF BudgetDays, BudgetValues
<1>2. Budget!NoTime # 0 BY LargestInterval DEF Budget!Time, BudgetValues
<1>3. Budget!TypeOK
    <2>1. /\ policy \in Budget!Policy /\ clock \in Budget!Time /\ module \in BOOLEAN
          /\ newest \in Budget!Time \cup {Budget!NoTime}
        BY DEF Budget!Init, Budget!Time, BudgetValues
    <2>2. call \in [Client -> Budget!Call] BY LargestInterval DEF Budget!Init, Budget!NoCall,
        Budget!Call, Budget!PC, Budget!Time, BudgetValues
    <2>3. /\ mu \in [Process -> Client \cup {Nobody}]
          /\ next \in [Process -> 0..BudgetEnd + Budget!MaxInterval]
        BY LargestInterval DEF Budget!Init, BudgetValues
    <2>4. crashes \in 0..Deaths /\ dispatched \in [0..Budget!Day(BudgetEnd) -> 0..BudgetEnd + 1]
        BY DEF Budget!Init, BudgetValues
    <2>5. \A c \in Client : mu[Home[c]] = c <=> call[c].pc = "reserving"
        BY DEF Budget!Init, Budget!NoCall, BudgetValues
    <2> QED BY <2>1, <2>2, <2>3, <2>4, <2>5 DEF Budget!TypeOK
<1>4. policy.last = Budget!NoTime /\ policy.used = 0 /\ policy.date = 0 /\ newest = Budget!NoTime
      /\ \A d \in BudgetDays : dispatched[d] = 0
    BY DEF Budget!Init, BudgetDays
<1> QED BY <1>1, <1>2, <1>3, <1>4 DEF BudgetInv, BudgetCounted, BudgetSparse

\* Steps that leave the counters and the history alone.
LEMMA CountersKept ==
    ASSUME BudgetCounted, BudgetSparse, UNCHANGED Budget!history,
           policy'.date = policy.date, policy'.used = policy.used, policy'.last = policy.last
    PROVE  BudgetCounted' /\ BudgetSparse'
BY DEF BudgetCounted, BudgetSparse, Budget!history

\* A caller's step that changes its own call, and perhaps its process's memory.
LEMMA CallTypes ==
    ASSUME BudgetValues, Budget!TypeOK, NEW c \in Client,
           UNCHANGED <<clock, Budget!tables, crashes, Budget!history>>,
           call' \in [Client -> Budget!Call], \A k \in Client : k # c => call'[k] = call[k],
           next' \in [Process -> 0..BudgetEnd + Budget!MaxInterval],
           \/ mu' = mu /\ (call'[c].pc = "reserving" <=> call[c].pc = "reserving")
           \/ /\ mu' = [mu EXCEPT ![Home[c]] = Nobody] /\ call[c].pc = "reserving"
              /\ call'[c].pc # "reserving"
           \/ /\ mu' = [mu EXCEPT ![Home[c]] = c] /\ mu[Home[c]] = Nobody
              /\ call'[c].pc = "reserving"
    PROVE  Budget!TypeOK'
<1>1. Home[c] \in Process /\ c # Nobody /\ \A k \in Client : Home[k] \in Process /\ k # Nobody
    BY DEF BudgetValues
<1>2. mu' \in [Process -> Client \cup {Nobody}] BY <1>1 DEF Budget!TypeOK
<1>3. ASSUME NEW k \in Client
      PROVE  mu'[Home[k]] = k <=> call'[k].pc = "reserving"
    <2>1. /\ mu \in [Process -> Client \cup {Nobody}]
          /\ mu[Home[k]] = k <=> call[k].pc = "reserving"
          /\ mu[Home[c]] = c <=> call[c].pc = "reserving"
        BY <1>3 DEF Budget!TypeOK
    <2>2. k # c => call'[k] = call[k] BY <1>3
    <2>3. CASE mu' = mu /\ (call'[c].pc = "reserving" <=> call[c].pc = "reserving")
        BY <2>1, <2>2, <2>3
    <2>4. CASE /\ mu' = [mu EXCEPT ![Home[c]] = Nobody] /\ call[c].pc = "reserving"
               /\ call'[c].pc # "reserving"
        <3>1. mu'[Home[k]] = IF Home[k] = Home[c] THEN Nobody ELSE mu[Home[k]]
            BY <1>1, <2>1, <2>4
        <3> QED BY <1>1, <2>1, <2>2, <2>4, <3>1
    <2>5. CASE /\ mu' = [mu EXCEPT ![Home[c]] = c] /\ mu[Home[c]] = Nobody
               /\ call'[c].pc = "reserving"
        <3>1. mu'[Home[k]] = IF Home[k] = Home[c] THEN c ELSE mu[Home[k]]
            BY <1>1, <2>1, <2>5
        <3> QED BY <1>1, <2>1, <2>2, <2>5, <3>1
    <2> QED BY <2>3, <2>4, <2>5
<1> QED BY <1>2, <1>3 DEF Budget!TypeOK, Budget!tables, Budget!history

\* Every step of Acquire and Finish but the reservation.
LEMMA CallerKeeps ==
    ASSUME BudgetValues, BudgetInv, NEW c \in Client,
           \/ Budget!Begin(c) \/ Budget!CheckModule(c) \/ Budget!LockAndWait(c)
           \/ Budget!LockAndReserve(c) \/ Budget!ReserveLater(c) \/ Budget!ReserveRefused(c)
           \/ Budget!TimerFires(c) \/ Budget!Cancelled(c) \/ Budget!Finish(c)
    PROVE  BudgetInv'
<1> USE DEF BudgetInv
<1>0. /\ call \in [Client -> Budget!Call] /\ call[c] \in Budget!Call
      /\ clock \in Budget!Time /\ Home[c] \in Process
      /\ next \in [Process -> 0..BudgetEnd + Budget!MaxInterval]
    BY DEF Budget!TypeOK, BudgetValues
<1>n. Budget!NoCall \in Budget!Call /\ Budget!NoCall.pc = "idle"
    BY LargestInterval DEF Budget!NoCall, Budget!Call, Budget!PC, Budget!Time, BudgetValues
<1>c. BudgetCounted' /\ BudgetSparse'
    <2>1. policy' = policy /\ UNCHANGED Budget!history
        BY DEF Budget!Begin, Budget!CheckModule, Budget!LockAndWait, Budget!LockAndReserve,
            Budget!ReserveLater,
               Budget!ReserveRefused, Budget!TimerFires, Budget!Cancelled, Budget!Finish,
                   Budget!tables
    <2> QED BY <2>1, CountersKept
<1>1. CASE \/ Budget!Begin(c) \/ Budget!CheckModule(c) \/ Budget!TimerFires(c)
           \/ Budget!Cancelled(c) \/ Budget!Finish(c)
    <2>1. /\ UNCHANGED <<clock, Budget!tables, crashes, Budget!history>> /\ mu' = mu /\ next' = next
          /\ call[c].pc # "reserving"
        BY <1>1 DEF Budget!Begin, Budget!CheckModule, Budget!TimerFires, Budget!Cancelled,
            Budget!Finish
    <2>2. /\ call' \in [Client -> Budget!Call] /\ \A k \in Client : k # c => call'[k] = call[k]
          /\ call'[c].pc # "reserving"
        BY <1>1, <1>0, <1>n DEF Budget!Begin, Budget!CheckModule, Budget!TimerFires,
            Budget!Cancelled, Budget!Finish, Budget!Goto, Budget!Call, Budget!PC
    <2> QED BY <1>c, <1>0, <2>1, <2>2, CallTypes
<1>2. CASE Budget!LockAndWait(c)
    <2>1. PICK n \in Budget!Call : n = [Budget!NoCall EXCEPT !.pc = "waiting",
        !.until = next[Home[c]]]
        BY <1>0, <1>n DEF Budget!Call, Budget!PC
    <2>2. n.pc = "waiting" BY <2>1, <1>n DEF Budget!Call
    <2>3. call' = [call EXCEPT ![c] = n] BY <1>2, <2>1 DEF Budget!LockAndWait
    <2>4. call[c].pc = "checked" BY <1>2 DEF Budget!LockAndWait
    <2> QED BY <1>c, <1>0, <1>2, <2>2, <2>3, <2>4, CallTypes DEF Budget!LockAndWait
<1>3. CASE Budget!LockAndReserve(c)
    <2>1. PICK n \in Budget!Call : n = [Budget!NoCall EXCEPT !.pc = "reserving", !.now = clock]
        BY <1>0, <1>n DEF Budget!Call, Budget!PC
    <2>2. n.pc = "reserving" BY <2>1, <1>n DEF Budget!Call
    <2>3. call' = [call EXCEPT ![c] = n] BY <1>3, <2>1 DEF Budget!LockAndReserve
    <2> QED BY <1>c, <1>0, <1>3, <2>2, <2>3, CallTypes DEF Budget!LockAndReserve
<1>4. CASE Budget!ReserveLater(c)
    <2>1. policy.last \in Budget!Time /\ policy.interval \in Intervals
        BY <1>4 DEF Budget!ReserveLater, Budget!TooSoon, Budget!TypeOK, Budget!Policy
    <2>2. PICK u \in 0..BudgetEnd + Budget!MaxInterval : u = policy.last + policy.interval
        BY <2>1, SumOfTimes
    <2>3. next' \in [Process -> 0..BudgetEnd + Budget!MaxInterval]
        BY <1>4, <1>0, <2>2 DEF Budget!ReserveLater
    <2>4. /\ call' \in [Client -> Budget!Call] /\ \A k \in Client : k # c => call'[k] = call[k]
          /\ call'[c].pc = "checking"
        BY <1>4, <1>0 DEF Budget!ReserveLater, Budget!Goto, Budget!Call, Budget!PC
    <2> QED BY <1>c, <1>4, <2>3, <2>4, CallTypes DEF Budget!ReserveLater, Budget!Unlock
<1>5. CASE Budget!ReserveRefused(c)
    <2>1. /\ call' \in [Client -> Budget!Call] /\ \A k \in Client : k # c => call'[k] = call[k]
          /\ call'[c].pc = "idle"
        BY <1>5, <1>0, <1>n DEF Budget!ReserveRefused
    <2> QED BY <1>c, <1>5, <1>0, <2>1, CallTypes DEF Budget!ReserveRefused, Budget!Unlock
<1> QED BY <1>1, <1>2, <1>3, <1>4, <1>5

\* What the transaction of a reservation finds and leaves.
LEMMA ReserveFacts ==
    ASSUME BudgetValues, BudgetInv, NEW c \in Client, Budget!Reserve(c),
           NEW moment, moment = call[c].now, NEW today, today = Budget!Day(moment)
    PROVE  /\ moment \in Budget!Time /\ today \in BudgetDays /\ policy.date \in BudgetDays
           /\ policy.last # Budget!NoTime => policy.last + policy.interval <= moment
           /\ policy.date <= today
           /\ Budget!UsedOn(today) = dispatched[today]
           /\ policy.budget > 0 => dispatched[today] < policy.budget
           /\ dispatched[today] \in 0..BudgetEnd
           /\ \A d \in BudgetDays : d > today => dispatched[d] = 0
           /\ \A d \in BudgetDays : dispatched[d] <= moment
<1>1. /\ moment \in Budget!Time /\ policy.last \in Budget!Time \cup {Budget!NoTime}
      /\ policy.interval \in Intervals
      /\ policy.date \in BudgetDays /\ policy.budget \in Budgets
      /\ dispatched \in [BudgetDays -> 0..BudgetEnd + 1] /\ policy.used \in 0..BudgetEnd + 1
    BY DEF BudgetInv, Budget!TypeOK, Budget!Call, Budget!Policy, BudgetDays
<1>2. today \in BudgetDays BY <1>1, DayOfTime
<1>t. /\ Budget!Time \subseteq Nat /\ BudgetDays \subseteq Nat
      /\ Intervals \subseteq Nat \ {0} /\ BudgetEnd \in Nat
      /\ Budgets \subseteq Nat /\ \A t \in Budget!Time : t <= BudgetEnd
    BY LargestInterval DEF BudgetDays, BudgetValues, Budget!Time
<1>3. policy.last # Budget!NoTime => policy.last + policy.interval <= moment
    BY <1>1, <1>t DEF Budget!Reserve, Budget!TooSoon
<1>4. CASE policy.last = Budget!NoTime
    <2>1. \A d \in BudgetDays : dispatched[d] = 0 BY <1>4 DEF BudgetInv, BudgetCounted
    <2>2. policy.used = 0 BY <2>1, <1>1 DEF BudgetInv, BudgetCounted
    <2>3. Budget!UsedOn(today) = 0 BY <2>2 DEF Budget!UsedOn
    <2>4. policy.date <= today BY <1>4, <1>2, <1>t DEF BudgetInv, BudgetCounted
    <2> QED BY <1>1, <1>2, <1>t, <1>4, <2>1, <2>3, <2>4 DEF Budget!Reserve, Budget!Exhausted
<1>5. CASE policy.last # Budget!NoTime
    <2>1. policy.last \in Budget!Time /\ policy.last <= moment /\ policy.last + 1 <= moment
        <3>1. PICK last \in Budget!Time, i \in Intervals : last = policy.last /\ i = policy.interval
            BY <1>1, <1>5
        <3>2. last + i <= moment BY <1>3, <1>5, <3>1
        <3>3. last \in Nat /\ i \in Nat /\ i > 0 /\ moment \in Nat BY <1>1, <3>1, SumOfTimes, <1>t
        <3>4. last <= moment /\ last + 1 <= moment BY <3>2, <3>3
        <3> QED BY <3>1, <3>4
    <2>2. policy.date <= today BY <1>5, <1>t, <1>1, <2>1, DaysFollow DEF BudgetInv, BudgetCounted
    <2>c. PICK date \in BudgetDays : /\ date = policy.date
                                     /\ policy.used = dispatched[date]
                                     /\ \A d \in BudgetDays : d > date => dispatched[d] = 0
        BY <1>1 DEF BudgetInv, BudgetCounted
    <2>d. date <= today /\ date \in Nat /\ today \in Nat BY <1>2, <1>t, <2>c, <2>2
    <2>3. Budget!UsedOn(today) = dispatched[today]
        <3>1. CASE date = today BY <2>c, <3>1 DEF Budget!UsedOn
        <3>2. CASE date # today
            <4>1. today > date BY <2>d, <3>2
            <4> QED BY <4>1, <3>2, <2>c, <1>2 DEF Budget!UsedOn
        <3> QED BY <3>1, <3>2
    <2>4. \A d \in BudgetDays : dispatched[d] <= moment
        <3>0. PICK last \in Nat : last = policy.last BY <2>1, <1>t
        <3>1. PICK n \in Nat : n = last + 1 BY <3>0
        <3>2. n = policy.last + 1 /\ n <= moment /\ moment \in Nat BY <3>0, <3>1, <2>1, <1>1, <1>t
        <3>3. \A d \in BudgetDays : dispatched[d] <= n BY <3>2, <1>5 DEF BudgetInv, BudgetSparse
        <3>4. \A d \in BudgetDays : dispatched[d] \in Nat BY <1>1, <1>t
        <3> QED BY <3>2, <3>3, <3>4
    <2>5. \A d \in BudgetDays : d > today => dispatched[d] = 0
        <3>1. \A d \in BudgetDays : d > today => d > date BY <2>d, <1>t
        <3> QED BY <2>c, <3>1
    <2>6. dispatched[today] \in 0..BudgetEnd BY <1>1, <1>2, <1>t, <2>4
    <2> QED
        BY <1>1, <1>2, <1>3, <1>t, <2>2, <2>3, <2>4, <2>5, <2>6 DEF Budget!Reserve, Budget!Exhausted
<1> QED BY <1>4, <1>5

LEMMA ReserveKeeps ==
    ASSUME BudgetValues, BudgetInv, NEW c \in Client, Budget!Reserve(c)
    PROVE  BudgetInv'
<1> DEFINE moment == call[c].now
           today == Budget!Day(moment)
<1>1. /\ moment \in Budget!Time /\ today \in BudgetDays
      /\ Budget!UsedOn(today) = dispatched[today]
      /\ dispatched[today] \in 0..BudgetEnd
      /\ \A d \in BudgetDays : d > today => dispatched[d] = 0
      /\ \A d \in BudgetDays : dispatched[d] <= moment
    BY ReserveFacts
<1>2. PICK t \in Budget!Time, e \in BudgetDays, u \in 0..BudgetEnd :
          /\ t = moment /\ e = today /\ u = dispatched[today]
          /\ \A d \in BudgetDays : d > e => dispatched[d] = 0
          /\ \A d \in BudgetDays : dispatched[d] <= t
          /\ Budget!UsedOn(e) = u /\ e = Budget!Day(t)
    BY <1>1
<1>3. PICK n \in 0..BudgetEnd + 1 : n = u + 1 /\ n \in Nat BY DEF BudgetValues
<1>4. /\ dispatched \in [BudgetDays -> 0..BudgetEnd + 1] /\ call \in [Client -> Budget!Call]
      /\ policy \in Budget!Policy /\ policy.interval \in Intervals
      /\ next \in [Process -> 0..BudgetEnd + Budget!MaxInterval] /\ Home[c] \in Process
    BY DEF BudgetInv, Budget!TypeOK, BudgetDays, Budget!Policy, BudgetValues
<1>5. /\ policy' = [policy EXCEPT !.date = e, !.used = n, !.last = t]
      /\ dispatched'[e] = n /\ \A d \in BudgetDays : d # e => dispatched'[d] = dispatched[d]
      /\ dispatched' \in [BudgetDays -> 0..BudgetEnd + 1]
      /\ newest' = t
    <2> HIDE DEF moment, today
    <2>1. /\ policy' = [policy EXCEPT !.date = e, !.used = u + 1, !.last = t] /\ newest' = t
          /\ dispatched' = [dispatched EXCEPT ![e] = dispatched[e] + 1]
        BY <1>2 DEF Budget!Reserve, moment, today
    <2>2. dispatched[e] + 1 = n BY <1>2, <1>3
    <2> QED BY <1>3, <1>4, <2>1, <2>2
<1> HIDE DEF moment, today
<1>6. policy' \in Budget!Policy /\ policy'.date = e /\ policy'.used = n /\ policy'.last = t
    BY <1>4, <1>5 DEF Budget!Policy, BudgetDays
<1>7. BudgetCounted' /\ BudgetSparse'
    <2>1. t # Budget!NoTime BY LargestInterval
    <2>2. \A d \in BudgetDays : d \in Nat /\ (d > e => d # e)
        BY DaysFollow DEF BudgetDays, BudgetValues
    <2>3. BudgetCounted' BY <1>2, <1>5, <1>6, <2>1, <2>2 DEF BudgetCounted
    <2>4. t \in Nat /\ u <= t /\ \A d \in BudgetDays : dispatched[d] \in Nat
        BY <1>2, <1>4, LargestInterval DEF BudgetValues
    <2>5. PICK m \in Nat : m = t + 1 BY <2>4
    <2>6. ASSUME NEW d \in BudgetDays
          PROVE  dispatched'[d] <= m
        <3>1. CASE d = e
            <4>1. n <= m BY <1>3, <2>4, <2>5
            <4> QED BY <3>1, <4>1, <1>5
        <3>2. CASE d # e
            <4>1. PICK k \in Nat : k = dispatched[d] /\ k <= t BY <1>2, <2>4
            <4>2. k <= m BY <4>1, <2>4, <2>5
            <4> QED BY <3>2, <4>1, <4>2, <1>5
        <3> QED BY <3>1, <3>2
    <2>7. BudgetSparse' BY <1>6, <2>5, <2>6 DEF BudgetSparse
    <2> QED BY <2>3, <2>7
<1>8. Budget!TypeOK'
    <2>1. PICK w \in 0..BudgetEnd + Budget!MaxInterval : w = t + policy.interval
        BY <1>4, SumOfTimes
    <2>2. next' \in [Process -> 0..BudgetEnd + Budget!MaxInterval]
        BY <1>2, <1>4, <2>1 DEF Budget!Reserve, moment
    <2>3. /\ call' \in [Client -> Budget!Call] /\ \A k \in Client : k # c => call'[k] = call[k]
          /\ call'[c].pc = "dispatched"
        BY <1>4 DEF Budget!Reserve, Budget!Goto, Budget!Call, Budget!PC
    <2>4. /\ mu' = [mu EXCEPT ![Home[c]] = Nobody] /\ call[c].pc = "reserving"
          /\ UNCHANGED <<clock, module, crashes>>
        BY DEF Budget!Reserve, Budget!Unlock
    <2>5. mu' \in [Process -> Client \cup {Nobody}] BY <2>4, <1>4 DEF BudgetInv, Budget!TypeOK
    <2>6. ASSUME NEW k \in Client
          PROVE  mu'[Home[k]] = k <=> call'[k].pc = "reserving"
        <3>1. Home[k] \in Process /\ k # Nobody /\ Home[c] \in Process /\ c # Nobody
            BY DEF BudgetValues
        <3> QED BY <2>3, <2>4, <3>1 DEF BudgetInv, Budget!TypeOK
    <2> QED BY <1>5, <1>6, <2>2, <2>3, <2>4, <2>5, <2>6 DEF BudgetInv, Budget!TypeOK, BudgetDays
<1> QED BY <1>7, <1>8 DEF BudgetInv

\* The operator, time and crashes.
LEMMA OthersKeep ==
    ASSUME BudgetValues, BudgetInv,
           \/ \E paused \in BOOLEAN, b \in Budgets,
               i \in Intervals : Budget!UpdatePolicy(paused, b, i)
           \/ \E on \in BOOLEAN : Budget!UpdateModule(on)
           \/ Budget!Tick
           \/ \E p \in Process : Budget!Crash(p)
           \/ UNCHANGED Budget!vars
    PROVE  BudgetInv'
<1>1. ASSUME NEW paused \in BOOLEAN, NEW b \in Budgets, NEW i \in Intervals,
             Budget!UpdatePolicy(paused, b, i)
      PROVE  BudgetInv'
    <2>1. /\ policy' \in Budget!Policy /\ policy'.date = policy.date /\ policy'.used = policy.used
          /\ policy'.last = policy.last
        BY <1>1 DEF Budget!UpdatePolicy, BudgetInv, Budget!TypeOK, Budget!Policy
    <2>2. UNCHANGED Budget!history BY <1>1 DEF Budget!UpdatePolicy
    <2>3. Budget!TypeOK'
        BY <1>1, <2>1 DEF Budget!UpdatePolicy, BudgetInv, Budget!TypeOK, Budget!history
    <2> QED BY <2>1, <2>2, <2>3, CountersKept DEF BudgetInv
<1>2. ASSUME NEW on \in BOOLEAN, Budget!UpdateModule(on)
      PROVE  BudgetInv'
    <2>1. Budget!TypeOK' BY <1>2 DEF Budget!UpdateModule, BudgetInv, Budget!TypeOK, Budget!history
    <2>2. policy' = policy /\ UNCHANGED Budget!history BY <1>2 DEF Budget!UpdateModule
    <2> QED BY <2>1, <2>2, CountersKept DEF BudgetInv
<1>3. CASE Budget!Tick
    <2>1. clock' \in Budget!Time
        BY <1>3 DEF Budget!Tick, BudgetInv, Budget!TypeOK, Budget!Time, BudgetValues
    <2>2. Budget!TypeOK'
        BY <1>3, <2>1 DEF Budget!Tick, BudgetInv, Budget!TypeOK, Budget!history, Budget!tables
    <2>3. policy' = policy /\ UNCHANGED Budget!history BY <1>3 DEF Budget!Tick, Budget!tables
    <2> QED BY <2>2, <2>3, CountersKept DEF BudgetInv
<1>4. ASSUME NEW p \in Process, Budget!Crash(p)
      PROVE  BudgetInv'
    <2>1. policy' = policy /\ module' = module /\ clock' = clock /\ UNCHANGED Budget!history
        BY <1>4 DEF Budget!Crash, Budget!tables
    <2>2. Budget!NoCall \in Budget!Call /\ Budget!NoCall.pc = "idle"
        BY LargestInterval DEF Budget!NoCall, Budget!Call, Budget!PC, Budget!Time, BudgetValues
    <2>3. call' \in [Client -> Budget!Call]
          /\ \A k \in Client : call'[k] = IF Home[k] = p THEN Budget!NoCall ELSE call[k]
        BY <1>4, <2>2 DEF Budget!Crash, BudgetInv, Budget!TypeOK
    <2>4. /\ mu' \in [Process -> Client \cup {Nobody}]
          /\ next' \in [Process -> 0..BudgetEnd + Budget!MaxInterval]
        BY <1>4, LargestInterval DEF Budget!Crash, BudgetInv, Budget!TypeOK, BudgetValues
    <2>5. crashes' \in 0..Deaths BY <1>4 DEF Budget!Crash, BudgetInv, Budget!TypeOK, BudgetValues
    <2>6. ASSUME NEW k \in Client
          PROVE  mu'[Home[k]] = k <=> call'[k].pc = "reserving"
        <3>1. Home[k] \in Process /\ k # Nobody BY DEF BudgetValues
        <3> QED BY <1>4, <2>2, <2>3, <3>1 DEF Budget!Crash, BudgetInv, Budget!TypeOK
    <2>7. Budget!TypeOK'
        BY <2>1, <2>3, <2>4, <2>5, <2>6 DEF BudgetInv, Budget!TypeOK, Budget!history
    <2> QED BY <2>1, <2>7, CountersKept DEF BudgetInv
<1>5. CASE UNCHANGED Budget!vars
    <2>1. Budget!TypeOK'
        BY <1>5 DEF Budget!vars, Budget!tables, Budget!history, BudgetInv, Budget!TypeOK
    <2>2. policy' = policy /\ UNCHANGED Budget!history BY <1>5 DEF Budget!vars, Budget!tables
    <2> QED BY <2>1, <2>2, CountersKept DEF BudgetInv
<1> QED BY <1>1, <1>2, <1>3, <1>4, <1>5

LEMMA BudgetStays ==
    ASSUME BudgetValues, BudgetInv, [Budget!Next]_Budget!vars
    PROVE  BudgetInv'
BY CallerKeeps, ReserveKeeps, OthersKeep DEF Budget!Next, Budget!Acquire

LEMMA BudgetInvariant ==
    ASSUME BudgetValues
    PROVE  Budget!Spec => []BudgetInv
<1>1. Budget!Init => BudgetInv BY BudgetStarts
<1>2. BudgetInv /\ [Budget!Next]_Budget!vars => BudgetInv' BY BudgetStays
<1> QED BY <1>1, <1>2, PTL DEF Budget!Spec

-----------------------------------------------------------------------------
\* The variables have their types, the counters their bounds, and a caller
\* holds its process's mutex exactly while it reserves.
THEOREM BudgetTypes ==
    ASSUME BudgetValues
    PROVE  Budget!Spec => []Budget!TypeOK
BY BudgetInvariant, PTL DEF BudgetInv

\* The used_count of the provider's row is the number of requests made on its
\* date, whatever settings are saved, clocks read late and processes restarted.
THEOREM CounterExact ==
    ASSUME BudgetValues
    PROVE  Budget!Spec => []Budget!UsedExact
<1>1. BudgetInv => Budget!UsedExact BY DEF BudgetInv, BudgetCounted, Budget!UsedExact
<1> QED BY <1>1, BudgetInvariant, PTL

\* Only the transaction of Acquire dispatches.
LEMMA OnlyReserve ==
    ASSUME BudgetValues, BudgetInv, [Budget!Next]_Budget!vars, NEW c \in Client, Budget!Reserves(c)
    PROVE  Budget!Reserve(c)
<1>0. call \in [Client -> Budget!Call] /\ call[c].pc = "reserving" /\ call'[c].pc = "dispatched"
    BY DEF BudgetInv, Budget!TypeOK, Budget!Reserves
<1>1. ASSUME NEW k \in Client,
             \/ Budget!Begin(k) \/ Budget!CheckModule(k) \/ Budget!LockAndWait(k)
             \/ Budget!LockAndReserve(k) \/ Budget!ReserveLater(k) \/ Budget!ReserveRefused(k)
             \/ Budget!TimerFires(k) \/ Budget!Cancelled(k) \/ Budget!Finish(k)
      PROVE  FALSE
    <2>1. \A l \in Client : l # k => call'[l] = call[l]
        BY <1>0, <1>1 DEF Budget!Begin, Budget!CheckModule, Budget!LockAndWait,
            Budget!LockAndReserve, Budget!ReserveLater,
                          Budget!ReserveRefused, Budget!TimerFires, Budget!Cancelled,
                              Budget!Finish, Budget!Goto
    <2>2. k = c BY <2>1, <1>0
    <2> QED BY <1>0, <1>1, <2>2
        DEF Budget!Begin, Budget!CheckModule, Budget!LockAndWait, Budget!LockAndReserve,
            Budget!ReserveLater,
            Budget!ReserveRefused, Budget!TimerFires, Budget!Cancelled, Budget!Finish,
                Budget!Goto, Budget!NoCall, Budget!Call
<1>2. ASSUME NEW k \in Client, Budget!Reserve(k)
      PROVE  k = c
    BY <1>0, <1>2 DEF Budget!Reserve, Budget!Goto
<1>3. ASSUME call' = call
      PROVE  FALSE
    BY <1>0, <1>3
<1>4. ASSUME NEW p \in Process, Budget!Crash(p)
      PROVE  FALSE
    BY <1>0, <1>4 DEF Budget!Crash, Budget!NoCall
<1> QED BY <1>1, <1>2, <1>3, <1>4 DEF Budget!Next, Budget!Acquire, Budget!UpdatePolicy,
    Budget!UpdateModule, Budget!Tick, Budget!vars

\* "Separate processes cannot race the daily allowance" (Acquire): a request is
\* let through only if fewer than the budget in force were made on its day, in
\* all processes together.
THEOREM BudgetSpent ==
    ASSUME BudgetValues
    PROVE  Budget!Spec => Budget!BudgetKept
<1>1. ASSUME BudgetInv, [Budget!Next]_Budget!vars, NEW c \in Client, Budget!Reserves(c),
              policy.budget > 0
       PROVE  dispatched[Budget!Day(call[c].now)] < policy.budget
    BY <1>1, OnlyReserve, ReserveFacts
<1>2. BudgetInv /\ [Budget!Next]_Budget!vars =>
        [\A c \in Client : Budget!Reserves(c) /\ policy.budget > 0
            => dispatched[Budget!Day(call[c].now)] < policy.budget]_Budget!vars
    BY <1>1
<1> QED BY <1>2, BudgetInvariant, PTL DEF Budget!Spec, Budget!BudgetKept

\* Two requests, of whichever processes, are the interval in force apart.
THEOREM PaceKept ==
    ASSUME BudgetValues
    PROVE  Budget!Spec => Budget!Paced
<1>1. ASSUME BudgetInv, [Budget!Next]_Budget!vars, NEW c \in Client, Budget!Reserves(c),
              newest # Budget!NoTime
       PROVE  newest + policy.interval <= call[c].now
    BY <1>1, OnlyReserve, ReserveFacts DEF BudgetInv, BudgetCounted
<1>2. BudgetInv /\ [Budget!Next]_Budget!vars =>
        [\A c \in Client : Budget!Reserves(c) /\ newest # Budget!NoTime
            => newest + policy.interval <= call[c].now]_Budget!vars
    BY <1>1
<1> QED BY <1>2, BudgetInvariant, PTL DEF Budget!Spec, Budget!Paced

-----------------------------------------------------------------------------
(* Each part behaves as its module says.                                   *)

LEMMA BudgetBehaves == Spec => Budget!Spec
<1>1. Init => Budget!Init BY PartsStart
<1>2. [Next]_all => [Budget!Next]_Budget!vars
    <2>1. Budget!vars = budgetVars \/ UNCHANGED budgetVars => UNCHANGED Budget!vars
        BY DEF Budget!vars, Budget!tables, Budget!history, budgetVars
    <2> QED BY <2>1, PartsStep DEF Budget!vars, Budget!tables, Budget!history, budgetVars
<1> QED BY <1>1, <1>2, PTL DEF Spec, Budget!Spec, all

LEMMA DownloadsBehave == Spec => Downloads!Spec
<1>1. Init => Downloads!Init BY PartsStart
<1>2. [Next]_all => [Downloads!Next]_Downloads!vars
    BY PartsStep DEF Downloads!vars, downloadVars
<1> QED BY <1>1, <1>2, PTL DEF Spec, Downloads!Spec, all

LEMMA AnalysisBehaves == Spec => Analysis!Steps
<1>1. Init => Analysis!Init BY PartsStart
<1>2. [Next]_all => [Analysis!Next]_Analysis!vars
    BY PartsStep DEF Analysis!vars, analysisVars
<1> QED BY <1>1, <1>2, PTL DEF Spec, Analysis!Steps, all

-----------------------------------------------------------------------------
\* The daily allowance and the pace of a provider, over the server and the
\* command line, with settings changed and processes restarted meanwhile.
THEOREM AllowanceKept ==
    ASSUME BudgetValues
    PROVE  Spec => BudgetKept
<1>1. Spec => []Budget!TypeOK BY BudgetBehaves, BudgetTypes
<1>2. Spec => []Budget!UsedExact BY BudgetBehaves, CounterExact
<1>3. Spec => Budget!BudgetKept BY BudgetBehaves, BudgetSpent
<1>4. Spec => Budget!Paced BY BudgetBehaves, PaceKept
<1> QED BY <1>1, <1>2, <1>3, <1>4, PTL DEF BudgetKept

\* One download per path at a time, and a result that is the file's content.
THEOREM DownloadsAlone ==
    ASSUME NobodyIsNone
    PROVE  Spec => []DownloadsKept
<1>1. Nobody \notin {lock1, lock2} \cup {path} BY DEF NobodyIsNone
<1>2. Downloads!IsFiniteSet({c1, c2, c3})
    <2>1. Downloads!IsFiniteSet({c3}) BY Downloads!FS_Singleton
    <2>2. Downloads!IsFiniteSet({c3} \cup {c2}) BY <2>1, Downloads!FS_AddElement
    <2>3. Downloads!IsFiniteSet(({c3} \cup {c2}) \cup {c1}) BY <2>2, Downloads!FS_AddElement
    <2>4. {c1, c2, c3} = ({c3} \cup {c2}) \cup {c1} OBVIOUS
    <2> QED BY <2>3, <2>4
<1>3. Downloads!Spec => []Downloads!OnePerPath BY <1>1, <1>2, Downloads!OneAtATime
<1>4. Downloads!Spec => []Downloads!ResultIsFile BY <1>1, <1>2, Downloads!ResultGenuine
<1> QED BY <1>3, <1>4, DownloadsBehave, PTL DEF DownloadsKept

\* One live analysis per subject, judgements that go back to valid answers about the
\* same subject, facts and document, and a bounded number of calls.
THEOREM AnalysesSound == Spec => []AnalysisKept
<1>1. Analysis!Positive BY DEF Analysis!Positive
<1>2. Analysis!Steps => []Analysis!TypeOK BY <1>1, Analysis!TypeCorrect
<1>3. Analysis!Steps => []Analysis!OneActive BY <1>1, Analysis!OneAtATime
<1>4. Analysis!Steps => []Analysis!JudgementIsGenuine BY <1>1, Analysis!JudgementsGenuine
<1>5. Analysis!Steps => []Analysis!CallsBounded BY <1>1, Analysis!CallsCounted
<1> QED BY <1>2, <1>3, <1>4, <1>5, AnalysisBehaves, PTL DEF AnalysisKept

-----------------------------------------------------------------------------
(* The filing sync, in its three parts, and the index.  A part's variables *)
(* stand still while another part is at work, and a behaviour is of one    *)
(* part from the start.                                                    *)

SyncsInv ==
    /\ part = "news" => News!Inv
    /\ part = "crash" => Crashes!Inv
    /\ part = "recovery" => Recovery!Inv

LEMMA NewsValues == News!Sensible
<1>1. News!IsFiniteSet({1}) BY News!FS_Singleton
<1> QED BY <1>1 DEF News!Sensible

LEMMA CrashesValues == Crashes!Sensible
<1>1. Crashes!IsFiniteSet({1}) BY Crashes!FS_Singleton
<1> QED BY <1>1 DEF Crashes!Sensible

LEMMA RecoveryValues == Recovery!Sensible
<1>1. Recovery!IsFiniteSet({1}) BY Recovery!FS_Singleton
<1>2. Recovery!IsFiniteSet({1} \cup {2}) BY <1>1, Recovery!FS_AddElement
<1>3. {1, 2} = {1} \cup {2} OBVIOUS
<1> QED BY <1>2, <1>3 DEF Recovery!Sensible

LEMMA SyncsStart ==
    ASSUME Init
    PROVE  SyncsInv
<1>1. part = "recovery" => Recovery!Init BY Zenon DEF Init
<1>2. part \in {"news", "crash"} => News!Init
    <2>1. "news" # "recovery" /\ "crash" # "recovery" OBVIOUS
    <2> QED BY <2>1, Zenon DEF Init
<1>3. News!Init => Crashes!Init
    BY DEF News!Init, Crashes!Init, News!Idle, Crashes!Idle, News!Pairs, Crashes!Pairs
<1>4. ASSUME part = "news" PROVE News!Inv BY <1>2, <1>4, NewsValues, News!Initially
<1>5. ASSUME part = "crash" PROVE Crashes!Inv
    BY <1>2, <1>3, <1>5, CrashesValues, Crashes!Initially
<1>6. ASSUME part = "recovery" PROVE Recovery!Inv
    BY <1>1, <1>6, RecoveryValues, Recovery!Initially
<1> QED BY <1>4, <1>5, <1>6 DEF SyncsInv

\* A step belongs to one part.
LEMMA SyncsMove ==
    ASSUME [Next]_all
    PROVE  /\ part' = part
           /\ part = "news" => [News!Next]_filingVars
           /\ part = "crash" => [Crashes!Next]_filingVars
           /\ part = "recovery" => [Recovery!Next]_filingVars
<1>0. /\ Next => part' = part
      /\ Next \/ UNCHANGED all
    BY Zenon DEF Next, Only, all
<1>1. part' = part BY <1>0 DEF all
<1>2. ASSUME NEW p \in Syncs, part = p, Next
      PROVE  \/ Only("news") /\ News!Next /\ p = "news"
             \/ Only("crash") /\ Crashes!Next /\ p = "crash"
             \/ Only("recovery") /\ Recovery!Next /\ p = "recovery"
    <2>1. \A q \in {"budget", "pacer", "snapshots", "downloads", "summary", "analysis", "index",
                    "listing", "filings"} : ~ Only(q)
        BY <1>2 DEF Only, Syncs
    <2>2. \/ Only("news") /\ News!Next
          \/ Only("crash") /\ Crashes!Next
          \/ Only("recovery") /\ Recovery!Next
        BY <1>2, <2>1, Zenon DEF Next
    <2>3. \A q \in Syncs : Only(q) => q = p BY <1>2 DEF Only
    <2> QED BY <2>2, <2>3 DEF Syncs
<1>3. UNCHANGED all => UNCHANGED filingVars BY DEF all
<1> QED BY <1>0, <1>1, <1>2, <1>3 DEF Syncs

LEMMA SyncsStay ==
    ASSUME SyncsInv, [Next]_all
    PROVE  SyncsInv'
<1>1. ASSUME part = "news" PROVE News!Inv'
    <2>1. [News!Next]_News!vars BY <1>1, SyncsMove DEF News!vars, News!tables, News!histories, filingVars
    <2> QED BY <1>1, <2>1, NewsValues, News!Stays DEF SyncsInv
<1>2. ASSUME part = "crash" PROVE Crashes!Inv'
    <2>1. [Crashes!Next]_Crashes!vars BY <1>2, SyncsMove DEF Crashes!vars, Crashes!tables, Crashes!histories, filingVars
    <2> QED BY <1>2, <2>1, CrashesValues, Crashes!Stays DEF SyncsInv
<1>3. ASSUME part = "recovery" PROVE Recovery!Inv'
    <2>1. [Recovery!Next]_Recovery!vars BY <1>3, SyncsMove DEF Recovery!vars, Recovery!tables, Recovery!histories, filingVars
    <2> QED BY <1>3, <2>1, RecoveryValues, Recovery!Stays DEF SyncsInv
<1> QED BY <1>1, <1>2, <1>3, SyncsMove DEF SyncsInv

\* A filing the cleanup did not drop too early is announced once for a target, whether
\* refreshes overlap, lose filings to the cleanup or fail; a run that ended well decided
\* on all it associated, and any other dropped something only by a failure or a filing
\* that was gone; the task reports as many unresolved targets as it left; and a trust's
\* filing is taken for a fund only if SEC lists its class.
THEOREM FilingsSound ==
    ASSUME IndexEnd \in Nat \ {0}
    PROVE  Spec => []FilingsKept
<1>1. Init => SyncsInv BY SyncsStart
<1>2. SyncsInv /\ [Next]_all => SyncsInv' BY SyncsStay
<1>3. SyncsInv /\ Index!TypeOK /\ Index!MatchedIsListed => FilingsKept
    <2>1. News!Inv => News!TypeOK /\ News!AnnouncedOnce /\ News!NothingDropped
        BY NewsValues, News!Consequences
    <2>2. Crashes!Inv => Crashes!TypeOK /\ Crashes!AnnouncedOnce /\ Crashes!NothingDropped
        BY CrashesValues, Crashes!Consequences
    <2>3. Recovery!Inv => Recovery!TypeOK /\ Recovery!UnresolvedExact
        BY RecoveryValues, Recovery!Consequences
    <2> QED BY <2>1, <2>2, <2>3 DEF SyncsInv, FilingsKept
<1> QED BY <1>1, <1>2, <1>3, FundsAreListed, PTL DEF Spec, all
=============================================================================
