--------------------------- MODULE DiscoverySync ---------------------------
(***************************************************************************)
(* The discovery workflows (internal/service/discovery_sync.go): a row of  *)
(* discovery_sync_runs that a unique partial index turns into a lease, the *)
(* batches a workflow publishes behind the two current-batch pointers, the *)
(* per-process gate around a coordinator run, the policy editor and the    *)
(* one-symbol correction that publish into the same workspace, and the     *)
(* recovery of leases whose owner died.                                    *)
(*                                                                         *)
(* The server runs several workflows as goroutines; every other workflow   *)
(* is a process of its own, one call of cmd/discovery-sync.  What a batch  *)
(* contains, its drafts and its checkpoints are left out: a batch is its   *)
(* kind, its policy, the security batch it is derived from, and whether it *)
(* is of the current New York day.                                         *)
(* The heartbeat of a live owner is assumed never to be older than its     *)
(* timeout plus fifteen minutes.                                           *)
(*                                                                         *)
(* An operator named X_Slip is not part of the model: it is X as a         *)
(* plausible slip would leave it, to show that a property notices.         *)
(***************************************************************************)
EXTENDS Naturals, Sequences

CONSTANTS
    Workflow,      \* everything that may start a discovery run
    Command,       \* the workflows started by cmd/discovery-sync
    Server,        \* the server process
    Kind,          \* the kinds of runs started: "full", "incremental", "market"
    Policy,        \* contents of small-cap policies
    Corrections,   \* TRUE: corrections of single candidates are requested
    Corrector,     \* the request that corrects a candidate
    None,          \* no policy, no holder, no kind
    Established,   \* TRUE: earlier workflows published both batches
    Crashable,     \* the processes that may die
    MaxRuns,       \* bound: rows of discovery_sync_runs
    MaxBatches,    \* bound: published batches
    MaxVersions,   \* bound: policy versions
    MaxCrashes     \* bound: deaths of a process

ASSUME WorkflowsAssumption ==
    /\ Command \subseteq Workflow /\ Crashable \subseteq {Server} \cup Command
    /\ Server \notin Workflow /\ Corrector \notin Workflow
    /\ None \notin Workflow \cup Policy \cup {Server, Corrector}
ASSUME SwitchesAssumption == {Established, Corrections} \subseteq BOOLEAN
ASSUME KindAssumption == Kind \subseteq {"full", "incremental", "market"}
ASSUME BoundsAssumption ==
    /\ {MaxRuns, MaxBatches, MaxVersions, MaxCrashes} \subseteq Nat
    /\ Established => MaxBatches >= 2

Process == {Server} \cup Command
Home(w) == IF w \in Command THEN w ELSE Server

VARIABLES
    runs,       \* discovery_sync_runs, the id is the position
    batches,    \* published universe_batches, the id is the position
    current,    \* current_batch_pointers, 0 for a missing row
    active,     \* the newest small_cap_policy_activation: version and content
    wf,         \* the local state of each workflow
    gate,       \* coordinatorRunGate of each process
    editor,     \* the policy request between its reads and its transaction
    correction, \* the batch the correction started from, 0 when none runs
    up,         \* the server process runs
    crashes

tables == <<runs, batches, current, active>>
requests == <<editor, correction>>
vars == <<runs, batches, current, active, wf, gate, editor, correction, up,
          crashes>>

Idle == [pc |-> "idle", kind |-> None, run |-> 0, policy |-> None,
         sec |-> 0, mkt |-> 0, base |-> 0]
NoEdit == [version |-> 0, base |-> 0, content |-> None]

Ids == 0 .. MaxBatches
Row == [kind : Kind, status : {"running", "published", "failed", "skipped"},
        policy : Policy, sec : Ids, mkt : Ids, stale : BOOLEAN]
Batch == [kind : {"security", "prescreen", "correction"}, policy : Policy,
          base : Ids, fresh : BOOLEAN]

\* A database without batches, or one where earlier workflows published both.
Init ==
    /\ runs = <<>>
    /\ \E p \in Policy :
        /\ active = [version |-> 1, content |-> p]
        /\ \/ /\ ~ Established
              /\ batches = <<>> /\ current = [security |-> 0, prescreen |-> 0]
           \/ /\ Established
              /\ batches = <<
                    [kind |-> "security", policy |-> p, base |-> 0,
                     fresh |-> FALSE],
                    [kind |-> "prescreen", policy |-> p, base |-> 1,
                     fresh |-> FALSE]>>
              /\ current = [security |-> 1, prescreen |-> 2]
    /\ wf = [w \in Workflow |-> Idle]
    /\ gate = [p \in Process |-> None]
    /\ editor = NoEdit
    /\ correction = 0
    /\ up = TRUE
    /\ crashes = 0

----------------------------------------------------------------------------
(* The lease                                                               *)

Live(w) == wf[w].pc \notin {"idle", "bound"}
Running == {r \in DOMAIN runs : runs[r].status = "running"}

\* startDiscoverySyncRun reads the active policy before its transaction.
Bind(w, kind) ==
    /\ wf[w].pc = "idle"
    /\ Home(w) = Server => up
    /\ wf' = [wf EXCEPT ![w] = [Idle EXCEPT !.pc = "bound", !.kind = kind,
                                            !.policy = active.content]]
    /\ UNCHANGED <<tables, gate, requests, up, crashes>>

\* Slips: the heartbeat is not compared; the expiry is forgotten.
Expired_Fresh(row) == row.status = "running"
Expired_Never(row) == FALSE

\* updated_at is older than the timeout and the grace period.
Expired(row) == row.status = "running" /\ row.stale

AfterExpiry ==
    [r \in DOMAIN runs |->
        IF Expired(runs[r]) THEN [runs[r] EXCEPT !.status = "failed"]
                            ELSE runs[r]]

LeaseFree == \A r \in DOMAIN runs : AfterExpiry[r].status # "running"

\* One transaction: expired rows are closed and the new row inserted, which
\* the unique index on running rows refuses while another one runs.
Insert(w) ==
    /\ wf[w].pc = "bound"
    /\ LeaseFree
    /\ Len(runs) < MaxRuns
    /\ runs' = Append(AfterExpiry,
                      [kind |-> wf[w].kind, status |-> "running",
                       policy |-> wf[w].policy, sec |-> 0, mkt |-> 0,
                       stale |-> FALSE])
    /\ wf' = [wf EXCEPT ![w].pc = "started", ![w].run = Len(runs) + 1]
    /\ UNCHANGED <<batches, current, active, gate, requests, up, crashes>>

\* The insertion is refused by the index (TaskAlreadyRunning), or the
\* transaction fails for another reason and nothing is written either.
InsertRefused(w) ==
    /\ wf[w].pc = "bound"
    /\ wf' = [wf EXCEPT ![w] = Idle]
    /\ UNCHANGED <<tables, gate, requests, up, crashes>>

\* The heartbeat stops with its owner; the row is stale after the grace period.
Age(r) ==
    /\ r \in Running
    /\ ~ runs[r].stale
    /\ \A w \in Workflow : ~ (Live(w) /\ wf[w].run = r)
    /\ runs' = [runs EXCEPT ![r].stale = TRUE]
    /\ UNCHANGED <<batches, current, active, wf, gate, requests, up, crashes>>

----------------------------------------------------------------------------
(* Publication                                                             *)

\* One transaction: the batch is published and the pointer of its kind moved.
Publish(pointer, batch) ==
    /\ Len(batches) < MaxBatches
    /\ batches' = Append(batches, batch)
    /\ current' = [current EXCEPT ![pointer] = Len(batches) + 1]

NewBatch(kind, policy, base) ==
    [kind |-> kind, policy |-> policy, base |-> base, fresh |-> TRUE]

\* createDraft found a published batch of the same content: nothing is written.
Same(kind, policy, base) ==
    {b \in DOMAIN batches : batches[b] = NewBatch(kind, policy, base)}

----------------------------------------------------------------------------
(* A workflow                                                              *)

\* A slip: neither the run nor its batches are compared with the policy.
Resumed_AnyPolicy(w) ==
    LET failed == {r \in 1 .. wf[w].run - 1 :
                      runs[r].kind = "full" /\ runs[r].status = "failed"}
        newest == {r \in failed : \A s \in failed : s <= r}
        today == {r \in newest : runs[r].sec # 0 /\ batches[runs[r].sec].fresh}
    IN  {[sec |-> runs[r].sec, mkt |-> runs[r].mkt] : r \in today}

\* What the newest failed full run under the same policy left: its security
\* batch, if it is of today, and its market batch, if that derives from it.
Resumed(w) ==
    LET p == wf[w].policy
        failed == {r \in 1 .. wf[w].run - 1 :
                      /\ runs[r].kind = "full" /\ runs[r].status = "failed"
                      /\ runs[r].policy = p}
        newest == {r \in failed : \A s \in failed : s <= r}
        today == {r \in newest : /\ runs[r].sec # 0
                                 /\ batches[runs[r].sec].fresh
                                 /\ batches[runs[r].sec].policy = p}
        fits(r) == /\ runs[r].mkt # 0
                   /\ batches[runs[r].mkt].base = runs[r].sec
                   /\ batches[runs[r].mkt].policy = p
    IN  {[sec |-> runs[r].sec, mkt |-> IF fits(r) THEN runs[r].mkt ELSE 0] :
            r \in today}

StartFull(w) ==
    /\ wf[w].pc = "started" /\ wf[w].kind = "full"
    /\ \/ Resumed(w) = {} /\ wf' = [wf EXCEPT ![w].pc = "security"]
       \/ \E done \in Resumed(w) :
             wf' = [wf EXCEPT ![w].pc = "security", ![w].sec = done.sec,
                              ![w].mkt = done.mkt]
    /\ UNCHANGED <<tables, gate, requests, up, crashes>>

StartPartial(w) ==
    /\ wf[w].pc = "started"
    /\ \/ wf[w].kind = "market" /\ wf' = [wf EXCEPT ![w].pc = "market"]
       \/ /\ wf[w].kind = "incremental" /\ current.security # 0
          /\ wf' = [wf EXCEPT ![w].pc = "listing"]
    /\ UNCHANGED <<tables, gate, requests, up, crashes>>

Free(w) == gate[Home(w)] = None

\* SyncSecurityUniverse holds the gate throughout; nothing it reads there may
\* change before it publishes, so one step stands for it.
SyncSecurity(w) ==
    /\ wf[w].pc = "security" /\ wf[w].sec = 0 /\ Free(w)
    /\ \/ /\ Publish("security", NewBatch("security", wf[w].policy, 0))
          /\ wf' = [wf EXCEPT ![w].sec = Len(batches) + 1]
       \/ /\ \E b \in Same("security", wf[w].policy, 0) :
                wf' = [wf EXCEPT ![w].sec = b]
          /\ UNCHANGED <<batches, current>>
    /\ UNCHANGED <<runs, active, gate, requests, up, crashes>>

\* SyncIncrementalListings reads the pointer again inside the gate and uses
\* the policy active at that time, not the one of the run's row.
SyncListings(w) ==
    /\ wf[w].pc = "listing" /\ Free(w)
    /\ \/ /\ Publish("security", NewBatch("security", active.content, 0))
          /\ wf' = [wf EXCEPT ![w].pc = "security", ![w].sec = Len(batches) + 1]
       \/ /\ wf' = [wf EXCEPT ![w].pc = "security",
                              ![w].sec = current.security]
          /\ UNCHANGED <<batches, current>>
    /\ UNCHANGED <<runs, active, gate, requests, up, crashes>>

\* updateDiscoverySyncRun writes by id, whatever the row's status, and its
\* error is ignored.
RecordSecurity(w) ==
    /\ wf[w].pc = "security" /\ wf[w].sec # 0
    /\ \/ runs' = [runs EXCEPT ![wf[w].run].sec = wf[w].sec]
       \/ UNCHANGED runs
    /\ wf' = [wf EXCEPT ![w].pc = "market"]
    /\ UNCHANGED <<batches, current, active, gate, requests, up, crashes>>

\* SyncMarketPrices enters the gate and reads the security pointer.
EnterMarket(w) ==
    /\ wf[w].pc = "market" /\ wf[w].mkt = 0 /\ Free(w)
    /\ current.security # 0
    /\ gate' = [gate EXCEPT ![Home(w)] = w]
    /\ wf' = [wf EXCEPT ![w].pc = "pricing", ![w].base = current.security]
    /\ UNCHANGED <<tables, requests, up, crashes>>

SyncMarket(w) ==
    /\ wf[w].pc = "pricing"
    /\ \/ /\ Publish("prescreen",
                     NewBatch("prescreen", wf[w].policy, wf[w].base))
          /\ wf' = [wf EXCEPT ![w].pc = "market", ![w].base = 0,
                              ![w].mkt = Len(batches) + 1]
       \/ /\ \E b \in Same("prescreen", wf[w].policy, wf[w].base) :
                wf' = [wf EXCEPT ![w].pc = "market", ![w].base = 0,
                                 ![w].mkt = b]
          /\ UNCHANGED <<batches, current>>
    /\ gate' = [gate EXCEPT ![Home(w)] = None]
    /\ UNCHANGED <<runs, active, requests, up, crashes>>

\* The batch ids a workflow passes along with its status or phase.
WithBatches(w, row, mkt) ==
    [row EXCEPT
        !.sec = IF wf[w].kind = "full" /\ wf[w].sec # 0 THEN wf[w].sec ELSE @,
        !.mkt = IF mkt # 0 THEN mkt ELSE @]

RecordMarket(w) ==
    /\ wf[w].pc = "market" /\ wf[w].mkt # 0
    /\ \/ runs' = [runs EXCEPT ![wf[w].run] = WithBatches(w, @, wf[w].mkt)]
       \/ UNCHANGED runs
    /\ wf' = [wf EXCEPT ![w].pc = "summary"]
    /\ UNCHANGED <<batches, current, active, gate, requests, up, crashes>>

\* finishDiscoverySyncRun writes by id too, and its error is ignored: the row
\* then stays "running" without an owner.  A run that fails before the market
\* phase is over names no market batch.
Close(w, status) ==
    /\ LET mkt == IF wf[w].pc = "summary" THEN wf[w].mkt ELSE 0
       IN  \/ runs' = [runs EXCEPT ![wf[w].run] =
                          [WithBatches(w, @, mkt) EXCEPT !.status = status]]
           \/ UNCHANGED runs
    /\ wf' = [wf EXCEPT ![w] = Idle]

Finish(w) ==
    /\ wf[w].pc = "summary"
    /\ Close(w, "published")
    /\ UNCHANGED <<batches, current, active, gate, requests, up, crashes>>

\* An incremental run before the first full one ends without an error.
NeedsBootstrap(w) ==
    /\ wf[w].pc = "started" /\ wf[w].kind = "incremental"
    /\ current.security = 0
    /\ Close(w, "skipped")
    /\ UNCHANGED <<batches, current, active, gate, requests, up, crashes>>

\* A published or resumed security batch is recorded before anything fails.
MayFail(w) == Live(w) /\ ~ (wf[w].pc = "security" /\ wf[w].sec # 0)

\* A slip: the gate is not left when a phase fails.
Fail_KeepsGate(w) ==
    /\ MayFail(w)
    /\ Close(w, "failed")
    /\ UNCHANGED <<batches, current, active, gate, requests, up, crashes>>

\* Any phase may fail, and nothing after it runs.
Fail(w) ==
    /\ MayFail(w)
    /\ Close(w, "failed")
    /\ gate' = [p \in Process |-> IF gate[p] = w THEN None ELSE gate[p]]
    /\ UNCHANGED <<batches, current, active, requests, up, crashes>>

----------------------------------------------------------------------------
(* The policy editor                                                       *)

\* ApplySmallCapPolicy, RollbackSmallCapPolicyWithRescore and, when the content
\* is the active one, RescoreActiveSmallCapPolicy: what is read beforehand.
EditRead(content) ==
    /\ up /\ editor = NoEdit
    /\ active.version < MaxVersions
    /\ content = active.content => current.prescreen # 0
    /\ editor' = [version |-> active.version, base |-> current.prescreen,
                  content |-> content]
    /\ UNCHANGED <<tables, wf, gate, correction, up, crashes>>

\* Slips: running workflows are not looked at; the pointer is not compared.
Conflict_NoRunning ==
    \/ active.version # editor.version
    \/ editor.base # 0 /\ current.prescreen # editor.base
Conflict_NoPointer == Running # {} \/ active.version # editor.version

Conflict ==
    \/ Running # {}
    \/ active.version # editor.version
    \/ editor.base # 0 /\ current.prescreen # editor.base

\* One transaction: the new version and, when there was a batch, its rescored
\* copy under the current pointer.
EditCommit ==
    /\ editor # NoEdit
    /\ ~ Conflict
    /\ active' = IF editor.content = active.content THEN active
                 ELSE [version |-> active.version + 1,
                       content |-> editor.content]
    /\ \/ editor.base = 0 /\ UNCHANGED <<batches, current>>
       \/ /\ editor.base # 0
          /\ Publish("prescreen", [batches[editor.base] EXCEPT
                                      !.kind = "correction",
                                      !.policy = editor.content])
    /\ editor' = NoEdit
    /\ UNCHANGED <<runs, wf, gate, correction, up, crashes>>

EditRefused ==
    /\ editor # NoEdit
    /\ Conflict
    /\ editor' = NoEdit
    /\ UNCHANGED <<tables, wf, gate, correction, up, crashes>>

----------------------------------------------------------------------------
(* The correction of one candidate: it takes the gate but no lease         *)

CorrectBegin ==
    /\ up /\ Corrections /\ correction = 0
    /\ gate[Server] = None
    /\ current.prescreen # 0
    /\ gate' = [gate EXCEPT ![Server] = Corrector]
    /\ correction' = current.prescreen
    /\ UNCHANGED <<tables, wf, editor, up, crashes>>

\* The corrected batch keeps the policy and the security batch of its base.
Correct ==
    /\ correction # 0
    /\ \/ Publish("prescreen", [batches[correction] EXCEPT !.kind = "correction"])
       \/ UNCHANGED <<batches, current>>
    /\ gate' = [gate EXCEPT ![Server] = None]
    /\ correction' = 0
    /\ UNCHANGED <<runs, active, wf, editor, up, crashes>>

----------------------------------------------------------------------------
(* The environment                                                         *)

NextDay ==
    /\ \E b \in DOMAIN batches : batches[b].fresh
    /\ batches' = [b \in DOMAIN batches |-> [batches[b] EXCEPT !.fresh = FALSE]]
    /\ UNCHANGED <<runs, current, active, wf, gate, requests, up, crashes>>

Crash(p) ==
    /\ crashes < MaxCrashes
    /\ IF p = Server THEN up ELSE wf[p].pc # "idle"
    /\ crashes' = crashes + 1
    /\ wf' = [w \in Workflow |-> IF Home(w) = p THEN Idle ELSE wf[w]]
    /\ gate' = [gate EXCEPT ![p] = None]
    /\ up' = (up /\ p # Server)
    /\ editor' = IF p = Server THEN NoEdit ELSE editor
    /\ correction' = IF p = Server THEN 0 ELSE correction
    /\ UNCHANGED tables

\* RecoverOrphanedRunsAtStartup closes every running row, whoever owns it.
Boot ==
    /\ ~ up
    /\ up' = TRUE
    /\ runs' = [r \in DOMAIN runs |->
                   IF r \in Running THEN [runs[r] EXCEPT !.status = "failed"]
                                    ELSE runs[r]]
    /\ UNCHANGED <<batches, current, active, wf, gate, requests, crashes>>

----------------------------------------------------------------------------
Work(w) ==
    \/ Insert(w) \/ InsertRefused(w) \/ StartFull(w) \/ StartPartial(w)
    \/ SyncSecurity(w) \/ SyncListings(w) \/ RecordSecurity(w)
    \/ EnterMarket(w) \/ SyncMarket(w) \/ RecordMarket(w)
    \/ Finish(w) \/ NeedsBootstrap(w) \/ Fail(w)

Next ==
    \/ \E w \in Workflow : Work(w)
    \/ \E w \in Workflow, k \in Kind : Bind(w, k)
    \/ \E r \in 1 .. MaxRuns : Age(r)
    \/ \E c \in Policy : EditRead(c)
    \/ EditCommit \/ EditRefused
    \/ CorrectBegin \/ Correct
    \/ NextDay
    \/ \E p \in Crashable : Crash(p)
    \/ Boot

Spec == Init /\ [][Next]_vars

\* Phases are bounded by their contexts, the task schedule keeps starting runs
\* and not every transaction of theirs fails for reasons of its own, time
\* passes and the server is restarted.
Fairness ==
    /\ \A w \in Workflow : /\ WF_vars(Work(w)) /\ SF_vars(Insert(w))
                           /\ WF_vars(\E k \in Kind : Bind(w, k))
    /\ WF_vars(\E r \in 1 .. MaxRuns : Age(r))
    /\ WF_vars(Boot)
    /\ WF_vars(EditCommit \/ EditRefused) /\ WF_vars(Correct)

FairSpec == Spec /\ Fairness

----------------------------------------------------------------------------
(* Properties                                                              *)

\* Types, one row under the lease, pointers to batches of their kind, and a
\* gate that is held exactly by who is inside it.
TypeOK ==
    /\ runs \in Seq(Row) /\ Len(runs) <= MaxRuns
    /\ batches \in Seq(Batch) /\ Len(batches) <= MaxBatches
    /\ current.security # 0 => batches[current.security].kind = "security"
    /\ current.prescreen # 0 => batches[current.prescreen].kind # "security"
    /\ \A r, s \in Running : r = s
    /\ \A w \in Workflow :
        wf[w].pc = "pricing" <=> gate[Home(w)] = w
    /\ correction # 0 <=> gate[Server] = Corrector

\* "Keep the exclusion rule in SQLite ... so API, scheduler and CLI processes
\* cannot start overlapping runs": at most one workflow is past its insertion.
OneWorkflow == \A v, w \in Workflow : Live(v) /\ Live(w) => v = w

\* A published run is of one policy, the one its row was started with: the
\* batches it reports carry it, resumed ones and unchanged ones included.
FrozenPolicy ==
    \A r \in DOMAIN runs : runs[r].status = "published" =>
        /\ runs[r].mkt # 0 /\ batches[runs[r].mkt].policy = runs[r].policy
        /\ runs[r].kind = "full" =>
              batches[runs[r].sec].policy = runs[r].policy

\* Candidates never fall back: the current market batch is never replaced by
\* one derived from an older security batch, whoever publishes it.
PrescreenNeverRegresses ==
    [][current.prescreen # 0 =>
         batches'[current'.prescreen].base >= batches[current.prescreen].base]_vars

\* No policy version is activated under a workflow that is under way.
PolicyStableDuringRun ==
    [][active' # active => \A w \in Workflow : ~ Live(w)]_vars

\* A lease whose owner is gone is given back in the end, by the next start of
\* the server or by the next run once the heartbeat is old enough (for every
\* row but the last the bound allows).
Orphaned(r) ==
    /\ r \in Running
    /\ \A w \in Workflow : ~ (Live(w) /\ wf[w].run = r)
LeaseRecovered ==
    \A r \in 1 .. MaxRuns - 1 : Orphaned(r) ~> r \notin Running
============================================================================
