--------------------------- MODULE HistoryCleanup ---------------------------
(***************************************************************************)
(* Retention of execution history (service/lifecycle.go) and of the full   *)
(* snapshots that old price repairs left behind                            *)
(* (discovery/market_repair_retention.go).  A cleanup works through the    *)
(* main database, the discovery database and the repair batches, each in   *)
(* a transaction of its own, and keeps a row about itself.  Runs go on and *)
(* finish, and batches are published, meanwhile.                           *)
(***************************************************************************)
EXTENDS Naturals, Sequences, FiniteSets

CONSTANTS
    MainRow, DiscoveryRow,   \* runs recorded in the two databases
    MaxBatches,              \* bound: prescreen batches
    MaxCleanups              \* bound: cleanup runs

VARIABLES
    age,       \* of each recorded run: "running", "recent", "old" or "deleted"
    batch,     \* published prescreen batches: repair, old, kept
    pointer,   \* the current batch (0: none)
    log,       \* lifecycle_cleanup_runs
    cleanup    \* the cleanup that holds the mutex
vars == <<age, batch, pointer, log, cleanup>>

Recorded == MainRow \cup DiscoveryRow
Idle == [pc |-> "idle"]

Init ==
    /\ age = [r \in Recorded |-> "running"]
    /\ batch = << >> /\ pointer = 0
    /\ log = << >>
    /\ cleanup = Idle

\* A run finishes; time passes; a market sync or a price repair publishes.
Finish(r) ==
    /\ age[r] = "running" /\ age' = [age EXCEPT ![r] = "recent"]
    /\ UNCHANGED <<batch, pointer, log, cleanup>>
Age ==
    /\ age' = [r \in Recorded |-> IF age[r] = "recent" THEN "old" ELSE age[r]]
    /\ batch' = [b \in DOMAIN batch |-> [batch[b] EXCEPT !.old = TRUE]]
    /\ UNCHANGED <<pointer, log, cleanup>>
Publish(repair) ==
    /\ Len(batch) < MaxBatches
    /\ batch' = Append(batch, [repair |-> repair, old |-> FALSE, kept |-> TRUE])
    /\ pointer' = Len(batch')
    /\ UNCHANGED <<age, log, cleanup>>

(***************************************************************************)
(* Cleanup                                                                 *)
(***************************************************************************)
Old(S) == {r \in S : age[r] = "old"}

\* Preview fixes the cutoff: "due" are the rows finished before it.
Start ==
    /\ cleanup = Idle /\ Len(log) < MaxCleanups
    /\ log' = Append(log, [status |-> "running", main |-> "pending", discovery |-> "pending"])
    /\ cleanup' = [pc |-> "main", due |-> Old(Recorded),
                   dueBatch |-> {b \in DOMAIN batch : batch[b].old}, ids |-> {}]
    /\ UNCHANGED <<age, batch, pointer>>

Finished(status, main, discovery) ==
    /\ log' = [log EXCEPT ![Len(log)] = [status |-> status, main |-> main, discovery |-> discovery]]
    /\ cleanup' = Idle
Delete(S) == age' = [r \in Recorded |-> IF r \in S THEN "deleted" ELSE age[r]]

\* One transaction for every table of the main database; then main_status.
CleanMain ==
    /\ cleanup.pc = "main"
    /\ \/ /\ Delete(cleanup.due \cap MainRow)
          /\ log' = [log EXCEPT ![Len(log)].main = "completed"]
          /\ cleanup' = [cleanup EXCEPT !.pc = "discovery"]
       \/ /\ Delete(cleanup.due \cap MainRow)
          /\ Finished("failed", "completed", "pending")
       \/ UNCHANGED age /\ Finished("failed", "failed", "pending")
    /\ UNCHANGED <<batch, pointer>>

CleanDiscovery_Ignored ==
    /\ cleanup.pc = "discovery"
    /\ \/ Delete(cleanup.due \cap DiscoveryRow)
       \/ UNCHANGED age
    /\ cleanup' = [cleanup EXCEPT !.pc = "select"]
    /\ UNCHANGED <<batch, pointer, log>>
CleanDiscovery ==
    /\ cleanup.pc = "discovery"
    /\ \/ /\ Delete(cleanup.due \cap DiscoveryRow)
          /\ cleanup' = [cleanup EXCEPT !.pc = "select"] /\ UNCHANGED log
       \/ UNCHANGED age /\ Finished("partial", "completed", "failed")
    /\ UNCHANGED <<batch, pointer>>

\* supersededMarketRepairBatchIDs, outside the transaction that deletes them.
\* Without a current batch nothing is known to be superseded.
Superseded_AnyOld ==
    {b \in cleanup.dueBatch : batch[b].kept /\ batch[b].repair}
Superseded ==
    IF pointer = 0 THEN {}
    ELSE {b \in cleanup.dueBatch : batch[b].kept /\ batch[b].repair /\ b # pointer}

SelectRepairs ==
    /\ cleanup.pc = "select"
    /\ \/ cleanup' = [cleanup EXCEPT !.pc = "repairs", !.ids = Superseded] /\ UNCHANGED log
       \/ Finished("partial", "completed", "failed")
    /\ UNCHANGED <<age, batch, pointer>>

DeleteRepairs ==
    /\ cleanup.pc = "repairs"
    /\ \/ /\ batch' = [b \in DOMAIN batch |->
                         IF b \in cleanup.ids THEN [batch[b] EXCEPT !.kept = FALSE] ELSE batch[b]]
          /\ Finished("completed", "completed", "completed")
       \/ UNCHANGED batch /\ Finished("partial", "completed", "failed")
    /\ UNCHANGED <<age, pointer>>

\* The process stops; nothing closes the row of the interrupted cleanup.
Crash ==
    /\ cleanup # Idle /\ cleanup' = Idle
    /\ UNCHANGED <<age, batch, pointer, log>>

Next ==
    \/ \E r \in Recorded : Finish(r)
    \/ Age
    \/ \E repair \in BOOLEAN : Publish(repair)
    \/ Start \/ CleanMain \/ CleanDiscovery \/ SelectRepairs \/ DeleteRepairs \/ Crash
Spec == Init /\ [][Next]_vars

TypeOK ==
    /\ \A r \in Recorded : age[r] \in {"running", "recent", "old", "deleted"}
    /\ pointer \in 0..Len(batch)
    /\ cleanup.pc \in {"idle", "main", "discovery", "select", "repairs"}
    /\ \A i \in DOMAIN log : log[i].status \in {"running", "completed", "partial", "failed"}

\* The view that is live keeps its batch, however old, whatever is published
\* between the selection of the batches and their deletion.
LiveViewKept == pointer # 0 => batch[pointer].kept

\* A cleanup that reports success left nothing that was due when it began,
\* and runs that finished meanwhile, or still go on, keep their history.
CleanupHonest ==
    [][ /\ (\E i \in DOMAIN log : log[i].status # "completed" /\ log'[i].status = "completed")
             => \A r \in cleanup.due : age'[r] = "deleted"
        /\ \A r \in Recorded : age[r] # "deleted" /\ age'[r] = "deleted"
             => age[r] = "old" /\ r \in cleanup.due ]_vars
=============================================================================
