-------------------------- MODULE NotificationQueue --------------------------
(***************************************************************************)
(* The Telegram queue: first delivery, durable retries, dead letters.      *)
(*                                                                         *)
(* Go code: internal/service/notification_batch.go.  A producer's Deliver  *)
(* stores a batch of events, sends it and stores the result; the task      *)
(* notification_retry_sync recovers old dead letters and retries failed    *)
(* batches that are due under a lease; the operator requeues by HTTP.      *)
(* Statements and sends are separate steps and the process may die between *)
(* them.                                                                   *)
(*                                                                         *)
(* Abstractions.  next_retry_at is NULL, in the future or reached; a lease *)
(* is absent, live or expired; of a delivery error only "does it look      *)
(* transient" is kept, of updated_at only "a dead letter is a day old".    *)
(* The events of a batch share its fate but for their own suppression.  The *)
(* retry task's own call of Requeue is one step; an operator's is two.      *)
(*                                                                         *)
(* An operator named X_Slip is not part of the model: it is X as a         *)
(* plausible slip would leave it, to show that a property notices.         *)
(***************************************************************************)
EXTENDS Naturals, FiniteSets

CONSTANTS
    Event,       \* identities behind an event key
    Batch,       \* ids of notification_batches
    Producer,    \* calls of Deliver
    Worker,      \* runs of the retry task
    Operator,    \* HTTP requests that requeue a batch
    None,        \* no batch, no lease token
    Delays,      \* length of notificationRetryDelays
    MaxRequeues, \* bound: requeues by operators
    MaxCleanups, \* bound: batches removed by operation_history_cleanup
    MaxCrashes,  \* bound: how often the process dies
    Faults,      \* may statements fail, and replies of Telegram get lost?
    LeaseExpiry  \* may a lease run out while its owner still sends?

VARIABLES
    (* tables *)
    batch,     \* notification_batches
    item,      \* notification_batch_items, by event key
    (* goroutines *)
    producer,  \* calls of Deliver
    worker,    \* runs of the retry task
    operator,  \* per requeue request, the batch it has read
    (* outside and history *)
    accepted,  \* per event, how often Telegram took a message with it
    requeues,  \* by operators
    cleanups, crashes

tables == <<batch, item>>
counters == <<requeues, cleanups, crashes>>
vars == <<tables, producer, worker, operator, accepted, counters>>

-----------------------------------------------------------------------------
(* State                                                                   *)

BatchStatus == {"free", "pending", "suppressed", "failed", "sent", "dead_letter",
                "deleted"}

\* lease is the state of retry_lease_until, token the claim that wrote it.
BatchRow == [status : BatchStatus, retries : 0..Delays + 1,
             next : {"none", "waiting", "due"},
             lease : {"none", "live", "expired"}, token : Worker \cup {None},
             transient : BOOLEAN, aged : BOOLEAN]

NoBatch == [status |-> "free", retries |-> 0, next |-> "none", lease |-> "none",
            token |-> None, transient |-> FALSE, aged |-> FALSE]

ItemStatus == {"none", "pending", "suppressed", "failed", "sent"}

NoItem == [batch |-> None, status |-> "none"]

ProducerPC == {"idle", "created", "counted", "sending", "accepted", "refused"}
WorkerPC == {"idle", "recovering", "loading", "retrying", "sending",
             "accepted", "refused"}

Resting == [pc |-> "idle", batch |-> None, queue |-> {}]

TypeOK ==
    /\ batch \in [Batch -> BatchRow]
    /\ item \in [Event -> [batch : Batch \cup {None}, status : ItemStatus]]
    /\ producer \in [Producer -> [pc : ProducerPC, batch : Batch \cup {None}]]
    /\ worker \in [Worker -> [pc : WorkerPC, batch : Batch \cup {None},
                              queue : SUBSET Batch]]
    /\ operator \in [Operator -> Batch \cup {None}]
    /\ accepted \in [Event -> 0..2]
    /\ requeues \in 0..MaxRequeues
    /\ cleanups \in 0..MaxCleanups
    /\ crashes \in 0..MaxCrashes

Init ==
    /\ batch = [b \in Batch |-> NoBatch]
    /\ item = [e \in Event |-> NoItem]
    /\ producer = [p \in Producer |-> [pc |-> "idle", batch |-> None]]
    /\ worker = [w \in Worker |-> Resting]
    /\ operator = [o \in Operator |-> None]
    /\ accepted = [e \in Event |-> 0]
    /\ requeues = 0
    /\ cleanups = 0
    /\ crashes = 0

ItemsOf(b, status) == {e \in Event : item[e].batch = b /\ item[e].status = status}

\* Slip: the status predicate of the items' UPDATE is forgotten.
SetItems_All(b, from, to) ==
    item' = [e \in Event |-> IF item[e].batch = b
                             THEN [item[e] EXCEPT !.status = to] ELSE item[e]]

SetItems(b, from, to) ==
    item' = [e \in Event |-> IF e \in ItemsOf(b, from)
                             THEN [item[e] EXCEPT !.status = to] ELSE item[e]]

\* What a message of the batch reports: its events, but for the suppressed ones.
Payload(b) == {e \in Event : item[e].batch = b /\ item[e].status # "suppressed"}

\* Telegram takes the message; the count saturates at two.
Take(events) ==
    accepted' = [e \in Event |-> IF e \in events /\ accepted[e] < 2
                                 THEN accepted[e] + 1 ELSE accepted[e]]

-----------------------------------------------------------------------------
(* First delivery: Deliver                                                 *)

\* One transaction: the batch and the items whose event key is new.  When
\* every event was queued before, the batch is deleted again: no step.
Create(p, b, events, eligible) ==
    LET new == {e \in events : item[e] = NoItem} IN
    /\ producer[p].pc = "idle"
    /\ batch[b].status = "free"
    /\ new # {}
    /\ batch' = [batch EXCEPT ![b].status = "pending"]
    /\ item' = [e \in Event |->
                  IF e \in new
                  THEN [batch |-> b,
                        status |-> IF e \in eligible THEN "pending" ELSE "suppressed"]
                  ELSE item[e]]
    /\ producer' = [producer EXCEPT ![p] = [pc |-> "created", batch |-> b]]
    /\ UNCHANGED <<worker, operator, accepted, counters>>

Leave(p) == producer' = [producer EXCEPT ![p] = [pc |-> "idle", batch |-> None]]

\* Counts and text; a batch with nothing to send ends here.
StoreCounts(p) ==
    LET b == producer[p].batch IN
    /\ producer[p].pc = "created"
    /\ IF ItemsOf(b, "pending") = {}
       THEN /\ batch' = [batch EXCEPT ![b].status = "suppressed"]
            /\ Leave(p)
       ELSE /\ producer' = [producer EXCEPT ![p].pc = "counted"]
            /\ UNCHANGED batch
    /\ UNCHANGED <<item, worker, operator, accepted, counters>>

\* The event's channel, or Telegram, is switched off: finishSuppressed.
Suppress(p) ==
    LET b == producer[p].batch IN
    /\ producer[p].pc = "counted"
    /\ batch' = [batch EXCEPT ![b].status = "suppressed"]
    /\ SetItems(b, "pending", "suppressed")
    /\ Leave(p)
    /\ UNCHANGED <<worker, operator, accepted, counters>>

BeginSend(p) ==
    /\ producer[p].pc = "counted"
    /\ producer' = [producer EXCEPT ![p].pc = "sending"]
    /\ UNCHANGED <<tables, worker, operator, accepted, counters>>

\* sendWithRetry: taken and confirmed; or refused, or taken and the reply lost.
Send(p) ==
    /\ producer[p].pc = "sending"
    /\ \/ /\ Take(Payload(producer[p].batch))
          /\ producer' = [producer EXCEPT ![p].pc = "accepted"]
       \/ /\ \/ UNCHANGED accepted
             \/ Faults /\ Take(Payload(producer[p].batch))
          /\ producer' = [producer EXCEPT ![p].pc = "refused"]
    /\ UNCHANGED <<tables, worker, operator, counters>>

\* updateBatchResult.
StoreSent(p) ==
    LET b == producer[p].batch IN
    /\ producer[p].pc = "accepted"
    /\ batch' = [batch EXCEPT ![b].status = "sent"]
    /\ SetItems(b, "pending", "sent")
    /\ Leave(p)
    /\ UNCHANGED <<worker, operator, accepted, counters>>

\* Slip: the items keep their status.
StoreFailed_KeepsItems(p, transient) ==
    LET b == producer[p].batch IN
    /\ producer[p].pc = "refused"
    /\ batch' = [batch EXCEPT ![b].status = "failed", ![b].retries = 1,
                              ![b].next = "waiting", ![b].transient = transient]
    /\ Leave(p)
    /\ UNCHANGED <<item, worker, operator, accepted, counters>>

StoreFailed(p, transient) ==
    LET b == producer[p].batch IN
    /\ producer[p].pc = "refused"
    /\ batch' = [batch EXCEPT ![b].status = "failed", ![b].retries = 1,
                              ![b].next = "waiting", ![b].transient = transient]
    /\ SetItems(b, "pending", "failed")
    /\ Leave(p)
    /\ UNCHANGED <<worker, operator, accepted, counters>>

\* A failing statement or configuration read: Deliver returns the error.
DeliverFails(p) ==
    /\ Faults
    /\ producer[p].pc # "idle"
    /\ Leave(p)
    /\ UNCHANGED <<tables, worker, operator, accepted, counters>>

-----------------------------------------------------------------------------
(* Requeueing                                                              *)

\* Slips: a batch that was sent, or that is being retried, is requeued.
Requeueable_AnyStatus(b) == batch[b].lease # "live"
Requeueable_AnyLease(b) == batch[b].status \in {"failed", "dead_letter"}

Requeueable(b) ==
    /\ batch[b].status \in {"failed", "dead_letter"}
    /\ batch[b].lease # "live"

\* Slip: the retry count goes on from where it was.
Requeued_KeepsCount(r) == [r EXCEPT !.status = "failed", !.next = "due",
                                    !.lease = "none", !.token = None,
                                    !.transient = FALSE, !.aged = FALSE]

\* A new cycle: the retry count starts over and the batch is due at once.
Requeued(r) == [r EXCEPT !.status = "failed", !.retries = 0, !.next = "due",
                         !.lease = "none", !.token = None, !.transient = FALSE,
                         !.aged = FALSE]

\* Requeue reads the row and answers at once if it may not be requeued ...
RequeueRead(o, b) ==
    /\ operator[o] = None
    /\ requeues < MaxRequeues
    /\ Requeueable(b)
    /\ requeues' = requeues + 1
    /\ operator' = [operator EXCEPT ![o] = b]
    /\ UNCHANGED <<tables, producer, worker, accepted, cleanups, crashes>>

\* ... and writes it in a second statement that repeats the predicate.
RequeueWrite(o) ==
    /\ operator[o] # None
    /\ Requeueable(operator[o])
    /\ batch' = [batch EXCEPT ![operator[o]] = Requeued(@)]
    /\ operator' = [operator EXCEPT ![o] = None]
    /\ UNCHANGED <<item, producer, worker, accepted, requeues, cleanups, crashes>>

RequeueRefused(o) ==
    /\ operator[o] # None
    /\ ~Requeueable(operator[o]) \/ Faults
    /\ operator' = [operator EXCEPT ![o] = None]
    /\ UNCHANGED <<tables, producer, worker, accepted, counters>>

-----------------------------------------------------------------------------
(* The retry task                                                          *)

\* RecoverTransientDeadLetters loads the old dead letters ...
RecoverBegin(w) ==
    /\ worker[w].pc = "idle"
    /\ worker' = [worker EXCEPT ![w] =
          [Resting EXCEPT !.pc = "recovering",
                          !.queue = {b \in Batch : batch[b].status = "dead_letter"
                                                   /\ batch[b].aged
                                                   /\ batch[b].transient}]]
    /\ UNCHANGED <<tables, producer, operator, accepted, counters>>

\* ... and requeues them one by one; a refused one ends the task.
Recover(w, b) ==
    /\ worker[w].pc = "recovering" /\ b \in worker[w].queue
    /\ IF Requeueable(b)
       THEN /\ batch' = [batch EXCEPT ![b] = Requeued(@)]
            /\ worker' = [worker EXCEPT ![w].queue = @ \ {b}]
       ELSE /\ worker' = [worker EXCEPT ![w] = Resting]
            /\ UNCHANGED batch
    /\ UNCHANGED <<item, producer, operator, accepted, requeues, cleanups, crashes>>

\* Slips: the lease is not looked at; an expired lease counts as taken.
Due_NoLease(b) == batch[b].status = "failed" /\ batch[b].next = "due"
Due_NoExpiry(b) == Due_NoLease(b) /\ batch[b].lease = "none"

Due(b) ==
    /\ batch[b].status = "failed"
    /\ batch[b].next = "due"
    /\ batch[b].lease # "live"

\* RetryDue loads the ids of the due batches.
RetryBegin(w) ==
    /\ worker[w].pc = "recovering" /\ worker[w].queue = {}
    /\ worker' = [worker EXCEPT ![w].pc = "retrying",
                                ![w].queue = {b \in Batch : Due(b)}]
    /\ UNCHANGED <<tables, producer, operator, accepted, counters>>

\* claimDueBatch: a conditional update with a fresh token; a batch without
\* failed items is an error that ends the pass.
Claim(w, b) ==
    /\ worker[w].pc = "retrying" /\ b \in worker[w].queue
    /\ Due(b)
    /\ batch' = [batch EXCEPT ![b].lease = "live", ![b].token = w]
    /\ worker' = [worker EXCEPT ![w] =
          IF ItemsOf(b, "failed") = {} THEN Resting
          ELSE [pc |-> "sending", batch |-> b, queue |-> worker[w].queue \ {b}]]
    /\ UNCHANGED <<item, producer, operator, accepted, counters>>

\* Somebody else has it, or it is no longer due: the next one.
ClaimMissed(w, b) ==
    /\ worker[w].pc = "retrying" /\ b \in worker[w].queue
    /\ ~Due(b)
    /\ worker' = [worker EXCEPT ![w].queue = @ \ {b}]
    /\ UNCHANGED <<tables, producer, operator, accepted, counters>>

RetrySend(w) ==
    LET b == worker[w].batch IN
    /\ worker[w].pc = "sending"
    /\ \/ /\ Take(Payload(b))
          /\ worker' = [worker EXCEPT ![w].pc = "accepted"]
       \/ /\ UNCHANGED accepted \/ (Faults /\ Take(Payload(b)))
          /\ worker' = [worker EXCEPT ![w].pc = "refused"]
    /\ UNCHANGED <<tables, producer, operator, counters>>

\* Slip: the result is stored by id alone.
Owns_ById(w) == TRUE

\* finishClaimedRetry's predicate: the claim is still ours.
Owns(w) ==
    LET b == worker[w].batch IN batch[b].status = "failed" /\ batch[b].token = w

Continue(w) == worker' = [worker EXCEPT ![w].pc = "retrying", ![w].batch = None]

RetrySent(w) ==
    LET b == worker[w].batch IN
    /\ worker[w].pc = "accepted" /\ Owns(w)
    /\ batch' = [batch EXCEPT ![b] = [NoBatch EXCEPT !.status = "sent",
                                                     !.retries = batch[b].retries + 1]]
    /\ SetItems(b, "failed", "sent")
    /\ Continue(w)
    /\ UNCHANGED <<producer, operator, accepted, counters>>

Exhausted(n) == n > Delays

\* nextNotificationRetryAt
NextRetry(n) == IF n > Delays THEN "none" ELSE "waiting"

RetryFailed(w, transient) ==
    LET b == worker[w].batch
        n == batch[b].retries + 1 IN
    /\ worker[w].pc = "refused" /\ Owns(w)
    /\ batch' = [batch EXCEPT ![b] =
          [NoBatch EXCEPT !.status = IF Exhausted(n) THEN "dead_letter" ELSE "failed",
                          !.retries = n,
                          !.next = NextRetry(n),
                          !.transient = transient]]
    /\ Continue(w)
    /\ UNCHANGED <<item, producer, operator, accepted, counters>>

\* "retry lease was lost", or a failing statement: the whole pass ends.
RetryAborts(w) ==
    /\ \/ worker[w].pc \in {"accepted", "refused"} /\ ~Owns(w)
       \/ Faults /\ worker[w].pc # "idle"
    /\ worker' = [worker EXCEPT ![w] = Resting]
    /\ UNCHANGED <<tables, producer, operator, accepted, counters>>

RetryEnd(w) ==
    /\ worker[w].pc = "retrying" /\ worker[w].queue = {}
    /\ worker' = [worker EXCEPT ![w] = Resting]
    /\ UNCHANGED <<tables, producer, operator, accepted, counters>>

-----------------------------------------------------------------------------
(* Time and crashes                                                        *)

Elapse(b) ==
    /\ batch[b].next = "waiting"
    /\ batch' = [batch EXCEPT ![b].next = "due"]
    /\ UNCHANGED <<item, producer, worker, operator, accepted, counters>>

\* A day passes over a dead letter.
Age(b) ==
    /\ batch[b].status = "dead_letter" /\ ~batch[b].aged
    /\ batch' = [batch EXCEPT ![b].aged = TRUE]
    /\ UNCHANGED <<item, producer, worker, operator, accepted, counters>>

\* Thirty minutes after the start of the pass that claimed it: long passes
\* outlive their leases.
Expire(b) ==
    /\ batch[b].lease = "live"
    /\ LeaseExpiry \/ \A w \in Worker : worker[w].batch # b
    /\ batch' = [batch EXCEPT ![b].lease = "expired"]
    /\ UNCHANGED <<item, producer, worker, operator, accepted, counters>>

\* operation_history_cleanup deletes batches untouched for the retention time,
\* whatever their status, and with their items the event keys.
Cleanup(b) ==
    /\ cleanups < MaxCleanups
    /\ batch[b].status \notin {"free", "deleted"}
    /\ batch[b].next # "waiting" /\ batch[b].lease # "live"
    /\ \A p \in Producer : producer[p].batch # b
    /\ \A w \in Worker : worker[w].batch # b
    /\ cleanups' = cleanups + 1
    /\ batch' = [batch EXCEPT ![b] = [NoBatch EXCEPT !.status = "deleted"]]
    /\ item' = [e \in Event |-> IF item[e].batch = b THEN NoItem ELSE item[e]]
    /\ UNCHANGED <<producer, worker, operator, accepted, requeues, crashes>>

Crash ==
    /\ crashes < MaxCrashes
    /\ crashes' = crashes + 1
    /\ producer' = [p \in Producer |-> [pc |-> "idle", batch |-> None]]
    /\ worker' = [w \in Worker |-> Resting]
    /\ operator' = [o \in Operator |-> None]
    /\ UNCHANGED <<tables, accepted, requeues, cleanups>>

-----------------------------------------------------------------------------

DeliverStep(p) ==
    \/ StoreCounts(p)
    \/ Suppress(p)
    \/ BeginSend(p)
    \/ Send(p)
    \/ StoreSent(p)
    \/ \E transient \in BOOLEAN : StoreFailed(p, transient)
    \/ DeliverFails(p)

RequeueStep(o) == RequeueWrite(o) \/ RequeueRefused(o)

WorkerStep(w) ==
    \/ RecoverBegin(w)
    \/ \E b \in Batch : Recover(w, b) \/ Claim(w, b) \/ ClaimMissed(w, b)
    \/ RetryBegin(w)
    \/ RetrySend(w)
    \/ RetrySent(w)
    \/ \E transient \in BOOLEAN : RetryFailed(w, transient)
    \/ RetryAborts(w)
    \/ RetryEnd(w)

Next ==
    \/ \E p \in Producer :
          \/ \E b \in Batch, events, eligible \in SUBSET Event :
                eligible \subseteq events /\ Create(p, b, events, eligible)
          \/ DeliverStep(p)
    \/ \E o \in Operator : RequeueStep(o) \/ \E b \in Batch : RequeueRead(o, b)
    \/ \E w \in Worker : WorkerStep(w)
    \/ \E b \in Batch : Elapse(b) \/ Age(b) \/ Expire(b) \/ Cleanup(b)
    \/ Crash

Spec == Init /\ [][Next]_vars

\* The task runs again and again, its goroutine and a producer's keep running,
\* time passes; whether Telegram takes a message is left open.
Fairness ==
    /\ \A p \in Producer : WF_vars(DeliverStep(p))
    /\ \A w \in Worker : WF_vars(WorkerStep(w))
    /\ \A b \in Batch : WF_vars(Elapse(b)) /\ WF_vars(Expire(b))

FairSpec == Spec /\ Fairness

-----------------------------------------------------------------------------
(* Properties                                                              *)

\* While leases outlive their owners and the process lives, no event reaches
\* Telegram twice: two first deliveries, two retry passes and a requeue never
\* send the same batch, or the same event, at the same time or again.
NoDuplicateSend == crashes = 0 => \A e \in Event : accepted[e] <= 1

\* A failed batch can be retried: it has a retry time, so that RetryDue sees
\* it, and an event to send again, so that claimDueBatch never meets "has no
\* failed items", which leaves the lease behind and ends the pass.  No failing
\* statement, lost lease or requeue strands one.
FailedIsRetryable ==
    \A b \in Batch :
        /\ batch[b].status = "failed" => batch[b].next # "none"
        /\ batch[b].status \in {"failed", "dead_letter"} => ItemsOf(b, "failed") # {}

\* An event is reported as sent only if Telegram took a message with it, also
\* when leases are lost and the process dies between send and store.
SentWasAccepted ==
    \A e \in Event : item[e].status = "sent" => accepted[e] > 0

\* The rows agree: an event sent is in a batch sent, one to be retried in a
\* batch that is failed or dead.
ItemsFollowBatch ==
    \A e \in Event : item[e].batch # None =>
        LET status == batch[item[e].batch].status IN
        /\ item[e].status = "sent" => status = "sent"
        /\ item[e].status = "failed" => status \in {"failed", "dead_letter"}
        /\ item[e].status = "pending" => status = "pending"

\* What was sent or withheld is settled: a stale requeue or a late retry never
\* brings it back; only the cleanup deletes it.
SettledStays ==
    [][\A b \in Batch : batch[b].status \in {"sent", "suppressed"}
                          => batch'[b].status \in {batch[b].status, "deleted"}]_vars

\* While one pass holds a batch under a live lease nobody else, and no operator,
\* counts or resets its retries: the ladder a sender works from is the stored one.
ClaimedCountsOnce ==
    [][\A b \in Batch : batch[b].lease = "live" /\ batch[b].retries # batch'[b].retries
          => \E w \in Worker : /\ worker[w].batch = b /\ batch[b].token = w
                              /\ worker'[w].batch # b]_vars

\* Every failed batch is sent or becomes a dead letter an operator sees, also
\* when the process died and left its lease behind.
FailedSettles ==
    \A b \in Batch : batch[b].status = "failed" ~>
        batch[b].status \in {"sent", "dead_letter", "deleted"}

=============================================================================
