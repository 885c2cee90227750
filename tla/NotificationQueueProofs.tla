----------------------- MODULE NotificationQueueProofs -----------------------
(***************************************************************************)
(* Theorems about NotificationQueue, for any number of events, batches,    *)
(* producers, retry passes and operators, any ladder of retries, and any   *)
(* number of requeues, cleanups and crashes.                               *)
(*                                                                         *)
(* The argument: a pending batch belongs to at most one call of Deliver,   *)
(* and a batch a pass holds was failed and never becomes pending again; so *)
(* the only events that turn "failed" are those of a first delivery, and   *)
(* what a holder's message took is still what it stores when the claim is  *)
(* its own.  Under live leases the claim stays its own, and an event taken *)
(* is on its way to be marked sent.                                        *)
(***************************************************************************)
EXTENDS NotificationQueue, TLAPS

\* The ladder has a rung (notificationRetryDelays has three).
Sensible ==
    /\ Delays \in Nat /\ Delays >= 1
    /\ MaxRequeues \in Nat /\ MaxCleanups \in Nat /\ MaxCrashes \in Nat
    /\ None \notin Batch /\ None \notin Worker

-----------------------------------------------------------------------------
(* The inductive invariant                                                 *)

\* A failed batch has a retry time and a rung left; what was not tried yet has
\* no lease.
Sound(r) ==
    /\ r.status = "failed" => r.next # "none" /\ r.retries <= Delays
    /\ r.status \in {"free", "pending"} => r.lease # "live"

RowsSound == \A b \in Batch : Sound(batch[b])

\* A failed or dead batch has an event to send.
FailedHasItems ==
    \A b \in Batch : batch[b].status \in {"failed", "dead_letter"}
        => \E e \in Event : item[e].batch = b /\ item[e].status = "failed"

Delivers(p) == producer[p].pc # "idle"

\* A call of Deliver has a pending batch to itself, from the counts on an event
\* of it to send, and after the send Telegram has them all.
ProducersSound ==
    /\ \A p \in Producer : Delivers(p)
          => producer[p].batch \in Batch /\ batch[producer[p].batch].status = "pending"
    /\ \A p, q \in Producer : p # q /\ Delivers(p) /\ Delivers(q)
          => producer[p].batch # producer[q].batch
    /\ \A p \in Producer : producer[p].pc \in {"counted", "sending", "accepted", "refused"}
          => \E e \in Event : item[e].batch = producer[p].batch /\ item[e].status = "pending"
    /\ \A p \in Producer, e \in Event :
          /\ producer[p].pc = "accepted"
          /\ item[e].batch = producer[p].batch /\ item[e].status = "pending"
          => accepted[e] > 0

Holds(w) == worker[w].pc \in {"sending", "accepted", "refused"}

\* A pass holds a batch past its first delivery, and after the send Telegram has
\* its failed events.
WorkersSound ==
    /\ \A w \in Worker : Holds(w)
          => worker[w].batch \in Batch /\ batch[worker[w].batch].status \notin {"free", "pending"}
    /\ \A w \in Worker, e \in Event :
          /\ worker[w].pc = "accepted"
          /\ item[e].batch = worker[w].batch /\ item[e].status = "failed"
          => accepted[e] > 0

Kept ==
    /\ RowsSound /\ FailedHasItems /\ ItemsFollowBatch /\ SentWasAccepted
    /\ ProducersSound /\ WorkersSound

Inv == TypeOK /\ Kept

-----------------------------------------------------------------------------
(* Rows                                                                    *)

LEMMA NoBatchRow ==
    ASSUME Sensible
    PROVE  NoBatch \in BatchRow /\ Sound(NoBatch)
BY DEF Sensible, NoBatch, BatchRow, BatchStatus, Sound

LEMMA StatusRow ==
    ASSUME Sensible, NEW r \in BatchRow, NEW s \in BatchStatus
    PROVE  LET n == [r EXCEPT !.status = s] IN
           /\ n \in BatchRow /\ n.status = s
           /\ Sound(r) /\ r.status \in {"free", "pending"} /\ s # "failed" => Sound(n)
<1> DEFINE n == [r EXCEPT !.status = s]
<1>1. n \in BatchRow /\ n.status = s /\ n.lease = r.lease BY DEF BatchRow
<1> HIDE DEF n
<1> QED BY <1>1 DEF Sound, n

LEMMA FailedRow ==
    ASSUME Sensible, NEW r \in BatchRow, NEW t \in BOOLEAN
    PROVE  LET n == [r EXCEPT !.status = "failed", !.retries = 1, !.next = "waiting",
                              !.transient = t] IN
           n \in BatchRow /\ n.status = "failed" /\ Sound(n)
<1> DEFINE n == [r EXCEPT !.status = "failed", !.retries = 1, !.next = "waiting",
                          !.transient = t]
<1>1. 1 \in 0..Delays + 1 /\ 1 <= Delays BY DEF Sensible
<1>2. n \in BatchRow /\ n.status = "failed" /\ n.retries = 1 /\ n.next = "waiting"
    BY <1>1 DEF BatchRow, BatchStatus
<1> HIDE DEF n
<1> QED BY <1>1, <1>2 DEF Sound, n

LEMMA RequeuedRow ==
    ASSUME Sensible, NEW r \in BatchRow
    PROVE  LET n == Requeued(r) IN
           n \in BatchRow /\ n.status = "failed" /\ Sound(n)
<1> DEFINE n == Requeued(r)
<1>1. 0 \in 0..Delays + 1 /\ 0 <= Delays BY DEF Sensible
<1>2. n \in BatchRow /\ n.status = "failed" /\ n.retries = 0 /\ n.next = "due"
    BY <1>1 DEF Requeued, BatchRow, BatchStatus
<1> HIDE DEF n
<1> QED BY <1>1, <1>2 DEF Sound, n

LEMMA ClaimedRow ==
    ASSUME Sensible, NEW r \in BatchRow, NEW w \in Worker, Sound(r), r.status = "failed"
    PROVE  LET n == [r EXCEPT !.lease = "live", !.token = w] IN
           /\ n \in BatchRow /\ n.status = "failed" /\ Sound(n)
           /\ n.lease = "live" /\ n.token = w /\ n.retries = r.retries
BY DEF Sensible, BatchRow, Sound

LEMMA EndedRow ==
    ASSUME Sensible, NEW n \in 0..Delays + 1, NEW s \in BatchStatus, s # "failed"
    PROVE  LET r == [NoBatch EXCEPT !.status = s, !.retries = n] IN
           r \in BatchRow /\ r.status = s /\ Sound(r)
BY DEF Sensible, BatchRow, BatchStatus, Sound, NoBatch

LEMMA RetriedRow ==
    ASSUME Sensible, NEW n \in 0..Delays + 1, NEW t \in BOOLEAN
    PROVE  LET r == [NoBatch EXCEPT !.status = IF Exhausted(n) THEN "dead_letter" ELSE "failed",
                                    !.retries = n, !.next = NextRetry(n),
                                    !.transient = t] IN
           /\ r \in BatchRow /\ r.status \in {"failed", "dead_letter"} /\ Sound(r)
           /\ r.lease = "none" /\ r.token = None
<1> DEFINE s == IF Exhausted(n) THEN "dead_letter" ELSE "failed"
           r == [NoBatch EXCEPT !.status = s, !.retries = n, !.next = NextRetry(n),
                                !.transient = t]
<1>1. s \in {"failed", "dead_letter"} /\ (s = "failed" => NextRetry(n) # "none" /\ n <= Delays)
      /\ NextRetry(n) \in {"none", "waiting"}
    BY DEF Sensible, Exhausted, NextRetry
<1> HIDE DEF s
<1>2. /\ r \in BatchRow /\ r.status = s /\ r.retries = n /\ r.next = NextRetry(n)
      /\ r.lease = "none" /\ r.token = None
    BY <1>1 DEF BatchRow, BatchStatus, NoBatch
<1> HIDE DEF r
<1>3. Sound(r) BY <1>1, <1>2 DEF Sound
<1> QED BY <1>1, <1>2, <1>3 DEF r, s

\* Time passes over a row.
LEMMA TimedRow ==
    ASSUME Sensible, NEW r \in BatchRow, Sound(r), NEW n,
           \/ n = [r EXCEPT !.next = "due"]
           \/ n = [r EXCEPT !.aged = TRUE]
           \/ n = [r EXCEPT !.lease = "expired"]
    PROVE  /\ n \in BatchRow /\ n.status = r.status /\ Sound(n) /\ n.retries = r.retries
           /\ n = [r EXCEPT !.next = "due"] \/ n = [r EXCEPT !.aged = TRUE]
                 => n.lease = r.lease /\ n.token = r.token
BY DEF Sensible, BatchRow, Sound

-----------------------------------------------------------------------------
(* Events                                                                  *)

LEMMA SetItemsFacts ==
    ASSUME TypeOK, NEW b \in Batch, NEW from \in ItemStatus, NEW to \in ItemStatus,
           SetItems(b, from, to)
    PROVE  /\ item' \in [Event -> [batch : Batch \cup {None}, status : ItemStatus]]
           /\ \A e \in Event :
                 /\ item'[e].batch = item[e].batch
                 /\ item'[e].status = IF item[e].batch = b /\ item[e].status = from
                                      THEN to ELSE item[e].status
<1>1. \A e \in Event : item[e] \in [batch : Batch \cup {None}, status : ItemStatus]
    BY DEF TypeOK
<1>2. \A e \in Event : item'[e] = IF item[e].batch = b /\ item[e].status = from
                                  THEN [item[e] EXCEPT !.status = to] ELSE item[e]
    BY DEF SetItems, ItemsOf
<1>3. item' = [e \in Event |-> item'[e]] BY DEF SetItems
<1> QED BY <1>1, <1>2, <1>3

LEMMA TakeFacts ==
    ASSUME TypeOK, NEW events, Take(events)
    PROVE  /\ accepted' \in [Event -> 0..2]
           /\ \A e \in Event : accepted[e] \in 0..2 /\ accepted'[e] \in 0..2
           /\ \A e \in Event : accepted[e] > 0 \/ e \in events => accepted'[e] > 0
           /\ \A e \in Event : e \notin events => accepted'[e] = accepted[e]
           /\ \A e \in Event : accepted[e] = 0 => accepted'[e] <= 1
BY DEF Take, TypeOK

-----------------------------------------------------------------------------
(* Steps that leave events, deliveries and Telegram alone                  *)

\* Rows change soundly and keep their kind, passes let go of batches or take up
\* one that is past its first delivery.
LEMMA QuietKeeps ==
    ASSUME TypeOK, Kept, UNCHANGED <<item, producer, accepted>>,
           \A b \in Batch : Sound(batch'[b]),
           \A b \in Batch : \/ batch'[b].status = batch[b].status
                            \/ /\ batch[b].status \in {"failed", "dead_letter"}
                               /\ batch'[b].status \in {"failed", "dead_letter"},
           \A w \in Worker :
               \/ ~Holds(w)'
               \/ /\ Holds(w) /\ worker'[w].batch = worker[w].batch
                  /\ worker'[w].pc = "accepted" => worker[w].pc = "accepted"
               \/ /\ worker'[w].pc = "sending" /\ worker'[w].batch \in Batch
                  /\ batch[worker'[w].batch].status \notin {"free", "pending"}
    PROVE  Kept'
<1>1. RowsSound' BY DEF RowsSound
<1>2. FailedHasItems' BY DEF Kept, FailedHasItems
<1>3. ItemsFollowBatch'
    <2>1. \A e \in Event : item[e].batch # None => item[e].batch \in Batch BY DEF TypeOK
    <2> QED BY <2>1 DEF Kept, ItemsFollowBatch
<1>4. SentWasAccepted' BY DEF Kept, SentWasAccepted
<1>5. ProducersSound' BY DEF Kept, ProducersSound, Delivers
<1>6. WorkersSound' BY DEF Kept, WorkersSound, Holds
<1> QED BY <1>1, <1>2, <1>3, <1>4, <1>5, <1>6 DEF Kept

-----------------------------------------------------------------------------
(* The steps of the retry task, of operators and of time                   *)

WorkerRow == [pc : WorkerPC, batch : Batch \cup {None}, queue : SUBSET Batch]

LEMMA RestingFacts ==
    /\ Resting \in WorkerRow /\ Resting.pc = "idle"
    /\ \A q \in SUBSET Batch :
          LET r == [Resting EXCEPT !.pc = "recovering", !.queue = q] IN
          r \in WorkerRow /\ r.pc = "recovering"
BY DEF Resting, WorkerRow, WorkerPC

\* A pass that goes to its next row, and whose claims and sends are another matter.
LEMMA PassFacts ==
    ASSUME TypeOK, NEW w \in Worker,
           \/ RecoverBegin(w) \/ RetryBegin(w) \/ RetryEnd(w) \/ RetryAborts(w)
           \/ \E b \in Batch : ClaimMissed(w, b) \/ Recover(w, b)
           \/ Continue(w)
    PROVE  /\ worker' \in [Worker -> WorkerRow]
           /\ \A v \in Worker : v # w => worker'[v] = worker[v]
           /\ \/ ~Holds(w)'
              \/ Holds(w) /\ worker'[w].pc = worker[w].pc /\ worker'[w].batch = worker[w].batch
<1>0. worker \in [Worker -> WorkerRow] /\ worker[w] \in WorkerRow
    BY DEF TypeOK, WorkerRow
<1>1. ASSUME NEW n \in WorkerRow, worker' = [worker EXCEPT ![w] = n],
             \/ n.pc \notin {"sending", "accepted", "refused"}
             \/ n.pc = worker[w].pc /\ n.batch = worker[w].batch
      PROVE  /\ worker' \in [Worker -> WorkerRow]
             /\ \A v \in Worker : v # w => worker'[v] = worker[v]
             /\ \/ ~Holds(w)'
                \/ Holds(w) /\ worker'[w].pc = worker[w].pc /\ worker'[w].batch = worker[w].batch
    BY <1>0, <1>1 DEF Holds
<1>2. CASE \/ RetryEnd(w) \/ RetryAborts(w)
           \/ \E b \in Batch : Recover(w, b) /\ worker' = [worker EXCEPT ![w] = Resting]
    BY <1>1, <1>2, RestingFacts DEF RetryEnd, RetryAborts
<1>3. CASE RecoverBegin(w)
    <2> DEFINE q == {b \in Batch : batch[b].status = "dead_letter" /\ batch[b].aged
                                    /\ batch[b].transient}
               n == [Resting EXCEPT !.pc = "recovering", !.queue = q]
    <2>1. worker' = [worker EXCEPT ![w] = n] BY <1>3 DEF RecoverBegin
    <2>2. q \in SUBSET Batch OBVIOUS
    <2>3. n \in WorkerRow /\ n.pc = "recovering" BY <2>2, RestingFacts
    <2> QED BY <1>1, <2>1, <2>3
<1>4. CASE RetryBegin(w)
    <2> DEFINE q == {b \in Batch : Due(b)}
               n == [worker[w] EXCEPT !.pc = "retrying", !.queue = q]
    <2>1. worker' = [worker EXCEPT ![w] = n] BY <1>0, <1>4 DEF RetryBegin
    <2>2. q \in SUBSET Batch OBVIOUS
    <2>3. n \in WorkerRow /\ n.pc = "retrying" BY <1>0, <2>2 DEF WorkerRow, WorkerPC
    <2> QED BY <1>1, <2>1, <2>3
<1>5. CASE Continue(w)
    <2> DEFINE n == [worker[w] EXCEPT !.pc = "retrying", !.batch = None]
    <2>1. worker' = [worker EXCEPT ![w] = n] BY <1>0, <1>5 DEF Continue
    <2>2. n \in WorkerRow /\ n.pc = "retrying" BY <1>0 DEF WorkerRow, WorkerPC
    <2> QED BY <1>1, <2>1, <2>2
<1>6. ASSUME NEW b \in Batch, worker' = [worker EXCEPT ![w].queue = worker[w].queue \ {b}]
      PROVE  /\ worker' \in [Worker -> WorkerRow]
             /\ \A v \in Worker : v # w => worker'[v] = worker[v]
             /\ \/ ~Holds(w)'
                \/ Holds(w) /\ worker'[w].pc = worker[w].pc /\ worker'[w].batch = worker[w].batch
    <2> DEFINE n == [worker[w] EXCEPT !.queue = worker[w].queue \ {b}]
    <2>1. worker' = [worker EXCEPT ![w] = n] BY <1>0, <1>6
    <2>2. n \in WorkerRow /\ n.pc = worker[w].pc /\ n.batch = worker[w].batch
        BY <1>0 DEF WorkerRow
    <2> QED BY <1>1, <2>1, <2>2
<1>7. \A b \in Batch : ClaimMissed(w, b) \/ Recover(w, b)
          => \/ worker' = [worker EXCEPT ![w].queue = worker[w].queue \ {b}]
             \/ Recover(w, b) /\ worker' = [worker EXCEPT ![w] = Resting]
    BY <1>0 DEF ClaimMissed, Recover
<1> QED BY <1>2, <1>3, <1>4, <1>5, <1>6, <1>7

\* One row becomes n.
LEMMA OneRow ==
    ASSUME TypeOK, RowsSound, NEW b \in Batch, NEW n \in BatchRow, Sound(n),
           batch' = [batch EXCEPT ![b] = n],
           \/ n.status = batch[b].status
           \/ batch[b].status \in {"failed", "dead_letter"} /\ n.status \in {"failed", "dead_letter"}
    PROVE  /\ batch' \in [Batch -> BatchRow]
           /\ batch'[b] = n /\ \A c \in Batch : c # b => batch'[c] = batch[c]
           /\ \A c \in Batch : Sound(batch'[c])
           /\ \A c \in Batch : \/ batch'[c].status = batch[c].status
                                \/ /\ batch[c].status \in {"failed", "dead_letter"}
                                   /\ batch'[c].status \in {"failed", "dead_letter"}
BY DEF TypeOK, RowsSound

LEMMA ClaimFacts ==
    ASSUME Sensible, Inv, NEW w \in Worker, NEW b \in Batch, Claim(w, b)
    PROVE  /\ batch[b].status = "failed" /\ batch[b].lease # "live"
           /\ batch' \in [Batch -> BatchRow]
           /\ \A c \in Batch : c # b => batch'[c] = batch[c]
           /\ \A c \in Batch : Sound(batch'[c]) /\ batch'[c].status = batch[c].status
           /\ batch'[b].lease = "live" /\ batch'[b].token = w
           /\ batch'[b].retries = batch[b].retries
           /\ worker' \in [Worker -> WorkerRow] /\ \A v \in Worker : v # w => worker'[v] = worker[v]
           /\ worker'[w].pc = "sending" /\ worker'[w].batch = b
           /\ UNCHANGED <<item, producer, operator, accepted, counters>>
<1>1. batch[b].status = "failed" /\ batch[b].lease # "live" BY DEF Claim, Due
<1>2. ItemsOf(b, "failed") # {} BY <1>1 DEF Inv, Kept, FailedHasItems, ItemsOf
<1>3. batch[b] \in BatchRow /\ Sound(batch[b]) BY DEF Inv, TypeOK, Kept, RowsSound
<1> DEFINE n == [batch[b] EXCEPT !.lease = "live", !.token = w]
<1>4. batch' = [batch EXCEPT ![b] = n] BY DEF Claim, Inv, TypeOK
<1>5. /\ n \in BatchRow /\ n.status = "failed" /\ Sound(n)
      /\ n.lease = "live" /\ n.token = w /\ n.retries = batch[b].retries
    BY <1>1, <1>3, ClaimedRow
<1>6. worker' = [worker EXCEPT ![w] =
                    [pc |-> "sending", batch |-> b, queue |-> worker[w].queue \ {b}]]
    BY <1>2 DEF Claim
<1>7. worker \in [Worker -> WorkerRow] /\ worker[w].queue \ {b} \in SUBSET Batch
    BY DEF Inv, TypeOK, WorkerRow
<1>8. [pc |-> "sending", batch |-> b, queue |-> worker[w].queue \ {b}] \in WorkerRow
    BY <1>7 DEF WorkerRow, WorkerPC
<1>9. UNCHANGED <<item, producer, operator, accepted, counters>> BY DEF Claim
<1> HIDE DEF n
<1>10. /\ worker' \in [Worker -> WorkerRow] /\ \A v \in Worker : v # w => worker'[v] = worker[v]
       /\ worker'[w].pc = "sending" /\ worker'[w].batch = b
    BY <1>6, <1>7, <1>8
<1>11. /\ batch' \in [Batch -> BatchRow] /\ batch'[b] = n
       /\ \A c \in Batch : c # b => batch'[c] = batch[c]
       /\ \A c \in Batch : Sound(batch'[c])
    BY <1>1, <1>4, <1>5, OneRow DEF Inv, Kept
<1>12. \A c \in Batch : batch'[c].status = batch[c].status BY <1>1, <1>5, <1>11
<1> QED BY <1>1, <1>5, <1>9, <1>10, <1>11, <1>12

\* finishClaimedRetry after a refusal: the next rung, or the dead letter.
LEMMA RetryFailedFacts ==
    ASSUME Sensible, Inv, NEW w \in Worker, NEW t \in BOOLEAN, RetryFailed(w, t)
    PROVE  LET b == worker[w].batch IN
           /\ Holds(w) /\ b \in Batch /\ batch[b].status = "failed" /\ batch[b].token = w
           /\ batch' \in [Batch -> BatchRow]
           /\ batch'[b].status \in {"failed", "dead_letter"}
           /\ batch'[b].lease = "none" /\ batch'[b].token = None
           /\ \A c \in Batch : c # b => batch'[c] = batch[c]
           /\ \A c \in Batch : Sound(batch'[c])
           /\ \A c \in Batch : \/ batch'[c].status = batch[c].status
                                \/ /\ batch[c].status \in {"failed", "dead_letter"}
                                   /\ batch'[c].status \in {"failed", "dead_letter"}
           /\ worker' \in [Worker -> WorkerRow] /\ \A v \in Worker : v # w => worker'[v] = worker[v]
           /\ ~Holds(w)'
           /\ UNCHANGED <<item, producer, operator, accepted, counters>>
<1> DEFINE b == worker[w].batch
           k == batch[b].retries + 1
           n == [NoBatch EXCEPT !.status = IF Exhausted(k) THEN "dead_letter" ELSE "failed",
                                !.retries = k, !.next = NextRetry(k), !.transient = t]
<1>1. worker[w].pc = "refused" /\ Owns(w) /\ batch' = [batch EXCEPT ![b] = n] /\ Continue(w)
      /\ UNCHANGED <<item, producer, operator, accepted, counters>>
    BY DEF RetryFailed
<1>2. Holds(w) /\ b \in Batch /\ batch[b].status = "failed" /\ batch[b].token = w
    BY <1>1 DEF Holds, Owns, Inv, Kept, WorkersSound
<1>3. batch[b] \in BatchRow /\ Sound(batch[b])
    BY <1>2 DEF Inv, TypeOK, Kept, RowsSound
<1>4. batch[b].retries \in 0..Delays + 1 /\ batch[b].retries <= Delays
    BY <1>2, <1>3 DEF BatchRow, Sound
<1>5. k \in 0..Delays + 1 BY <1>4 DEF Sensible
<1>6. /\ n \in BatchRow /\ n.status \in {"failed", "dead_letter"} /\ Sound(n)
      /\ n.lease = "none" /\ n.token = None
    BY <1>5, RetriedRow
<1> HIDE DEF n, k
<1>7. /\ batch' \in [Batch -> BatchRow]
      /\ batch'[b] = n /\ \A c \in Batch : c # b => batch'[c] = batch[c]
      /\ \A c \in Batch : Sound(batch'[c])
      /\ \A c \in Batch : \/ batch'[c].status = batch[c].status
                           \/ /\ batch[c].status \in {"failed", "dead_letter"}
                              /\ batch'[c].status \in {"failed", "dead_letter"}
    BY <1>1, <1>2, <1>6, OneRow DEF Inv, Kept
<1>8. worker' \in [Worker -> WorkerRow] /\ \A v \in Worker : v # w => worker'[v] = worker[v]
    BY <1>1, PassFacts DEF Inv
<1>9. worker'[w].pc = "retrying" BY <1>1 DEF Continue, Inv, TypeOK
<1> QED BY <1>1, <1>2, <1>6, <1>7, <1>8, <1>9 DEF Holds

LEMMA RequeueFacts ==
    ASSUME Sensible, Inv, NEW b \in Batch, Requeueable(b),
           batch' = [batch EXCEPT ![b] = Requeued(@)]
    PROVE  /\ batch' \in [Batch -> BatchRow]
           /\ batch'[b].status = "failed" /\ \A c \in Batch : c # b => batch'[c] = batch[c]
           /\ \A c \in Batch : Sound(batch'[c])
           /\ \A c \in Batch : \/ batch'[c].status = batch[c].status
                                \/ /\ batch[c].status \in {"failed", "dead_letter"}
                                   /\ batch'[c].status \in {"failed", "dead_letter"}
<1>1. batch[b] \in BatchRow /\ batch[b].status \in {"failed", "dead_letter"}
    BY DEF Inv, TypeOK, Requeueable
<1>2. PICK n : n = Requeued(batch[b]) OBVIOUS
<1>3. n \in BatchRow /\ n.status = "failed" /\ Sound(n) BY <1>1, <1>2, RequeuedRow
<1>4. batch' = [batch EXCEPT ![b] = n] BY <1>2
<1> QED BY <1>1, <1>3, <1>4, OneRow DEF Inv, Kept

\* Time passes over a row, or over its lease.
LEMMA TimeFacts ==
    ASSUME Sensible, Inv, NEW b \in Batch, Elapse(b) \/ Age(b) \/ Expire(b)
    PROVE  /\ batch' \in [Batch -> BatchRow]
           /\ \A c \in Batch : c # b => batch'[c] = batch[c]
           /\ \A c \in Batch : /\ Sound(batch'[c]) /\ batch'[c].status = batch[c].status
                                /\ batch'[c].retries = batch[c].retries
           /\ \/ Expire(b)
              \/ batch'[b].lease = batch[b].lease /\ batch'[b].token = batch[b].token
           /\ UNCHANGED <<item, producer, worker, operator, accepted, counters>>
<1>1. batch[b] \in BatchRow /\ Sound(batch[b]) BY DEF Inv, TypeOK, Kept, RowsSound
<1>2. UNCHANGED <<item, producer, worker, operator, accepted, counters>>
    BY DEF Elapse, Age, Expire
<1>3. PICK n : \/ Elapse(b) /\ n = [batch[b] EXCEPT !.next = "due"]
               \/ Age(b) /\ n = [batch[b] EXCEPT !.aged = TRUE]
               \/ Expire(b) /\ n = [batch[b] EXCEPT !.lease = "expired"]
    OBVIOUS
<1>4. /\ n \in BatchRow /\ n.status = batch[b].status /\ Sound(n)
      /\ n.retries = batch[b].retries
      /\ Expire(b) \/ (n.lease = batch[b].lease /\ n.token = batch[b].token)
    <2> DEFINE r == batch[b]
    <2>1. \/ n = [r EXCEPT !.next = "due"] \/ n = [r EXCEPT !.aged = TRUE]
          \/ Expire(b) /\ n = [r EXCEPT !.lease = "expired"]
        BY <1>3
    <2>2. r \in BatchRow /\ Sound(r) BY <1>1
    <2> HIDE DEF r
    <2>3. n \in BatchRow /\ n.status = r.status /\ Sound(n) /\ n.retries = r.retries
        BY <2>1, <2>2, TimedRow
    <2>4. Expire(b) \/ (n.lease = r.lease /\ n.token = r.token)
        BY <2>1, <2>2, TimedRow
    <2> QED BY <2>3, <2>4 DEF r
<1>5. batch' = [batch EXCEPT ![b] = n] BY <1>3 DEF Elapse, Age, Expire, Inv, TypeOK
<1>6. /\ batch' \in [Batch -> BatchRow]
      /\ batch'[b] = n /\ \A c \in Batch : c # b => batch'[c] = batch[c]
      /\ \A c \in Batch : Sound(batch'[c])
    BY <1>4, <1>5, OneRow DEF Inv, Kept
<1> QED BY <1>2, <1>4, <1>6

Quiet ==
    \/ \E o \in Operator : RequeueStep(o) \/ \E b \in Batch : RequeueRead(o, b)
    \/ \E w \in Worker :
          \/ RecoverBegin(w) \/ RetryBegin(w) \/ RetryAborts(w) \/ RetryEnd(w)
          \/ \E b \in Batch : Recover(w, b) \/ Claim(w, b) \/ ClaimMissed(w, b)
          \/ \E transient \in BOOLEAN : RetryFailed(w, transient)
    \/ \E b \in Batch : Elapse(b) \/ Age(b) \/ Expire(b)

LEMMA QuietStep ==
    ASSUME Sensible, Inv, Quiet
    PROVE  Inv'
<1>0. TypeOK /\ Kept /\ \A b \in Batch : Sound(batch[b])
    BY DEF Inv, Kept, RowsSound
<1> DEFINE Kind == \A b \in Batch : \/ batch'[b].status = batch[b].status
                                    \/ /\ batch[b].status \in {"failed", "dead_letter"}
                                       /\ batch'[b].status \in {"failed", "dead_letter"}
           Passes == \A w \in Worker :
               \/ ~Holds(w)'
               \/ /\ Holds(w) /\ worker'[w].batch = worker[w].batch
                  /\ worker'[w].pc = "accepted" => worker[w].pc = "accepted"
               \/ /\ worker'[w].pc = "sending" /\ worker'[w].batch \in Batch
                  /\ batch[worker'[w].batch].status \notin {"free", "pending"}
           Rows == batch' \in [Batch -> BatchRow] /\ \A b \in Batch : Sound(batch'[b])
           Others == /\ UNCHANGED <<item, producer, accepted>>
                     /\ operator' \in [Operator -> Batch \cup {None}]
                     /\ requeues' \in 0..MaxRequeues /\ cleanups' = cleanups /\ crashes' = crashes
<1>1. SUFFICES Kind /\ Passes /\ Rows /\ worker' \in [Worker -> WorkerRow] /\ Others
    <2>1. Kept' BY <1>0, <1>1, QuietKeeps
    <2>2. TypeOK' BY <1>0, <1>1 DEF TypeOK, WorkerRow
    <2> QED BY <2>1, <2>2 DEF Inv
<1>2. ASSUME batch' = batch PROVE Rows /\ Kind
    BY <1>0, <1>2 DEF TypeOK
<1>3. ASSUME worker' = worker PROVE Passes /\ worker' \in [Worker -> WorkerRow]
    BY <1>0, <1>3 DEF Holds, TypeOK, WorkerRow
<1>4. ASSUME UNCHANGED <<item, producer, operator, accepted, counters>> PROVE Others
    BY <1>0, <1>4 DEF counters, TypeOK
<1>5. ASSUME NEW o \in Operator, RequeueStep(o) \/ \E b \in Batch : RequeueRead(o, b)
      PROVE  Kind /\ Passes /\ Rows /\ worker' \in [Worker -> WorkerRow] /\ Others
    <2>1. UNCHANGED <<item, producer, accepted, worker, cleanups, crashes>>
        BY <1>5 DEF RequeueStep, RequeueRead, RequeueWrite, RequeueRefused, tables, counters
    <2>2. operator' \in [Operator -> Batch \cup {None}] /\ requeues' \in 0..MaxRequeues
        <3>1. operator \in [Operator -> Batch \cup {None}] /\ requeues \in 0..MaxRequeues
            BY <1>0 DEF TypeOK
        <3>2. CASE RequeueStep(o)
            BY <3>1, <3>2 DEF RequeueStep, RequeueWrite, RequeueRefused, counters
        <3>3. ASSUME NEW b \in Batch, RequeueRead(o, b)
              PROVE  operator' \in [Operator -> Batch \cup {None}] /\ requeues' \in 0..MaxRequeues
            BY <3>1, <3>3 DEF RequeueRead, Sensible
        <3> QED BY <1>5, <3>2, <3>3
    <2>3. Rows /\ Kind
        <3>1. CASE batch' = batch BY <1>2, <3>1
        <3>2. CASE RequeueWrite(o)
            <4>1. operator[o] \in Batch BY <1>0, <3>2 DEF TypeOK, RequeueWrite
            <4> QED BY <3>2, <4>1, RequeueFacts DEF RequeueWrite
        <3> QED BY <1>5, <3>1, <3>2 DEF RequeueStep, RequeueRead, RequeueRefused, tables
    <2> QED BY <1>3, <2>1, <2>2, <2>3
<1>6. ASSUME NEW w \in Worker,
             \/ RecoverBegin(w) \/ RetryBegin(w) \/ RetryAborts(w) \/ RetryEnd(w)
             \/ \E b \in Batch : Recover(w, b) \/ ClaimMissed(w, b)
      PROVE  Kind /\ Passes /\ Rows /\ worker' \in [Worker -> WorkerRow] /\ Others
    <2>1. UNCHANGED <<item, producer, operator, accepted, counters>>
        BY <1>6 DEF RecoverBegin, RetryBegin, RetryAborts, RetryEnd, Recover, ClaimMissed, tables,
                    counters
    <2>2. worker' \in [Worker -> WorkerRow] /\ Passes
        BY <1>0, <1>6, PassFacts DEF Holds
    <2>3. Rows /\ Kind
        <3>1. CASE batch' = batch BY <1>2, <3>1
        <3>2. ASSUME NEW b \in Batch, Recover(w, b) PROVE Rows /\ Kind
            BY <1>2, <3>2, RequeueFacts DEF Recover
        <3> QED BY <1>6, <3>1, <3>2
                DEF RecoverBegin, RetryBegin, RetryAborts, RetryEnd, ClaimMissed, tables
    <2> QED BY <1>4, <2>1, <2>2, <2>3
<1>7. ASSUME NEW w \in Worker, NEW b \in Batch, Claim(w, b)
      PROVE  Kind /\ Passes /\ Rows /\ worker' \in [Worker -> WorkerRow] /\ Others
    BY <1>4, <1>7, ClaimFacts DEF Holds, Inv, TypeOK
<1>8. ASSUME NEW w \in Worker, NEW t \in BOOLEAN, RetryFailed(w, t)
      PROVE  Kind /\ Passes /\ Rows /\ worker' \in [Worker -> WorkerRow] /\ Others
    BY <1>4, <1>8, RetryFailedFacts DEF Holds
<1>9. ASSUME NEW b \in Batch, Elapse(b) \/ Age(b) \/ Expire(b)
      PROVE  Kind /\ Passes /\ Rows /\ worker' \in [Worker -> WorkerRow] /\ Others
    BY <1>3, <1>4, <1>9, TimeFacts
<1> QED BY <1>5, <1>6, <1>7, <1>8, <1>9 DEF Quiet

-----------------------------------------------------------------------------
(* First delivery                                                          *)

ProducerRow == [pc : ProducerPC, batch : Batch \cup {None}]

\* Every step of Deliver ends the call or moves its program counter.
LEMMA CallFacts ==
    ASSUME TypeOK, NEW p \in Producer,
           \/ Leave(p)
           \/ \E pc \in ProducerPC \ {"idle"} : producer' = [producer EXCEPT ![p].pc = pc]
    PROVE  /\ producer' \in [Producer -> ProducerRow]
           /\ \A q \in Producer : q # p => producer'[q] = producer[q]
           /\ producer'[p].pc = "idle" \/ producer'[p].batch = producer[p].batch
<1>1. producer \in [Producer -> ProducerRow] /\ producer[p] \in ProducerRow
    BY DEF TypeOK, ProducerRow
<1>2. CASE Leave(p) BY <1>1, <1>2 DEF Leave, ProducerRow, ProducerPC
<1>3. ASSUME NEW pc \in ProducerPC, producer' = [producer EXCEPT ![p].pc = pc]
      PROVE  /\ producer' \in [Producer -> ProducerRow]
             /\ \A q \in Producer : q # p => producer'[q] = producer[q]
             /\ producer'[p].batch = producer[p].batch
    BY <1>1, <1>3 DEF ProducerRow
<1> QED BY <1>2, <1>3

\* A call that owns its batch: nobody else delivers it, no pass holds it.
LEMMA OwnBatch ==
    ASSUME Sensible, Inv, NEW p \in Producer, Delivers(p)
    PROVE  LET b == producer[p].batch IN
           /\ b \in Batch /\ batch[b] \in BatchRow /\ Sound(batch[b]) /\ batch[b].status = "pending"
           /\ \A q \in Producer : q # p /\ Delivers(q) => producer[q].batch # b
           /\ \A w \in Worker : Holds(w) => worker[w].batch # b
           /\ \A e \in Event : item[e].batch = b => item[e].status \notin {"sent", "failed"}
<1>1. producer[p].batch \in Batch /\ batch[producer[p].batch].status = "pending"
    BY DEF Inv, Kept, ProducersSound
<1>2. batch[producer[p].batch] \in BatchRow /\ Sound(batch[producer[p].batch])
    BY <1>1 DEF Inv, TypeOK, Kept, RowsSound
<1>3. \A q \in Producer : q # p /\ Delivers(q) => producer[q].batch # producer[p].batch
    BY DEF Inv, Kept, ProducersSound
<1>4. \A w \in Worker : Holds(w) => worker[w].batch # producer[p].batch
    BY <1>1 DEF Inv, Kept, WorkersSound
<1>5. ASSUME NEW e \in Event, item[e].batch = producer[p].batch
      PROVE  item[e].status \notin {"sent", "failed"}
    <2>1. item[e].batch # None /\ batch[item[e].batch].status = "pending"
        BY <1>1, <1>5 DEF Sensible
    <2> QED BY <1>5, <2>1 DEF Inv, Kept, ItemsFollowBatch
<1> QED BY <1>1, <1>2, <1>3, <1>4, <1>5

LEMMA CreateKeeps ==
    ASSUME Sensible, Inv, NEW p \in Producer, NEW b \in Batch,
           NEW events \in SUBSET Event, NEW eligible \in SUBSET Event,
           Create(p, b, events, eligible)
    PROVE  Inv'
<1> DEFINE new == {e \in events : item[e] = NoItem}
<1>1. batch[b] \in BatchRow /\ Sound(batch[b]) /\ batch[b].status = "free"
      /\ producer[p].pc = "idle"
    BY DEF Create, Inv, TypeOK, Kept, RowsSound
<1>2. PICK n : n = [batch[b] EXCEPT !.status = "pending"] OBVIOUS
<1>3. n \in BatchRow /\ n.status = "pending" /\ Sound(n)
    BY <1>1, <1>2, StatusRow DEF BatchStatus
<1>4. batch' = [batch EXCEPT ![b] = n] BY <1>2 DEF Create, Inv, TypeOK
<1>5. /\ batch' \in [Batch -> BatchRow] /\ batch'[b] = n
      /\ \A c \in Batch : c # b => batch'[c] = batch[c]
    BY <1>3, <1>4 DEF Inv, TypeOK
<1>6. \A e \in Event : item[e] \in [batch : Batch \cup {None}, status : ItemStatus]
    BY DEF Inv, TypeOK
<1>7. item' = [e \in Event |->
                  IF e \in new
                  THEN [batch |-> b,
                        status |-> IF e \in eligible THEN "pending" ELSE "suppressed"]
                  ELSE item[e]]
    BY DEF Create
<1>8. /\ item' \in [Event -> [batch : Batch \cup {None}, status : ItemStatus]]
      /\ \A e \in Event : \/ item'[e] = item[e]
                           \/ /\ item[e] = NoItem /\ item'[e].batch = b
                              /\ item'[e].status \in {"pending", "suppressed"}
    BY <1>6, <1>7 DEF ItemStatus
<1>9. /\ producer' \in [Producer -> ProducerRow] /\ producer'[p] = [pc |-> "created", batch |-> b]
      /\ \A q \in Producer : q # p => producer'[q] = producer[q]
    BY DEF Create, Inv, TypeOK, ProducerRow, ProducerPC
<1>10. UNCHANGED <<worker, operator, accepted, requeues, cleanups, crashes>>
    BY DEF Create, counters
<1>11. TypeOK'
    BY <1>5, <1>8, <1>9, <1>10 DEF Inv, TypeOK, ProducerRow
<1>12. \A q \in Producer : Delivers(q) => producer[q].batch \in Batch /\ producer[q].batch # b
    BY <1>1 DEF Inv, Kept, ProducersSound
<1>13. \A w \in Worker : Holds(w) => worker[w].batch \in Batch /\ worker[w].batch # b
    BY <1>1 DEF Inv, Kept, WorkersSound
<1>14. RowsSound' BY <1>3, <1>5 DEF Inv, Kept, RowsSound
<1>15. NoItem.batch = None /\ NoItem.status = "none" BY DEF NoItem
<1>16. FailedHasItems'
    BY <1>3, <1>5, <1>8, <1>15 DEF Inv, Kept, FailedHasItems, Sensible
<1>17. ItemsFollowBatch'
    <2>1. SUFFICES ASSUME NEW e \in Event, item'[e].batch # None
                   PROVE  LET status == batch'[item'[e].batch].status IN
                          /\ item'[e].status = "sent" => status = "sent"
                          /\ item'[e].status = "failed" => status \in {"failed", "dead_letter"}
                          /\ item'[e].status = "pending" => status = "pending"
        BY DEF ItemsFollowBatch
    <2>2. CASE item'[e] = item[e]
        <3>1. item[e].batch \in Batch BY <1>6, <2>1, <2>2
        <3>2. CASE item[e].batch = b
            BY <1>1, <1>3, <1>5, <2>2, <3>1, <3>2, <2>1 DEF Inv, Kept, ItemsFollowBatch
        <3>3. CASE item[e].batch # b
            BY <1>5, <2>2, <3>1, <3>3, <2>1 DEF Inv, Kept, ItemsFollowBatch
        <3> QED BY <3>2, <3>3
    <2>3. CASE item'[e].batch = b /\ item'[e].status \in {"pending", "suppressed"}
        BY <1>3, <1>5, <2>3
    <2> QED BY <1>8, <2>2, <2>3
<1>18. SentWasAccepted' BY <1>8, <1>10 DEF Inv, Kept, SentWasAccepted
<1>19. ProducersSound'
    <2>1. \A q \in Producer : Delivers(q)'
             => producer'[q].batch \in Batch /\ batch'[producer'[q].batch].status = "pending"
        BY <1>3, <1>5, <1>9, <1>12 DEF Inv, Kept, ProducersSound, Delivers
    <2>2. \A q, r \in Producer : q # r /\ Delivers(q)' /\ Delivers(r)'
             => producer'[q].batch # producer'[r].batch
        BY <1>9, <1>12 DEF Inv, Kept, ProducersSound, Delivers
    <2>3. \A q \in Producer : producer'[q].pc \in {"counted", "sending", "accepted", "refused"}
             => \E e \in Event : item'[e].batch = producer'[q].batch /\ item'[e].status = "pending"
        <3>1. SUFFICES ASSUME NEW q \in Producer,
                              producer'[q].pc \in {"counted", "sending", "accepted", "refused"}
                       PROVE  \E e \in Event : /\ item'[e].batch = producer'[q].batch
                                              /\ item'[e].status = "pending"
            OBVIOUS
        <3>2. q # p /\ producer'[q] = producer[q] BY <1>9, <3>1
        <3>3. PICK e \in Event : item[e].batch = producer[q].batch /\ item[e].status = "pending"
            BY <3>1, <3>2 DEF Inv, Kept, ProducersSound
        <3>4. item'[e] = item[e] BY <1>8, <1>15, <3>3
        <3> QED BY <3>2, <3>3, <3>4
    <2>4. \A q \in Producer, e \in Event :
             /\ producer'[q].pc = "accepted"
             /\ item'[e].batch = producer'[q].batch /\ item'[e].status = "pending"
             => accepted'[e] > 0
        BY <1>8, <1>9, <1>10, <1>12 DEF Inv, Kept, ProducersSound, Delivers
    <2> QED BY <2>1, <2>2, <2>3, <2>4 DEF ProducersSound
<1>20. WorkersSound'
    BY <1>5, <1>8, <1>10, <1>13 DEF Inv, Kept, WorkersSound, Holds
<1> QED BY <1>11, <1>14, <1>16, <1>17, <1>18, <1>19, <1>20 DEF Inv, Kept

\* A step of the call alone.
LEMMA CallMoves ==
    ASSUME Sensible, Inv, NEW p \in Producer, Delivers(p),
           UNCHANGED <<tables, worker, operator, counters>>,
           \/ Leave(p)
           \/ \E pc \in ProducerPC \ {"idle"} : producer' = [producer EXCEPT ![p].pc = pc],
           producer'[p].pc \in {"counted", "sending", "accepted", "refused"}
              => \E e \in Event : item[e].batch = producer[p].batch /\ item[e].status = "pending",
           accepted' \in [Event -> 0..2], \A e \in Event : accepted[e] > 0 => accepted'[e] > 0,
           producer'[p].pc = "accepted"
              => \A e \in Event : item[e].batch = producer[p].batch /\ item[e].status = "pending"
                                    => accepted'[e] > 0
    PROVE  Inv'
<1>1. /\ producer' \in [Producer -> ProducerRow]
      /\ \A q \in Producer : q # p => producer'[q] = producer[q]
      /\ producer'[p].pc = "idle" \/ producer'[p].batch = producer[p].batch
    BY CallFacts DEF Inv
<1>2. TypeOK' BY <1>1 DEF Inv, TypeOK, ProducerRow, tables, counters
<1>3. RowsSound' BY DEF Inv, Kept, RowsSound, tables
<1>4. FailedHasItems' BY DEF Inv, Kept, FailedHasItems, tables
<1>5. ItemsFollowBatch' BY DEF Inv, Kept, ItemsFollowBatch, tables
<1>6. SentWasAccepted' BY DEF Inv, Kept, SentWasAccepted, tables
<1>7. WorkersSound' BY DEF Inv, Kept, WorkersSound, Holds, tables
<1>8. ProducersSound'
    <2>1. \A q \in Producer : Delivers(q)'
             => producer'[q].batch \in Batch /\ batch'[producer'[q].batch].status = "pending"
        BY <1>1 DEF Inv, Kept, ProducersSound, Delivers, tables
    <2>2. \A q, r \in Producer : q # r /\ Delivers(q)' /\ Delivers(r)'
             => producer'[q].batch # producer'[r].batch
        BY <1>1 DEF Inv, Kept, ProducersSound, Delivers
    <2>3. \A q \in Producer : producer'[q].pc \in {"counted", "sending", "accepted", "refused"}
             => \E e \in Event : item'[e].batch = producer'[q].batch /\ item'[e].status = "pending"
        BY <1>1 DEF Inv, Kept, ProducersSound, tables
    <2>4. \A q \in Producer, e \in Event :
             /\ producer'[q].pc = "accepted"
             /\ item'[e].batch = producer'[q].batch /\ item'[e].status = "pending"
             => accepted'[e] > 0
        BY <1>1 DEF Inv, Kept, ProducersSound, tables
    <2> QED BY <2>1, <2>2, <2>3, <2>4 DEF ProducersSound
<1> QED BY <1>2, <1>3, <1>4, <1>5, <1>6, <1>7, <1>8 DEF Inv, Kept

\* The batch of a call ends as s, and its pending events with it.
LEMMA SettleKeeps ==
    ASSUME Sensible, Inv, NEW p \in Producer, Delivers(p), Leave(p),
           NEW n \in BatchRow, Sound(n), n.status \in {"suppressed", "sent", "failed"},
           batch' = [batch EXCEPT ![producer[p].batch] = n],
           item' \in [Event -> [batch : Batch \cup {None}, status : ItemStatus]],
           \A e \in Event :
              /\ item'[e].batch = item[e].batch
              /\ item'[e].status = IF item[e].batch = producer[p].batch /\ item[e].status = "pending"
                                   THEN n.status ELSE item[e].status,
           n.status = "failed"
              => \E e \in Event : item[e].batch = producer[p].batch /\ item[e].status = "pending",
           n.status = "sent"
              => \A e \in Event : item[e].batch = producer[p].batch /\ item[e].status = "pending"
                                    => accepted[e] > 0,
           UNCHANGED <<worker, operator, accepted, counters>>
    PROVE  Inv'
<1> DEFINE b == producer[p].batch
<1>1. /\ producer' \in [Producer -> ProducerRow] /\ producer'[p].pc = "idle"
      /\ \A q \in Producer : q # p => producer'[q] = producer[q]
    BY CallFacts DEF Inv, Leave, TypeOK
<1>2. /\ b \in Batch /\ batch[b].status = "pending"
      /\ \A q \in Producer : q # p /\ Delivers(q) => producer[q].batch # b
      /\ \A w \in Worker : Holds(w) => worker[w].batch # b
      /\ \A e \in Event : item[e].batch = b => item[e].status \notin {"sent", "failed"}
    BY OwnBatch
<1> HIDE DEF b
<1>3. /\ batch' \in [Batch -> BatchRow] /\ batch'[b] = n
      /\ \A c \in Batch : c # b => batch'[c] = batch[c]
    BY <1>2 DEF Inv, TypeOK, b
<1>4. /\ \A e \in Event : item'[e].batch = item[e].batch
      /\ \A e \in Event : item[e].batch = b /\ item[e].status = "pending"
                            => item'[e].status = n.status
      /\ \A e \in Event : item[e].batch # b \/ item[e].status # "pending"
                            => item'[e].status = item[e].status
    BY DEF b
<1>5. TypeOK' BY <1>1, <1>3 DEF Inv, TypeOK, ProducerRow, counters
<1>6. RowsSound' BY <1>3 DEF Inv, Kept, RowsSound
<1>7. FailedHasItems'
    <2>1. SUFFICES ASSUME NEW c \in Batch, batch'[c].status \in {"failed", "dead_letter"}
                   PROVE  \E e \in Event : item'[e].batch = c /\ item'[e].status = "failed"
        BY DEF FailedHasItems
    <2>2. CASE c = b
        <3>1. n.status = "failed" BY <1>3, <2>1, <2>2
        <3> QED BY <1>4, <2>2, <3>1 DEF b
    <2>3. CASE c # b
        <3>1. PICK e \in Event : item[e].batch = c /\ item[e].status = "failed"
            BY <1>3, <2>1, <2>3 DEF Inv, Kept, FailedHasItems
        <3> QED BY <1>4, <3>1
    <2> QED BY <2>2, <2>3
<1>8. ItemsFollowBatch'
    <2>1. SUFFICES ASSUME NEW e \in Event, item[e].batch # None
                   PROVE  LET status == batch'[item[e].batch].status IN
                          /\ item'[e].status = "sent" => status = "sent"
                          /\ item'[e].status = "failed" => status \in {"failed", "dead_letter"}
                          /\ item'[e].status = "pending" => status = "pending"
        BY <1>4 DEF ItemsFollowBatch
    <2>2. item[e].batch \in Batch BY <2>1 DEF Inv, TypeOK
    <2>3. CASE item[e].batch = b
        <3>1. item'[e].status # "pending" BY <1>4, <2>3
        <3>2. item'[e].status \in {"sent", "failed"} => item'[e].status = n.status
            BY <1>2, <1>4, <2>3
        <3> QED BY <1>3, <2>3, <3>1, <3>2
    <2>4. CASE item[e].batch # b
        BY <1>3, <1>4, <2>1, <2>2, <2>4 DEF Inv, Kept, ItemsFollowBatch
    <2> QED BY <2>3, <2>4
<1>9. SentWasAccepted'
    <2>1. SUFFICES ASSUME NEW e \in Event, item'[e].status = "sent"
                   PROVE  accepted[e] > 0
        BY DEF SentWasAccepted
    <2>2. CASE item[e].batch = b /\ item[e].status = "pending" BY <1>4, <2>1, <2>2 DEF b
    <2>3. CASE item[e].batch # b \/ item[e].status # "pending"
        BY <1>4, <2>1, <2>3 DEF Inv, Kept, SentWasAccepted
    <2> QED BY <2>2, <2>3
<1>10. WorkersSound'
    <2>1. \A w \in Worker : Holds(w)'
             => worker'[w].batch \in Batch /\ batch'[worker'[w].batch].status \notin {"free", "pending"}
        BY <1>2, <1>3 DEF Inv, Kept, WorkersSound, Holds
    <2>2. \A w \in Worker, e \in Event :
             /\ worker'[w].pc = "accepted"
             /\ item'[e].batch = worker'[w].batch /\ item'[e].status = "failed"
             => accepted'[e] > 0
        BY <1>2, <1>4 DEF Inv, Kept, WorkersSound, Holds
    <2> QED BY <2>1, <2>2 DEF WorkersSound
<1>11. ProducersSound'
    <2>1. \A q \in Producer : Delivers(q)'
             => q # p /\ Delivers(q) /\ producer'[q] = producer[q] /\ producer[q].batch # b
        BY <1>1, <1>2 DEF Delivers
    <2>2. \A q \in Producer : Delivers(q)'
             => producer'[q].batch \in Batch /\ batch'[producer'[q].batch].status = "pending"
        BY <1>3, <2>1 DEF Inv, Kept, ProducersSound
    <2>3. \A q, r \in Producer : q # r /\ Delivers(q)' /\ Delivers(r)'
             => producer'[q].batch # producer'[r].batch
        BY <2>1 DEF Inv, Kept, ProducersSound
    <2>4. \A q \in Producer : producer'[q].pc \in {"counted", "sending", "accepted", "refused"}
             => \E e \in Event : item'[e].batch = producer'[q].batch /\ item'[e].status = "pending"
        BY <1>4, <2>1 DEF Inv, Kept, ProducersSound, Delivers
    <2>5. \A q \in Producer, e \in Event :
             /\ producer'[q].pc = "accepted"
             /\ item'[e].batch = producer'[q].batch /\ item'[e].status = "pending"
             => accepted'[e] > 0
        BY <1>4, <2>1 DEF Inv, Kept, ProducersSound, Delivers
    <2> QED BY <2>2, <2>3, <2>4, <2>5 DEF ProducersSound
<1> QED BY <1>5, <1>6, <1>7, <1>8, <1>9, <1>10, <1>11 DEF Inv, Kept

LEMMA DeliverKeeps ==
    ASSUME Sensible, Inv, NEW p \in Producer, DeliverStep(p)
    PROVE  Inv'
<1> DEFINE b == producer[p].batch
<1>0. Delivers(p)
    BY DEF DeliverStep, StoreCounts, Suppress, BeginSend, Send, StoreSent, StoreFailed,
           DeliverFails, Delivers
<1>1. /\ b \in Batch /\ batch[b] \in BatchRow /\ Sound(batch[b]) /\ batch[b].status = "pending"
    BY <1>0, OwnBatch
<1>2. producer \in [Producer -> ProducerRow] /\ producer[p] \in ProducerRow
      /\ accepted \in [Event -> 0..2] /\ batch \in [Batch -> BatchRow]
    BY DEF Inv, TypeOK, ProducerRow
<1>3. producer[p].pc \in {"counted", "sending", "accepted", "refused"}
        => \E e \in Event : item[e].batch = b /\ item[e].status = "pending"
    BY DEF Inv, Kept, ProducersSound
<1>4. Leave(p) => producer'[p].pc = "idle"
    BY <1>2 DEF Leave
<1>5. ASSUME NEW s \in {"suppressed", "sent"}, batch' = [batch EXCEPT ![b].status = s], Leave(p),
             \A e \in Event : item'[e].batch = item[e].batch,
             \A e \in Event : item'[e].status = IF item[e].batch = b /\ item[e].status = "pending"
                                                THEN s ELSE item[e].status,
             item' \in [Event -> [batch : Batch \cup {None}, status : ItemStatus]],
             s = "sent" => \A e \in Event : item[e].batch = b /\ item[e].status = "pending"
                                             => accepted[e] > 0,
             UNCHANGED <<worker, operator, accepted, counters>>
      PROVE  Inv'
    <2>1. PICK n : n = [batch[b] EXCEPT !.status = s] OBVIOUS
    <2>a. s \in BatchStatus /\ s # "failed" BY DEF BatchStatus
    <2>2. n \in BatchRow /\ n.status = s /\ Sound(n) BY <1>1, <2>1, <2>a, StatusRow
    <2>3. batch' = [batch EXCEPT ![b] = n] BY <1>2, <1>5, <2>1
    <2> QED BY <1>0, <1>5, <2>2, <2>3, SettleKeeps
<1>6. CASE StoreCounts(p)
    <2>1. CASE ItemsOf(b, "pending") = {}
        <3>1. \A e \in Event : ~(item[e].batch = b /\ item[e].status = "pending")
            BY <2>1 DEF ItemsOf
        <3>2. /\ batch' = [batch EXCEPT ![b].status = "suppressed"] /\ Leave(p)
              /\ UNCHANGED <<item, worker, operator, accepted, counters>>
            BY <1>6, <2>1 DEF StoreCounts
        <3>3. item' \in [Event -> [batch : Batch \cup {None}, status : ItemStatus]]
            BY <3>2 DEF Inv, TypeOK
        <3> QED BY <1>5, <3>1, <3>2, <3>3
    <2>2. CASE ItemsOf(b, "pending") # {}
        <3>1. \E e \in Event : item[e].batch = b /\ item[e].status = "pending"
            BY <2>2 DEF ItemsOf
        <3>2. /\ producer' = [producer EXCEPT ![p].pc = "counted"]
              /\ UNCHANGED <<tables, worker, operator, accepted, counters>>
            BY <1>6, <2>2 DEF StoreCounts, tables
        <3>3. producer'[p].pc = "counted" BY <1>2, <3>2 DEF ProducerRow
        <3> QED BY <1>0, <1>2, <3>1, <3>2, <3>3, CallMoves DEF ProducerPC
    <2> QED BY <2>1, <2>2
<1>7. CASE Suppress(p)
    <2>1. /\ batch' = [batch EXCEPT ![b].status = "suppressed"] /\ Leave(p)
          /\ SetItems(b, "pending", "suppressed")
          /\ UNCHANGED <<worker, operator, accepted, counters>>
        BY <1>7 DEF Suppress
    <2>2. /\ item' \in [Event -> [batch : Batch \cup {None}, status : ItemStatus]]
          /\ \A e \in Event : item'[e].batch = item[e].batch
          /\ \A e \in Event : item'[e].status = IF item[e].batch = b /\ item[e].status = "pending"
                                                THEN "suppressed" ELSE item[e].status
        BY <1>1, <2>1, SetItemsFacts DEF Inv, ItemStatus
    <2> QED BY <1>5, <2>1, <2>2
<1>8. CASE BeginSend(p)
    <2>1. /\ producer' = [producer EXCEPT ![p].pc = "sending"]
          /\ UNCHANGED <<tables, worker, operator, accepted, counters>>
        BY <1>8 DEF BeginSend
    <2>2. producer[p].pc = "counted" /\ producer'[p].pc = "sending"
        BY <1>2, <1>8 DEF BeginSend, ProducerRow
    <2> QED BY <1>0, <1>2, <1>3, <2>1, <2>2, CallMoves DEF ProducerPC
<1>9. CASE Send(p)
    <2>1. PICK pc \in {"accepted", "refused"} :
             /\ producer' = [producer EXCEPT ![p].pc = pc]
             /\ Take(Payload(b)) \/ (pc = "refused" /\ UNCHANGED accepted)
        BY <1>9 DEF Send
    <2>2. UNCHANGED <<tables, worker, operator, counters>> /\ producer[p].pc = "sending"
        BY <1>9 DEF Send
    <2>3. producer'[p].pc = pc BY <1>2, <2>1 DEF ProducerRow
    <2>4. /\ accepted' \in [Event -> 0..2] /\ \A e \in Event : accepted[e] > 0 => accepted'[e] > 0
          /\ pc = "accepted" => \A e \in Event : item[e].batch = b /\ item[e].status = "pending"
                                                 => accepted'[e] > 0
        <3>1. CASE Take(Payload(b)) BY <3>1, TakeFacts DEF Inv, Payload
        <3>2. CASE pc = "refused" /\ UNCHANGED accepted BY <1>2, <3>2
        <3> QED BY <2>1, <3>1, <3>2
    <2> QED BY <1>0, <1>3, <2>1, <2>2, <2>3, <2>4, CallMoves DEF ProducerPC
<1>10. CASE StoreSent(p)
    <2>1. /\ batch' = [batch EXCEPT ![b].status = "sent"] /\ Leave(p)
          /\ SetItems(b, "pending", "sent") /\ producer[p].pc = "accepted"
          /\ UNCHANGED <<worker, operator, accepted, counters>>
        BY <1>10 DEF StoreSent
    <2>2. /\ item' \in [Event -> [batch : Batch \cup {None}, status : ItemStatus]]
          /\ \A e \in Event : item'[e].batch = item[e].batch
          /\ \A e \in Event : item'[e].status = IF item[e].batch = b /\ item[e].status = "pending"
                                                THEN "sent" ELSE item[e].status
        BY <1>1, <2>1, SetItemsFacts DEF Inv, ItemStatus
    <2>3. \A e \in Event : item[e].batch = b /\ item[e].status = "pending" => accepted[e] > 0
        BY <2>1 DEF Inv, Kept, ProducersSound
    <2> QED BY <1>5, <2>1, <2>2, <2>3
<1>11. ASSUME NEW t \in BOOLEAN, StoreFailed(p, t)
       PROVE  Inv'
    <2>1. PICK n : n = [batch[b] EXCEPT !.status = "failed", !.retries = 1, !.next = "waiting",
                                        !.transient = t]
        OBVIOUS
    <2>2. n \in BatchRow /\ n.status = "failed" /\ Sound(n) BY <1>1, <2>1, FailedRow
    <2>3. batch' = [batch EXCEPT ![b] = n] BY <1>2, <1>11, <2>1 DEF StoreFailed
    <2>4. /\ Leave(p) /\ SetItems(b, "pending", "failed") /\ producer[p].pc = "refused"
          /\ UNCHANGED <<worker, operator, accepted, counters>>
        BY <1>11 DEF StoreFailed
    <2>5. /\ item' \in [Event -> [batch : Batch \cup {None}, status : ItemStatus]]
          /\ \A e \in Event :
                /\ item'[e].batch = item[e].batch
                /\ item'[e].status = IF item[e].batch = b /\ item[e].status = "pending"
                                     THEN "failed" ELSE item[e].status
        BY <1>1, <2>4, SetItemsFacts DEF Inv, ItemStatus
    <2> QED BY <1>0, <1>3, <2>2, <2>3, <2>4, <2>5, SettleKeeps
<1>12. CASE DeliverFails(p)
    BY <1>0, <1>2, <1>4, <1>12, CallMoves DEF DeliverFails
<1> QED BY <1>6, <1>7, <1>8, <1>9, <1>10, <1>11, <1>12 DEF DeliverStep

-----------------------------------------------------------------------------
(* Sends of the retry task, the cleanup and a crash                        *)

LEMMA RetrySendFacts ==
    ASSUME Sensible, Inv, NEW w \in Worker, RetrySend(w)
    PROVE  /\ worker[w].pc = "sending" /\ worker' \in [Worker -> WorkerRow]
           /\ \A v \in Worker : v # w => worker'[v] = worker[v]
           /\ worker'[w].batch = worker[w].batch /\ worker'[w].pc \in {"accepted", "refused"}
           /\ \/ Take(Payload(worker[w].batch)) /\ (worker'[w].pc = "accepted" \/ Faults)
              \/ UNCHANGED accepted /\ worker'[w].pc = "refused"
           /\ UNCHANGED <<tables, producer, operator, counters>>
<1>1. worker \in [Worker -> WorkerRow] /\ worker[w] \in WorkerRow
    BY DEF Inv, TypeOK, WorkerRow
<1>2. PICK pc \in {"accepted", "refused"} :
         /\ worker' = [worker EXCEPT ![w].pc = pc]
         /\ \/ Take(Payload(worker[w].batch)) /\ (pc = "accepted" \/ Faults)
            \/ UNCHANGED accepted /\ pc = "refused"
    BY DEF RetrySend
<1>3. /\ worker' \in [Worker -> WorkerRow] /\ worker'[w].pc = pc
      /\ worker'[w].batch = worker[w].batch
      /\ \A v \in Worker : v # w => worker'[v] = worker[v]
    BY <1>1, <1>2 DEF WorkerRow, WorkerPC
<1>4. worker[w].pc = "sending" /\ UNCHANGED <<tables, producer, operator, counters>>
    BY DEF RetrySend
<1> QED BY <1>2, <1>3, <1>4

LEMMA RetrySendKeeps ==
    ASSUME Sensible, Inv, NEW w \in Worker, RetrySend(w)
    PROVE  Inv'
<1>1. /\ worker[w].pc = "sending" /\ worker' \in [Worker -> WorkerRow]
      /\ \A v \in Worker : v # w => worker'[v] = worker[v]
      /\ worker'[w].batch = worker[w].batch
      /\ UNCHANGED <<batch, item, producer, operator, requeues, cleanups, crashes>>
    BY RetrySendFacts DEF tables, counters
<1>2. /\ accepted' \in [Event -> 0..2] /\ \A e \in Event : accepted[e] > 0 => accepted'[e] > 0
      /\ worker'[w].pc = "accepted"
            => \A e \in Event : item[e].batch = worker[w].batch /\ item[e].status = "failed"
                                  => accepted'[e] > 0
    <2>1. CASE Take(Payload(worker[w].batch)) BY <2>1, TakeFacts DEF Inv, Payload
    <2>2. CASE UNCHANGED accepted /\ worker'[w].pc = "refused" BY <2>2 DEF Inv, TypeOK
    <2> QED BY <2>1, <2>2, RetrySendFacts
<1>3. TypeOK' BY <1>1, <1>2 DEF Inv, TypeOK, WorkerRow
<1>4. RowsSound' /\ FailedHasItems' /\ ItemsFollowBatch'
    BY <1>1 DEF Inv, Kept, RowsSound, FailedHasItems, ItemsFollowBatch
<1>5. SentWasAccepted' BY <1>1, <1>2 DEF Inv, Kept, SentWasAccepted
<1>6. ProducersSound' BY <1>1, <1>2 DEF Inv, Kept, ProducersSound, Delivers
<1>7. WorkersSound'
    <2>1. Holds(w) BY <1>1 DEF Holds
    <2>2. \A v \in Worker : Holds(v)'
             => worker'[v].batch \in Batch /\ batch'[worker'[v].batch].status \notin {"free", "pending"}
        BY <1>1, <2>1 DEF Inv, Kept, WorkersSound, Holds
    <2>3. \A v \in Worker, e \in Event :
             /\ worker'[v].pc = "accepted"
             /\ item'[e].batch = worker'[v].batch /\ item'[e].status = "failed"
             => accepted'[e] > 0
        BY <1>1, <1>2 DEF Inv, Kept, WorkersSound
    <2> QED BY <2>2, <2>3 DEF WorkersSound
<1> QED BY <1>3, <1>4, <1>5, <1>6, <1>7 DEF Inv, Kept

LEMMA RetrySentFacts ==
    ASSUME Sensible, Inv, NEW w \in Worker, RetrySent(w)
    PROVE  LET b == worker[w].batch IN
           /\ worker[w].pc = "accepted" /\ b \in Batch
           /\ batch[b].status = "failed" /\ batch[b].token = w
           /\ batch' \in [Batch -> BatchRow] /\ batch'[b].status = "sent" /\ Sound(batch'[b])
           /\ \A c \in Batch : c # b => batch'[c] = batch[c]
           /\ item' \in [Event -> [batch : Batch \cup {None}, status : ItemStatus]]
           /\ \A e \in Event : item'[e].batch = item[e].batch
           /\ \A e \in Event : item'[e].status = IF item[e].batch = b /\ item[e].status = "failed"
                                                THEN "sent" ELSE item[e].status
           /\ worker' \in [Worker -> WorkerRow] /\ ~Holds(w)'
           /\ \A v \in Worker : v # w => worker'[v] = worker[v]
           /\ UNCHANGED <<producer, operator, accepted, counters>>
<1> DEFINE b == worker[w].batch
           k == batch[b].retries + 1
           n == [NoBatch EXCEPT !.status = "sent", !.retries = k]
<1>1. /\ worker[w].pc = "accepted" /\ Owns(w) /\ batch' = [batch EXCEPT ![b] = n]
      /\ Continue(w) /\ SetItems(b, "failed", "sent")
      /\ UNCHANGED <<producer, operator, accepted, counters>>
    BY DEF RetrySent
<1>2. b \in Batch /\ batch[b].status = "failed" /\ batch[b].token = w
    BY <1>1 DEF Holds, Owns, Inv, Kept, WorkersSound
<1>3. batch[b] \in BatchRow /\ Sound(batch[b])
    BY <1>2 DEF Inv, TypeOK, Kept, RowsSound
<1>4. batch[b].retries \in 0..Delays + 1 /\ batch[b].retries <= Delays
    BY <1>2, <1>3 DEF BatchRow, Sound
<1>5. k \in 0..Delays + 1 BY <1>4 DEF Sensible
<1>6. n \in BatchRow /\ n.status = "sent" /\ Sound(n)
    <2>1. "sent" \in BatchStatus /\ "sent" # "failed" BY DEF BatchStatus
    <2> QED BY <1>5, <2>1, EndedRow
<1> HIDE DEF n, k
<1>7. /\ batch' \in [Batch -> BatchRow] /\ batch'[b] = n
      /\ \A c \in Batch : c # b => batch'[c] = batch[c]
    BY <1>1, <1>2, <1>6 DEF Inv, TypeOK
<1>8. worker' \in [Worker -> WorkerRow] /\ \A v \in Worker : v # w => worker'[v] = worker[v]
    BY <1>1, PassFacts DEF Inv
<1>9. worker'[w].pc = "retrying" BY <1>1 DEF Continue, Inv, TypeOK
<1>10. /\ item' \in [Event -> [batch : Batch \cup {None}, status : ItemStatus]]
       /\ \A e \in Event : item'[e].batch = item[e].batch
       /\ \A e \in Event : item'[e].status = IF item[e].batch = b /\ item[e].status = "failed"
                                            THEN "sent" ELSE item[e].status
    BY <1>1, <1>2, SetItemsFacts DEF Inv, ItemStatus
<1> QED BY <1>1, <1>2, <1>6, <1>7, <1>8, <1>9, <1>10 DEF Holds

LEMMA RetrySentKeeps ==
    ASSUME Sensible, Inv, NEW w \in Worker, RetrySent(w)
    PROVE  Inv'
<1> DEFINE b == worker[w].batch
<1>1. /\ worker[w].pc = "accepted" /\ b \in Batch /\ batch[b].status = "failed"
      /\ batch' \in [Batch -> BatchRow] /\ batch'[b].status = "sent" /\ Sound(batch'[b])
      /\ \A c \in Batch : c # b => batch'[c] = batch[c]
    BY RetrySentFacts
<1>2. /\ item' \in [Event -> [batch : Batch \cup {None}, status : ItemStatus]]
      /\ \A e \in Event : item'[e].batch = item[e].batch
      /\ \A e \in Event : item[e].batch = b /\ item[e].status = "failed" => item'[e].status = "sent"
      /\ \A e \in Event : item[e].batch # b \/ item[e].status # "failed"
                            => item'[e].status = item[e].status
    BY RetrySentFacts
<1>3. /\ worker' \in [Worker -> WorkerRow] /\ ~Holds(w)'
      /\ \A v \in Worker : v # w => worker'[v] = worker[v]
      /\ UNCHANGED <<producer, operator, accepted, requeues, cleanups, crashes>>
    BY RetrySentFacts DEF counters
<1> HIDE DEF b
<1>4. TypeOK' BY <1>1, <1>2, <1>3 DEF Inv, TypeOK, WorkerRow
<1>5. RowsSound' BY <1>1 DEF Inv, Kept, RowsSound
<1>6. FailedHasItems'
    <2>1. SUFFICES ASSUME NEW c \in Batch, batch'[c].status \in {"failed", "dead_letter"}
                   PROVE  \E e \in Event : item'[e].batch = c /\ item'[e].status = "failed"
        BY DEF FailedHasItems
    <2>2. c # b /\ batch'[c] = batch[c] BY <1>1, <2>1
    <2>3. PICK e \in Event : item[e].batch = c /\ item[e].status = "failed"
        BY <2>1, <2>2 DEF Inv, Kept, FailedHasItems
    <2> QED BY <1>2, <2>2, <2>3
<1>7. ItemsFollowBatch'
    <2>1. SUFFICES ASSUME NEW e \in Event, item[e].batch # None
                   PROVE  LET status == batch'[item[e].batch].status IN
                          /\ item'[e].status = "sent" => status = "sent"
                          /\ item'[e].status = "failed" => status \in {"failed", "dead_letter"}
                          /\ item'[e].status = "pending" => status = "pending"
        BY <1>2 DEF ItemsFollowBatch
    <2>2. item[e].batch \in Batch BY <2>1 DEF Inv, TypeOK
    <2>3. CASE item[e].batch = b
        <3>1. item[e].status # "pending" BY <1>1, <2>1, <2>3 DEF Inv, Kept, ItemsFollowBatch
        <3>2. item'[e].status \notin {"pending", "failed"} BY <1>2, <2>3, <3>1
        <3> QED BY <1>1, <2>3, <3>2
    <2>4. CASE item[e].batch # b
        BY <1>1, <1>2, <2>1, <2>2, <2>4 DEF Inv, Kept, ItemsFollowBatch
    <2> QED BY <2>3, <2>4
<1>8. SentWasAccepted'
    <2>1. SUFFICES ASSUME NEW e \in Event, item'[e].status = "sent"
                   PROVE  accepted[e] > 0
        BY <1>3 DEF SentWasAccepted
    <2>2. CASE item[e].batch = b /\ item[e].status = "failed"
        BY <1>1, <2>2 DEF Inv, Kept, WorkersSound, b
    <2>3. CASE item[e].batch # b \/ item[e].status # "failed"
        BY <1>2, <2>1, <2>3 DEF Inv, Kept, SentWasAccepted
    <2> QED BY <2>2, <2>3
<1>9. WorkersSound'
    <2>1. \A v \in Worker : Holds(v)' => v # w /\ Holds(v) /\ worker'[v] = worker[v]
        BY <1>3 DEF Holds
    <2>2. \A v \in Worker : Holds(v)'
             => worker'[v].batch \in Batch /\ batch'[worker'[v].batch].status \notin {"free", "pending"}
        BY <1>1, <2>1 DEF Inv, Kept, WorkersSound
    <2>3. \A v \in Worker, e \in Event :
             /\ worker'[v].pc = "accepted"
             /\ item'[e].batch = worker'[v].batch /\ item'[e].status = "failed"
             => accepted'[e] > 0
        BY <1>2, <1>3, <2>1 DEF Inv, Kept, WorkersSound, Holds
    <2> QED BY <2>2, <2>3 DEF WorkersSound
<1>10. ProducersSound'
    <2>1. \A q \in Producer : Delivers(q)
             => producer[q].batch \in Batch /\ batch[producer[q].batch].status = "pending"
                /\ producer[q].batch # b
        BY <1>1 DEF Inv, Kept, ProducersSound
    <2>2. \A q \in Producer : Delivers(q)
             => producer[q].batch \in Batch /\ batch'[producer[q].batch].status = "pending"
        BY <1>1, <2>1
    <2>3. \A q \in Producer : producer[q].pc \in {"counted", "sending", "accepted", "refused"}
             => \E e \in Event : item'[e].batch = producer[q].batch /\ item'[e].status = "pending"
        <3>1. \A q \in Producer : producer[q].pc \in {"counted", "sending", "accepted", "refused"}
                 => \E e \in Event : item[e].batch = producer[q].batch /\ item[e].status = "pending"
            BY DEF Inv, Kept, ProducersSound
        <3>2. \A e \in Event : item[e].status = "pending" => item'[e].status = "pending"
            BY <1>2
        <3> QED BY <1>2, <3>1, <3>2
    <2>4. \A q \in Producer, e \in Event :
             /\ producer[q].pc = "accepted"
             /\ item'[e].batch = producer[q].batch /\ item'[e].status = "pending"
             => accepted[e] > 0
        BY <1>2, <2>1 DEF Inv, Kept, ProducersSound, Delivers
    <2>5. \A q, r \in Producer : q # r /\ Delivers(q) /\ Delivers(r)
             => producer[q].batch # producer[r].batch
        BY DEF Inv, Kept, ProducersSound
    <2> QED BY <1>3, <2>2, <2>3, <2>4, <2>5 DEF ProducersSound, Delivers
<1> QED BY <1>4, <1>5, <1>6, <1>7, <1>8, <1>9, <1>10 DEF Inv, Kept

LEMMA CleanupKeeps ==
    ASSUME Sensible, Inv, NEW b \in Batch, Cleanup(b)
    PROVE  Inv'
<1>1. PICK n : n = [NoBatch EXCEPT !.status = "deleted"] OBVIOUS
<1>2. n \in BatchRow /\ n.status = "deleted" /\ Sound(n)
    <2>1. NoBatch \in BatchRow /\ Sound(NoBatch) /\ NoBatch.status = "free"
        BY NoBatchRow DEF NoBatch
    <2>2. "deleted" \in BatchStatus BY DEF BatchStatus
    <2> QED BY <1>1, <2>1, <2>2, StatusRow
<1>3. /\ batch' \in [Batch -> BatchRow] /\ batch'[b] = n
      /\ \A c \in Batch : c # b => batch'[c] = batch[c]
    BY <1>1, <1>2 DEF Cleanup, Inv, TypeOK
<1>4. /\ \A q \in Producer : producer[q].batch # b
      /\ \A w \in Worker : worker[w].batch # b
      /\ UNCHANGED <<producer, worker, operator, accepted, requeues, crashes>>
      /\ cleanups' \in 0..MaxCleanups
    BY DEF Cleanup, Inv, TypeOK, Sensible
<1>5. NoItem \in [batch : Batch \cup {None}, status : ItemStatus]
      /\ NoItem.batch = None /\ NoItem.status = "none"
    BY DEF NoItem, ItemStatus
<1>6. /\ item' \in [Event -> [batch : Batch \cup {None}, status : ItemStatus]]
      /\ \A e \in Event : item[e].batch = b => item'[e] = NoItem
      /\ \A e \in Event : item[e].batch # b => item'[e] = item[e]
    BY <1>5 DEF Cleanup, Inv, TypeOK
<1>7. TypeOK' BY <1>3, <1>4, <1>6 DEF Inv, TypeOK
<1>8. RowsSound' BY <1>2, <1>3 DEF Inv, Kept, RowsSound
<1>9. FailedHasItems'
    <2>1. SUFFICES ASSUME NEW c \in Batch, batch'[c].status \in {"failed", "dead_letter"}
                   PROVE  \E e \in Event : item'[e].batch = c /\ item'[e].status = "failed"
        BY DEF FailedHasItems
    <2>2. c # b /\ batch'[c] = batch[c] BY <1>2, <1>3, <2>1
    <2>3. PICK e \in Event : item[e].batch = c /\ item[e].status = "failed"
        BY <2>1, <2>2 DEF Inv, Kept, FailedHasItems
    <2> QED BY <1>6, <2>2, <2>3
<1>10. ItemsFollowBatch'
    <2>1. \A e \in Event : item'[e].batch # None
             => item'[e] = item[e] /\ item[e].batch \in Batch /\ item[e].batch # b
        BY <1>5, <1>6 DEF Inv, TypeOK
    <2> QED BY <1>3, <2>1 DEF Inv, Kept, ItemsFollowBatch
<1>11. SentWasAccepted' BY <1>4, <1>5, <1>6 DEF Inv, Kept, SentWasAccepted
<1>12. WorkersSound'
    BY <1>3, <1>4, <1>5, <1>6 DEF Inv, Kept, WorkersSound, Holds
<1>13. ProducersSound'
    <2>1. \A q \in Producer : Delivers(q)
             => producer[q].batch \in Batch /\ batch'[producer[q].batch].status = "pending"
        BY <1>3, <1>4 DEF Inv, Kept, ProducersSound
    <2>2. \A q \in Producer : producer[q].pc \in {"counted", "sending", "accepted", "refused"}
             => \E e \in Event : item'[e].batch = producer[q].batch /\ item'[e].status = "pending"
        BY <1>4, <1>6 DEF Inv, Kept, ProducersSound
    <2>3. \A q \in Producer, e \in Event :
             /\ producer[q].pc = "accepted"
             /\ item'[e].batch = producer[q].batch /\ item'[e].status = "pending"
             => accepted[e] > 0
        BY <1>4, <1>5, <1>6 DEF Inv, Kept, ProducersSound
    <2>4. \A q, r \in Producer : q # r /\ Delivers(q) /\ Delivers(r)
             => producer[q].batch # producer[r].batch
        BY DEF Inv, Kept, ProducersSound
    <2> QED BY <1>4, <2>1, <2>2, <2>3, <2>4 DEF ProducersSound, Delivers
<1> QED BY <1>7, <1>8, <1>9, <1>10, <1>11, <1>12, <1>13 DEF Inv, Kept

LEMMA CrashKeeps ==
    ASSUME Sensible, Inv, Crash
    PROVE  Inv'
<1>1. /\ producer' = [p \in Producer |-> [pc |-> "idle", batch |-> None]]
      /\ worker' = [w \in Worker |-> Resting] /\ operator' = [o \in Operator |-> None]
      /\ UNCHANGED <<batch, item, accepted, requeues, cleanups>> /\ crashes' \in 0..MaxCrashes
    BY DEF Crash, tables, Inv, TypeOK, Sensible
<1>2. Resting \in WorkerRow /\ Resting.pc = "idle" BY RestingFacts
<1>3. \A p \in Producer : producer'[p].pc = "idle" BY <1>1
<1>4. \A w \in Worker : worker'[w].pc = "idle" BY <1>1, <1>2
<1>5. TypeOK' BY <1>1, <1>2 DEF Inv, TypeOK, WorkerRow, ProducerPC
<1>6. RowsSound' /\ FailedHasItems' /\ ItemsFollowBatch' /\ SentWasAccepted'
    BY <1>1 DEF Inv, Kept, RowsSound, FailedHasItems, ItemsFollowBatch, SentWasAccepted
<1>7. ProducersSound' BY <1>3 DEF ProducersSound, Delivers
<1>8. WorkersSound' BY <1>4 DEF WorkersSound, Holds
<1> QED BY <1>5, <1>6, <1>7, <1>8 DEF Inv, Kept

-----------------------------------------------------------------------------
(* The invariant                                                           *)

LEMMA InitInv ==
    ASSUME Sensible, Init
    PROVE  Inv
<1>1. NoBatch \in BatchRow /\ Sound(NoBatch) /\ NoBatch.status = "free"
    BY NoBatchRow DEF NoBatch
<1>2. NoItem.batch = None /\ NoItem.status = "none"
      /\ NoItem \in [batch : Batch \cup {None}, status : ItemStatus]
    BY DEF NoItem, ItemStatus
<1>3. Resting \in WorkerRow /\ Resting.pc = "idle" BY RestingFacts
<1>4. TypeOK BY <1>1, <1>2, <1>3 DEF Init, TypeOK, WorkerRow, ProducerPC, Sensible
<1>5. RowsSound /\ FailedHasItems BY <1>1 DEF Init, RowsSound, FailedHasItems
<1>6. ItemsFollowBatch /\ SentWasAccepted BY <1>2 DEF Init, ItemsFollowBatch, SentWasAccepted
<1>7. ProducersSound /\ WorkersSound
    BY <1>3 DEF Init, ProducersSound, Delivers, WorkersSound, Holds
<1> QED BY <1>4, <1>5, <1>6, <1>7 DEF Inv, Kept

\* The steps of Next, in the groups the lemmas above are about.
LEMMA NextCases ==
    ASSUME Next
    PROVE  \/ \E p \in Producer, b \in Batch, events, eligible \in SUBSET Event :
                 Create(p, b, events, eligible)
           \/ \E p \in Producer : DeliverStep(p)
           \/ Quiet
           \/ \E w \in Worker : RetrySend(w) \/ RetrySent(w)
           \/ \E b \in Batch : Cleanup(b)
           \/ Crash
BY DEF Next, WorkerStep, Quiet

LEMMA StepInv ==
    ASSUME Sensible, Inv, [Next]_vars
    PROVE  Inv'
<1>1. CASE UNCHANGED vars
    BY <1>1 DEF vars, tables, counters, Inv, TypeOK, Kept, RowsSound, FailedHasItems,
                ItemsFollowBatch, SentWasAccepted, ProducersSound, Delivers, WorkersSound, Holds
<1>2. CASE Next
    BY <1>2, NextCases, CreateKeeps, DeliverKeeps, QuietStep, RetrySendKeeps, RetrySentKeeps,
       CleanupKeeps, CrashKeeps
<1> QED BY <1>1, <1>2

LEMMA Invariance ==
    ASSUME Sensible
    PROVE  Spec => []Inv
<1>1. Init => Inv BY InitInv
<1>2. Inv /\ [Next]_vars => Inv' BY StepInv
<1> QED BY <1>1, <1>2, PTL DEF Spec

\* Who writes a row: its first delivery, a requeue or a claim while no lease is
\* live, the pass whose claim it carries, time, or the cleanup.
LEMMA WhoWrites ==
    ASSUME Sensible, Inv, [Next]_vars, NEW c \in Batch, batch'[c] # batch[c]
    PROVE  \/ batch[c].status \in {"free", "pending"}
           \/ Requeueable(c) /\ batch'[c].status = "failed"
           \/ \E w \in Worker : /\ batch[c].status = "failed" /\ batch[c].token = w
                               /\ worker[w].batch = c /\ worker'[w].batch # c
           \/ batch'[c].status = batch[c].status /\ batch'[c].retries = batch[c].retries
           \/ batch'[c].status = "deleted" /\ batch[c].lease # "live"
<1>0. batch \in [Batch -> BatchRow] BY DEF Inv, TypeOK
<1>1. ASSUME NEW p \in Producer, NEW b \in Batch, NEW events, NEW eligible,
             Create(p, b, events, eligible)
      PROVE  batch[c].status = "free"
    BY <1>0, <1>1 DEF Create
<1>2. ASSUME NEW p \in Producer, DeliverStep(p)
      PROVE  batch[c].status = "pending"
    <2>1. Delivers(p)
        BY <1>2 DEF DeliverStep, StoreCounts, Suppress, BeginSend, Send, StoreSent, StoreFailed,
                    DeliverFails, Delivers
    <2>2. batch[producer[p].batch].status = "pending" BY <2>1, OwnBatch
    <2>3. c = producer[p].batch
        BY <1>0, <1>2 DEF DeliverStep, StoreCounts, Suppress, BeginSend, Send, StoreSent, StoreFailed,
                    DeliverFails, tables
    <2> QED BY <2>2, <2>3
<1>3. ASSUME NEW b \in Batch, Requeueable(b), batch' = [batch EXCEPT ![b] = Requeued(@)]
      PROVE  Requeueable(c) /\ batch'[c].status = "failed"
    BY <1>0, <1>3, RequeueFacts
<1>4. ASSUME NEW o \in Operator, RequeueStep(o) \/ \E b \in Batch : RequeueRead(o, b)
      PROVE  Requeueable(c) /\ batch'[c].status = "failed"
    <2>1. RequeueWrite(o) BY <1>4 DEF RequeueStep, RequeueRead, RequeueRefused, tables
    <2>2. operator[o] \in Batch BY <2>1 DEF Inv, TypeOK, RequeueWrite
    <2> QED BY <1>3, <2>1, <2>2 DEF RequeueWrite
<1>5. ASSUME NEW w \in Worker,
             \/ RecoverBegin(w) \/ RetryBegin(w) \/ RetryAborts(w) \/ RetryEnd(w) \/ RetrySend(w)
             \/ \E b \in Batch : Recover(w, b) \/ ClaimMissed(w, b)
      PROVE  Requeueable(c) /\ batch'[c].status = "failed"
    BY <1>3, <1>5 DEF RecoverBegin, RetryBegin, RetryAborts, RetryEnd, RetrySend, Recover,
                      ClaimMissed, tables
<1>6. ASSUME NEW w \in Worker, NEW b \in Batch, Claim(w, b)
      PROVE  Requeueable(c) /\ batch'[c].status = "failed"
    BY <1>6, ClaimFacts DEF Requeueable
<1>7. ASSUME NEW w \in Worker, RetrySent(w) \/ \E t \in BOOLEAN : RetryFailed(w, t)
      PROVE  /\ batch[c].status = "failed" /\ batch[c].token = w
             /\ worker[w].batch = c /\ worker'[w].batch # c
    <2>1. Continue(w) BY <1>7 DEF RetrySent, RetryFailed
    <2>2. worker'[w].batch = None BY <2>1 DEF Continue, Inv, TypeOK
    <2>3. batch[c].status = "failed" /\ batch[c].token = w /\ worker[w].batch = c
        BY <1>7, RetrySentFacts, RetryFailedFacts
    <2> QED BY <2>2, <2>3 DEF Sensible
<1>8. ASSUME NEW b \in Batch, Elapse(b) \/ Age(b) \/ Expire(b)
      PROVE  batch'[c].status = batch[c].status /\ batch'[c].retries = batch[c].retries
    BY <1>8, TimeFacts
<1>9. ASSUME NEW b \in Batch, Cleanup(b)
      PROVE  batch'[c].status = "deleted" /\ batch[c].lease # "live"
    BY <1>0, <1>9 DEF Cleanup, NoBatch
<1>10. ~Crash /\ ~UNCHANGED vars BY DEF Crash, vars, tables
<1> QED BY <1>1, <1>2, <1>4, <1>5, <1>6, <1>7, <1>8, <1>9, <1>10, NextCases DEF Quiet

-----------------------------------------------------------------------------
(* Theorems                                                                *)

\* Every variable keeps its type.
THEOREM TypeCorrect ==
    ASSUME Sensible
    PROVE  Spec => []TypeOK
BY Invariance, PTL DEF Inv

\* RetryDue sees every failed batch, and claimDueBatch never meets one without
\* failed items.
THEOREM FailedRetryable ==
    ASSUME Sensible
    PROVE  Spec => []FailedIsRetryable
<1>1. Inv => FailedIsRetryable
    BY DEF Inv, Kept, RowsSound, Sound, FailedHasItems, FailedIsRetryable, ItemsOf
<1> QED BY <1>1, Invariance, PTL

\* No event is reported as sent that Telegram did not take, however leases are
\* lost and wherever the process dies.
THEOREM SentAccepted ==
    ASSUME Sensible
    PROVE  Spec => []SentWasAccepted
<1>1. Inv => SentWasAccepted BY DEF Inv, Kept
<1> QED BY <1>1, Invariance, PTL

\* An item and the batch it is in never contradict each other.
THEOREM ItemsAgree ==
    ASSUME Sensible
    PROVE  Spec => []ItemsFollowBatch
<1>1. Inv => ItemsFollowBatch BY DEF Inv, Kept
<1> QED BY <1>1, Invariance, PTL

\* No stale requeue, late retry or expired lease reopens what is settled.
THEOREM SettledKept ==
    ASSUME Sensible
    PROVE  Spec => SettledStays
<1>1. ASSUME Inv, [Next]_vars, NEW b \in Batch, batch[b].status \in {"sent", "suppressed"}
      PROVE  batch'[b].status \in {batch[b].status, "deleted"}
    BY <1>1, WhoWrites DEF Requeueable
<1>2. Inv /\ [Next]_vars
        => [\A b \in Batch : batch[b].status \in {"sent", "suppressed"}
                               => batch'[b].status \in {batch[b].status, "deleted"}]_vars
    BY <1>1
<1> QED BY <1>2, Invariance, PTL DEF Spec, SettledStays

\* Under a live lease only its owner counts a retry.
THEOREM CountedOnce ==
    ASSUME Sensible
    PROVE  Spec => ClaimedCountsOnce
<1>1. ASSUME Inv, [Next]_vars, NEW b \in Batch,
             batch[b].lease = "live", batch[b].retries # batch'[b].retries
      PROVE  \E w \in Worker : /\ worker[w].batch = b /\ batch[b].token = w
                              /\ worker'[w].batch # b
    <2>1. batch[b].status \notin {"free", "pending"}
        BY <1>1 DEF Inv, Kept, RowsSound, Sound
    <2> QED BY <1>1, <2>1, WhoWrites DEF Requeueable
<1>2. Inv /\ [Next]_vars
        => [\A b \in Batch : batch[b].lease = "live" /\ batch[b].retries # batch'[b].retries
               => \E w \in Worker : /\ worker[w].batch = b /\ batch[b].token = w
                                   /\ worker'[w].batch # b]_vars
    BY <1>1
<1> QED BY <1>2, Invariance, PTL DEF Spec, ClaimedCountsOnce

-----------------------------------------------------------------------------
(* No event twice, while leases outlive their owners and nothing fails     *)

\* The passes end within their leases, statements and replies arrive, and no
\* batch is old enough for the cleanup.
Gentle == Faults = FALSE /\ LeaseExpiry = FALSE /\ MaxCleanups = 0

\* A pass that holds a batch owns it under a live lease.
HoldersOwn ==
    \A w \in Worker : Holds(w)
        => /\ batch[worker[w].batch].status = "failed"
           /\ batch[worker[w].batch].lease = "live"
           /\ batch[worker[w].batch].token = w

TakenOnce == \A e \in Event : accepted[e] <= 1

NewUntaken ==
    \A e \in Event : item[e].status = "none" => accepted[e] = 0 /\ item[e].batch = None

\* An event Telegram took and that is not marked yet is in the hands of the call
\* or the pass that sent it.
TakenByCall ==
    \A e \in Event : item[e].status = "pending" /\ accepted[e] > 0
        => \E p \in Producer : producer[p].pc = "accepted" /\ producer[p].batch = item[e].batch

TakenByPass ==
    \A e \in Event : item[e].status = "failed" /\ accepted[e] > 0
        => \E w \in Worker : worker[w].pc = "accepted" /\ worker[w].batch = item[e].batch

Calm == HoldersOwn /\ TakenOnce /\ NewUntaken /\ TakenByCall /\ TakenByPass

LEMMA CalmCreate ==
    ASSUME Sensible, Inv, Calm, NEW p \in Producer, NEW b \in Batch,
           NEW events \in SUBSET Event, NEW eligible \in SUBSET Event,
           Create(p, b, events, eligible)
    PROVE  Calm'
<1>1. /\ batch[b].status = "free" /\ producer[p].pc = "idle"
      /\ \A c \in Batch : c # b => batch'[c] = batch[c]
      /\ \A q \in Producer : q # p => producer'[q] = producer[q]
      /\ UNCHANGED <<worker, accepted>>
    BY DEF Create, Inv, TypeOK
<1>2. \A w \in Worker : Holds(w) => worker[w].batch \in Batch /\ worker[w].batch # b
    BY <1>1 DEF Inv, Kept, WorkersSound
<1>3. \A e \in Event : \/ item'[e] = item[e]
                       \/ /\ item[e].status = "none"
                          /\ item'[e].status \in {"pending", "suppressed"}
    BY DEF Create, NoItem
<1>4. HoldersOwn' BY <1>1, <1>2 DEF Calm, HoldersOwn, Holds
<1>5. TakenOnce' /\ NewUntaken' BY <1>1, <1>3 DEF Calm, TakenOnce, NewUntaken
<1>6. TakenByCall'
    <2>1. SUFFICES ASSUME NEW e \in Event, item'[e].status = "pending", accepted[e] > 0
                   PROVE  \E q \in Producer : /\ producer'[q].pc = "accepted"
                                             /\ producer'[q].batch = item'[e].batch
        BY <1>1 DEF TakenByCall
    <2>2. item'[e] = item[e] BY <1>3, <2>1 DEF Calm, NewUntaken
    <2>3. PICK q \in Producer : producer[q].pc = "accepted" /\ producer[q].batch = item[e].batch
        BY <2>1, <2>2 DEF Calm, TakenByCall
    <2> QED BY <1>1, <2>2, <2>3
<1>7. TakenByPass' BY <1>1, <1>3 DEF Calm, TakenByPass
<1> QED BY <1>4, <1>5, <1>6, <1>7 DEF Calm

\* What a call is about to send, or has seen refused, Telegram does not have.
LEMMA NotYetTaken ==
    ASSUME Sensible, Inv, Calm, NEW p \in Producer, Delivers(p), producer[p].pc # "accepted",
           NEW e \in Event, item[e].batch = producer[p].batch, item[e].status = "pending"
    PROVE  accepted[e] = 0
<1>1. ASSUME accepted[e] > 0
      PROVE  FALSE
    <2>1. PICK q \in Producer : producer[q].pc = "accepted" /\ producer[q].batch = item[e].batch
        BY <1>1 DEF Calm, TakenByCall
    <2>2. q # p /\ Delivers(q) BY <2>1 DEF Delivers
    <2> QED BY <2>1, <2>2, OwnBatch
<1> QED BY <1>1 DEF Inv, TypeOK

LEMMA CalmDeliver ==
    ASSUME Sensible, Gentle, Inv, Calm, NEW p \in Producer, DeliverStep(p)
    PROVE  Calm'
<1> DEFINE b == producer[p].batch
<1>0. Delivers(p)
    BY DEF DeliverStep, StoreCounts, Suppress, BeginSend, Send, StoreSent, StoreFailed,
           DeliverFails, Delivers
<1>1. /\ b \in Batch /\ batch[b].status = "pending"
      /\ \A w \in Worker : Holds(w) => worker[w].batch # b
      /\ \A q \in Producer : q # p /\ Delivers(q) => producer[q].batch # b
      /\ \A e \in Event : item[e].batch = b => item[e].status \notin {"sent", "failed"}
    BY <1>0, OwnBatch
<1>2. UNCHANGED worker /\ \A c \in Batch : c # b => batch'[c] = batch[c]
    BY DEF DeliverStep, StoreCounts, Suppress, BeginSend, Send, StoreSent, StoreFailed,
           DeliverFails, tables, Inv, TypeOK
<1>3. HoldersOwn'
    <2>1. \A w \in Worker : Holds(w) => worker[w].batch \in Batch
        BY DEF Inv, Kept, WorkersSound
    <2> QED BY <1>1, <1>2, <2>1 DEF Calm, HoldersOwn, Holds
<1>4. \A q \in Producer : q # p => producer'[q] = producer[q]
    BY DEF DeliverStep, StoreCounts, Suppress, BeginSend, Send, StoreSent, StoreFailed,
           DeliverFails, Leave, Inv, TypeOK
<1>5. producer[p].pc # "accepted" => \A e \in Event : item[e].batch = b /\ item[e].status = "pending"
                                                   => accepted[e] = 0
    BY <1>0, NotYetTaken
<1>6. CASE UNCHANGED <<item, accepted>> /\ producer[p].pc # "accepted"
    BY <1>2, <1>3, <1>4, <1>6 DEF Calm, TakenOnce, NewUntaken, TakenByCall, TakenByPass
<1>7. CASE Send(p)
    <2>1. UNCHANGED item /\ producer[p].pc = "sending" /\ producer'[p].batch = b
          /\ producer'[p].pc \in {"accepted", "refused"}
          /\ \/ Take(Payload(b)) /\ producer'[p].pc = "accepted"
             \/ UNCHANGED accepted
        BY <1>7 DEF Send, Gentle, tables, Inv, TypeOK
    <2>2. ASSUME NEW e \in Event, e \in Payload(b)
          PROVE  item[e].status = "pending" /\ item[e].batch = b /\ accepted[e] = 0
        <3>1. item[e].batch = b /\ item[e].status # "suppressed" BY <2>2 DEF Payload
        <3>2. item[e].status # "none" BY <1>1, <3>1 DEF Calm, NewUntaken, Sensible
        <3>3. item[e].status \in ItemStatus BY DEF Inv, TypeOK
        <3>4. item[e].status = "pending" BY <1>1, <3>1, <3>2, <3>3 DEF ItemStatus
        <3> QED BY <1>5, <2>1, <3>1, <3>4
    <2>3. /\ \A e \in Event : e \notin Payload(b) => accepted'[e] = accepted[e]
          /\ \A e \in Event : accepted'[e] <= 1
          /\ (\E e \in Event : accepted'[e] # accepted[e]) => producer'[p].pc = "accepted"
        <3>1. CASE Take(Payload(b)) /\ producer'[p].pc = "accepted"
            BY <2>2, <3>1, TakeFacts DEF Inv, Calm, TakenOnce
        <3>2. CASE UNCHANGED accepted BY <3>2 DEF Calm, TakenOnce
        <3> QED BY <2>1, <3>1, <3>2
    <2>4. TakenOnce' BY <2>3 DEF TakenOnce
    <2>5. NewUntaken' BY <2>1, <2>2, <2>3 DEF Calm, NewUntaken
    <2>6. TakenByPass' BY <1>2, <2>1, <2>2, <2>3 DEF Calm, TakenByPass
    <2>7. TakenByCall'
        <3>1. SUFFICES ASSUME NEW e \in Event, item[e].status = "pending", accepted'[e] > 0
                       PROVE  \E q \in Producer : /\ producer'[q].pc = "accepted"
                                                 /\ producer'[q].batch = item[e].batch
            BY <2>1 DEF TakenByCall
        <3>2. CASE accepted'[e] = accepted[e]
            <4>1. PICK q \in Producer : producer[q].pc = "accepted" /\ producer[q].batch = item[e].batch
                BY <3>1, <3>2 DEF Calm, TakenByCall
            <4> QED BY <1>4, <2>1, <4>1
        <3>3. CASE accepted'[e] # accepted[e]
            BY <2>1, <2>2, <2>3, <3>3
        <3> QED BY <3>2, <3>3
    <2> QED BY <1>3, <2>4, <2>5, <2>6, <2>7 DEF Calm
<1>8. ASSUME NEW to \in ItemStatus, SetItems(b, "pending", to), to \notin {"none", "pending"},
             UNCHANGED accepted, to = "failed" => producer[p].pc # "accepted"
      PROVE  Calm'
    <2>1. /\ \A e \in Event : item'[e].batch = item[e].batch
          /\ \A e \in Event : item'[e].status = IF item[e].batch = b /\ item[e].status = "pending"
                                               THEN to ELSE item[e].status
        BY <1>1, <1>8, SetItemsFacts DEF Inv, ItemStatus
    <2>2. TakenOnce' BY <1>8 DEF Calm, TakenOnce
    <2>3. NewUntaken' BY <1>8, <2>1 DEF Calm, NewUntaken
    <2>4. TakenByPass' BY <1>2, <1>5, <1>8, <2>1 DEF Calm, TakenByPass
    <2>5. TakenByCall'
        <3>1. SUFFICES ASSUME NEW e \in Event, item'[e].status = "pending", accepted[e] > 0
                       PROVE  \E q \in Producer : /\ producer'[q].pc = "accepted"
                                                 /\ producer'[q].batch = item[e].batch
            BY <1>8, <2>1 DEF TakenByCall
        <3>2. item[e].status = "pending" /\ item[e].batch # b BY <1>8, <2>1, <3>1
        <3>3. PICK q \in Producer : producer[q].pc = "accepted" /\ producer[q].batch = item[e].batch
            BY <3>1, <3>2 DEF Calm, TakenByCall
        <3> QED BY <1>4, <3>2, <3>3
    <2> QED BY <1>3, <2>2, <2>3, <2>4, <2>5 DEF Calm
<1>9. CASE Suppress(p) BY <1>8, <1>9 DEF Suppress, ItemStatus
<1>10. CASE StoreSent(p) BY <1>8, <1>10 DEF StoreSent, ItemStatus
<1>11. ASSUME NEW t \in BOOLEAN, StoreFailed(p, t) PROVE Calm'
    BY <1>8, <1>11 DEF StoreFailed, ItemStatus
<1> QED BY <1>6, <1>7, <1>9, <1>10, <1>11
        DEF DeliverStep, StoreCounts, BeginSend, DeliverFails, Gentle, tables

\* The owners stay owners and the accepted stay accepted.
LEMMA CalmPasses ==
    ASSUME Calm, UNCHANGED <<item, producer, accepted>>,
           \A v \in Worker : Holds(v)'
              => /\ batch'[worker'[v].batch].status = "failed"
                 /\ batch'[worker'[v].batch].lease = "live"
                 /\ batch'[worker'[v].batch].token = v,
           \A v \in Worker : worker[v].pc = "accepted" => worker'[v] = worker[v]
    PROVE  Calm'
<1>1. HoldersOwn' BY DEF HoldersOwn
<1>2. TakenByPass' BY DEF Calm, TakenByPass
<1> QED BY <1>1, <1>2 DEF Calm, TakenOnce, NewUntaken, TakenByCall

LEMMA CalmQuiet ==
    ASSUME Sensible, Gentle, Inv, Calm, Quiet
    PROVE  Calm'
<1> DEFINE Own == \A v \in Worker : Holds(v)'
              => /\ batch'[worker'[v].batch].status = "failed"
                 /\ batch'[worker'[v].batch].lease = "live"
                 /\ batch'[worker'[v].batch].token = v
           Stay == \A v \in Worker : worker[v].pc = "accepted" => worker'[v] = worker[v]
<1>1. /\ batch \in [Batch -> BatchRow]
      /\ \A v \in Worker : Holds(v)
            => /\ worker[v].batch \in Batch /\ batch[worker[v].batch].status = "failed"
               /\ batch[worker[v].batch].lease = "live" /\ batch[worker[v].batch].token = v
    BY DEF Inv, TypeOK, Kept, WorkersSound, Calm, HoldersOwn
<1>2. ASSUME NEW o \in Operator, RequeueStep(o) \/ \E b \in Batch : RequeueRead(o, b)
      PROVE  Own /\ Stay /\ UNCHANGED <<item, producer, accepted>>
    <2>1. UNCHANGED <<item, producer, accepted, worker>>
        BY <1>2 DEF RequeueStep, RequeueRead, RequeueWrite, RequeueRefused, tables
    <2>2. \A c \in Batch : batch[c].lease = "live" => batch'[c] = batch[c]
        BY <1>1, <1>2 DEF RequeueStep, RequeueRead, RequeueWrite, RequeueRefused, Requeueable, tables
    <2> QED BY <1>1, <2>1, <2>2 DEF Holds
<1>3. ASSUME NEW w \in Worker,
             \/ RecoverBegin(w) \/ RetryBegin(w) \/ RetryAborts(w) \/ RetryEnd(w)
             \/ \E b \in Batch : Recover(w, b) \/ ClaimMissed(w, b)
      PROVE  Own /\ Stay /\ UNCHANGED <<item, producer, accepted>>
    <2>1. ~RetryAborts(w)
        BY <1>1 DEF RetryAborts, Gentle, Owns, Holds
    <2>2. ~Holds(w)
        BY <1>3, <2>1 DEF RecoverBegin, RetryBegin, RetryEnd, Recover, ClaimMissed, Holds
    <2>3. ~Holds(w)' /\ \A v \in Worker : v # w => worker'[v] = worker[v]
        BY <1>3, <2>2, PassFacts DEF Inv
    <2>4. UNCHANGED <<item, producer, accepted>>
        BY <1>3, <2>1 DEF RecoverBegin, RetryBegin, RetryEnd, Recover, ClaimMissed, tables
    <2>5. \A c \in Batch : batch[c].lease = "live" => batch'[c] = batch[c]
        BY <1>1, <1>3, <2>1
           DEF RecoverBegin, RetryBegin, RetryEnd, Recover, ClaimMissed, Requeueable, tables
    <2> QED BY <1>1, <2>2, <2>3, <2>4, <2>5 DEF Holds
<1>4. ASSUME NEW w \in Worker, NEW b \in Batch, Claim(w, b)
      PROVE  Own /\ Stay /\ UNCHANGED <<item, producer, accepted>>
    <2>1. worker[w].pc = "retrying" BY <1>4 DEF Claim
    <2>2. \A v \in Worker : v # w /\ Holds(v) => worker[v].batch # b
        BY <1>1, <1>4, ClaimFacts
    <2>3. /\ batch'[b].status = "failed" /\ batch'[b].lease = "live" /\ batch'[b].token = w
          /\ worker'[w].batch = b /\ \A v \in Worker : v # w => worker'[v] = worker[v]
          /\ \A c \in Batch : c # b => batch'[c] = batch[c]
          /\ UNCHANGED <<item, producer, accepted>>
        BY <1>4, ClaimFacts
    <2> QED BY <1>1, <2>1, <2>2, <2>3 DEF Holds
<1>5. ASSUME NEW w \in Worker, NEW t \in BOOLEAN, RetryFailed(w, t)
      PROVE  Own /\ Stay /\ UNCHANGED <<item, producer, accepted>>
    <2>1. worker[w].pc = "refused" BY <1>5 DEF RetryFailed
    <2>2. \A v \in Worker : v # w /\ Holds(v) => worker[v].batch # worker[w].batch
        BY <1>1, <1>5, RetryFailedFacts
    <2>3. /\ ~Holds(w)' /\ \A v \in Worker : v # w => worker'[v] = worker[v]
          /\ \A c \in Batch : c # worker[w].batch => batch'[c] = batch[c]
          /\ UNCHANGED <<item, producer, accepted>>
        BY <1>5, RetryFailedFacts
    <2> QED BY <1>1, <2>1, <2>2, <2>3 DEF Holds
<1>6. ASSUME NEW b \in Batch, Elapse(b) \/ Age(b) \/ Expire(b)
      PROVE  Own /\ Stay /\ UNCHANGED <<item, producer, accepted>>
    <2>1. Expire(b) => \A v \in Worker : worker[v].batch # b
        BY DEF Expire, Gentle
    <2>2. /\ UNCHANGED <<item, producer, worker, accepted>>
          /\ \A c \in Batch : c # b => batch'[c] = batch[c]
          /\ batch'[b].status = batch[b].status
          /\ Expire(b) \/ (batch'[b].lease = batch[b].lease /\ batch'[b].token = batch[b].token)
        BY <1>6, TimeFacts
    <2> QED BY <1>1, <2>1, <2>2 DEF Holds
<1> QED BY <1>2, <1>3, <1>4, <1>5, <1>6, CalmPasses DEF Quiet

LEMMA CalmRetrySend ==
    ASSUME Sensible, Gentle, Inv, Calm, NEW w \in Worker, RetrySend(w)
    PROVE  Calm'
<1> DEFINE b == worker[w].batch
<1>1. /\ worker[w].pc = "sending" /\ worker'[w].batch = b
      /\ worker'[w].pc \in {"accepted", "refused"}
      /\ \A v \in Worker : v # w => worker'[v] = worker[v]
      /\ \/ Take(Payload(b)) /\ worker'[w].pc = "accepted"
         \/ UNCHANGED accepted
      /\ UNCHANGED <<batch, item, producer>>
    BY RetrySendFacts DEF Gentle, tables
<1>2. /\ b \in Batch /\ batch[b].status = "failed" /\ batch[b].token = w /\ Holds(w)
      /\ \A v \in Worker : v # w /\ Holds(v) => worker[v].batch # b
    BY <1>1 DEF Holds, Calm, HoldersOwn, Inv, Kept, WorkersSound
<1>3. HoldersOwn' BY <1>1, <1>2 DEF Calm, HoldersOwn, Holds
<1>4. ASSUME NEW e \in Event, e \in Payload(b)
      PROVE  item[e].status = "failed" /\ item[e].batch = b /\ accepted[e] = 0
    <2>1. item[e].batch = b /\ item[e].status # "suppressed" BY <1>4 DEF Payload
    <2>2. item[e].status # "none" /\ item[e].batch # None
        BY <1>2, <2>1 DEF Calm, NewUntaken, Sensible
    <2>3. item[e].status \notin {"sent", "pending"}
        BY <1>2, <2>1, <2>2 DEF Inv, Kept, ItemsFollowBatch
    <2>4. item[e].status \in ItemStatus /\ accepted[e] \in 0..2 BY DEF Inv, TypeOK
    <2>5. item[e].status = "failed" BY <2>1, <2>2, <2>3, <2>4 DEF ItemStatus
    <2>6. ~(accepted[e] > 0)
        BY <1>1, <1>2, <2>1, <2>5 DEF Calm, TakenByPass, Holds
    <2> QED BY <2>1, <2>4, <2>5, <2>6
<1>5. /\ \A e \in Event : e \notin Payload(b) => accepted'[e] = accepted[e]
      /\ \A e \in Event : accepted'[e] <= 1
      /\ (\E e \in Event : accepted'[e] # accepted[e]) => worker'[w].pc = "accepted"
    <2>1. CASE Take(Payload(b)) /\ worker'[w].pc = "accepted"
        BY <1>4, <2>1, TakeFacts DEF Inv, Calm, TakenOnce
    <2>2. CASE UNCHANGED accepted BY <2>2 DEF Calm, TakenOnce
    <2> QED BY <1>1, <2>1, <2>2
<1>6. TakenOnce' BY <1>5 DEF TakenOnce
<1>7. NewUntaken' BY <1>1, <1>4, <1>5 DEF Calm, NewUntaken
<1>8. TakenByCall' BY <1>1, <1>4, <1>5 DEF Calm, TakenByCall
<1>9. TakenByPass'
    <2>1. SUFFICES ASSUME NEW e \in Event, item[e].status = "failed", accepted'[e] > 0
                   PROVE  \E v \in Worker : /\ worker'[v].pc = "accepted"
                                           /\ worker'[v].batch = item[e].batch
        BY <1>1 DEF TakenByPass
    <2>2. CASE accepted'[e] = accepted[e]
        <3>1. PICK v \in Worker : worker[v].pc = "accepted" /\ worker[v].batch = item[e].batch
            BY <2>1, <2>2 DEF Calm, TakenByPass
        <3> QED BY <1>1, <3>1
    <2>3. CASE accepted'[e] # accepted[e]
        BY <1>1, <1>4, <1>5, <2>3
    <2> QED BY <2>2, <2>3
<1> QED BY <1>3, <1>6, <1>7, <1>8, <1>9 DEF Calm

LEMMA CalmRetrySent ==
    ASSUME Sensible, Inv, Calm, NEW w \in Worker, RetrySent(w)
    PROVE  Calm'
<1> DEFINE b == worker[w].batch
<1>1. /\ b \in Batch /\ batch[b].token = w
      /\ \A c \in Batch : c # b => batch'[c] = batch[c]
      /\ \A e \in Event : item'[e].batch = item[e].batch
      /\ \A e \in Event : item'[e].status = IF item[e].batch = b /\ item[e].status = "failed"
                                           THEN "sent" ELSE item[e].status
      /\ ~Holds(w)' /\ \A v \in Worker : v # w => worker'[v] = worker[v]
      /\ UNCHANGED <<producer, accepted>>
    BY RetrySentFacts
<1>2. \A v \in Worker : v # w /\ Holds(v) => worker[v].batch \in Batch /\ worker[v].batch # b
    BY <1>1 DEF Calm, HoldersOwn, Inv, Kept, WorkersSound
<1> HIDE DEF b
<1>3. HoldersOwn' BY <1>1, <1>2 DEF Calm, HoldersOwn, Holds
<1>4. TakenOnce' /\ NewUntaken' /\ TakenByCall'
    BY <1>1 DEF Calm, TakenOnce, NewUntaken, TakenByCall
<1>5. TakenByPass'
    <2>1. SUFFICES ASSUME NEW e \in Event, item'[e].status = "failed", accepted[e] > 0
                   PROVE  \E v \in Worker : /\ worker'[v].pc = "accepted"
                                           /\ worker'[v].batch = item[e].batch
        BY <1>1 DEF TakenByPass
    <2>2. item[e].status = "failed" /\ item[e].batch # b BY <1>1, <2>1
    <2>3. PICK v \in Worker : worker[v].pc = "accepted" /\ worker[v].batch = item[e].batch
        BY <2>1, <2>2 DEF Calm, TakenByPass
    <2>4. v # w BY <2>2, <2>3 DEF b
    <2> QED BY <1>1, <2>3, <2>4
<1> QED BY <1>3, <1>4, <1>5 DEF Calm

LEMMA InitCalm ==
    ASSUME Init
    PROVE  Calm
BY DEF Init, Calm, HoldersOwn, Holds, Resting, TakenOnce, NewUntaken, TakenByCall, TakenByPass, NoItem

LEMMA StepCalm ==
    ASSUME Sensible, Gentle, Inv, crashes = 0 => Calm, [Next]_vars
    PROVE  (crashes = 0 => Calm)'
<1>1. SUFFICES ASSUME crashes' = 0 PROVE Calm'
    OBVIOUS
<1>2. CASE UNCHANGED vars
    BY <1>1, <1>2 DEF vars, tables, counters, Calm, HoldersOwn, Holds, TakenOnce, NewUntaken,
                      TakenByCall, TakenByPass
<1>3. CASE Next
    <2>1. ~Crash BY <1>1 DEF Crash, Inv, TypeOK
    <2>2. \A b \in Batch : ~Cleanup(b) BY DEF Cleanup, Gentle, Inv, TypeOK
    <2>3. crashes = 0 => Calm OBVIOUS
    <2>4. crashes = 0
        <3>1. crashes' = crashes
            BY <1>3, <2>1 DEF Next, WorkerStep, DeliverStep, RequeueStep, Create, StoreCounts, Suppress,
                  BeginSend, Send, StoreSent, StoreFailed, DeliverFails, RequeueRead, RequeueWrite,
                  RequeueRefused, RecoverBegin, Recover, Claim, ClaimMissed, RetryBegin, RetrySend,
                  RetrySent, RetryFailed, RetryAborts, RetryEnd, Elapse, Age, Expire, Cleanup, counters
        <3> QED BY <1>1, <3>1
    <2> QED BY <1>3, <2>1, <2>2, <2>3, <2>4, NextCases, CalmCreate, CalmDeliver, CalmQuiet,
               CalmRetrySend, CalmRetrySent
<1> QED BY <1>2, <1>3

\* Two first deliveries, two passes and a requeue never send an event twice, as
\* long as leases outlive their passes, nothing fails and the process lives.
THEOREM SentOnce ==
    ASSUME Sensible, Gentle
    PROVE  Spec => []NoDuplicateSend
<1>1. Init => (crashes = 0 => Calm) BY InitCalm
<1>2. Inv /\ (crashes = 0 => Calm) /\ [Next]_vars => (crashes = 0 => Calm)' BY StepCalm
<1>3. (crashes = 0 => Calm) => NoDuplicateSend BY DEF Calm, TakenOnce, NoDuplicateSend
<1> QED BY <1>1, <1>2, <1>3, Invariance, PTL DEF Spec

=============================================================================
