------------------------- MODULE ResearchSnapshots -------------------------
(***************************************************************************)
(* The snapshots a provider's answers leave behind: EPS forecasts, analyst *)
(* ratings and valuations of one ticker.  A snapshot is stored once per    *)
(* content, with the time it was first seen; each confirmation moves a     *)
(* receipt of its own.  Refreshes of one ticker may overlap: the scheduled *)
(* candidate and watch-target jobs, and the operator's button.             *)
(***************************************************************************)
EXTENDS Naturals, Sequences, FiniteSets

CONSTANTS
    Refresher,     \* goroutines that may refresh the ticker
    Content,       \* answers the provider may give
    NoCoverage,    \* the answer without data
    MaxTime        \* bound: the clock

Family == {"eps", "analyst", "valuation"}

VARIABLES family, now, store, receipt, refresher
vars == <<family, now, store, receipt, refresher>>

Idle == [pc |-> "idle"]

Init ==
    /\ family \in Family
    /\ now = 1 /\ store = << >> /\ receipt = 0
    /\ refresher = [c \in Refresher |-> Idle]

Row == 1..Len(store)

\* "fetched_at DESC, id DESC"
Newer(i, j) == store[i].at > store[j].at \/ (store[i].at = store[j].at /\ i > j)
Place(i) == Cardinality({j \in Row : Newer(j, i)}) + 1
Latest == CHOOSE i \in Row : Place(i) = 1
Stored(content) == \E i \in Row : store[i].content = content

(***************************************************************************)
(* A refresh                                                               *)
(***************************************************************************)
\* EPS dates its snapshot before the request, the others after the answer.
Begin(c) ==
    /\ refresher[c] = Idle
    /\ refresher' = [refresher EXCEPT ![c] = [pc |-> "asked", at |-> now]]
    /\ UNCHANGED <<family, now, store, receipt>>

\* A failed request ends the refresh; for a valuation, so does one failed
\* component.  EPS without data is only recorded as such.
Answer(c) ==
    /\ refresher[c].pc = "asked"
    /\ LET at == IF family = "eps" THEN refresher[c].at ELSE now
       IN \/ refresher' = [refresher EXCEPT ![c] = Idle]
          \/ \E content \in Content :
               refresher' = [refresher EXCEPT ![c] =
                  [pc |-> IF family = "eps" /\ content = NoCoverage THEN "confirm" ELSE "compare",
                   at |-> at, content |-> content]]
    /\ UNCHANGED <<family, now, store, receipt>>

\* The latest stored snapshot decides whether there is anything to store, and
\* whether it is a change to announce.
Changed(previous, content) ==
    /\ family # "valuation"
    /\ previous # content
    /\ family = "analyst" => NoCoverage \notin {previous, content}

Compare(c) ==
    /\ refresher[c].pc = "compare"
    /\ LET known == store # << >>
           previous == store[Latest].content
           same == known /\ previous = refresher[c].content
           news == known /\ Changed(previous, refresher[c].content)
       IN refresher' = [refresher EXCEPT ![c] =
            [pc |-> IF same THEN "confirm" ELSE "insert", at |-> @.at, content |-> @.content,
             note |-> IF news THEN "pending" ELSE "not_applicable"]]
    /\ UNCHANGED <<family, now, store, receipt>>

\* The insert does nothing when the content is stored already.
Insert_Again(c) ==
    /\ refresher[c].pc = "insert"
    /\ store' = Append(store, [content |-> refresher[c].content, at |-> refresher[c].at,
                               note |-> refresher[c].note])
    /\ refresher' = [refresher EXCEPT ![c].pc = "confirm"]
    /\ UNCHANGED <<family, now, receipt>>
Insert(c) ==
    /\ refresher[c].pc = "insert"
    /\ store' = IF Stored(refresher[c].content) THEN store
                ELSE Append(store, [content |-> refresher[c].content, at |-> refresher[c].at,
                                    note |-> refresher[c].note])
    /\ refresher' = [refresher EXCEPT ![c].pc = "confirm"]
    /\ UNCHANGED <<family, now, receipt>>

\* RecordAPIDataSync: an older confirmation does not replace a newer one.
Confirm_Last(c) ==
    /\ refresher[c].pc = "confirm"
    /\ receipt' = refresher[c].at
    /\ refresher' = [refresher EXCEPT ![c] = Idle]
    /\ UNCHANGED <<family, now, store>>
Confirm(c) ==
    /\ refresher[c].pc = "confirm"
    /\ receipt' = IF refresher[c].at >= receipt THEN refresher[c].at ELSE receipt
    /\ refresher' = [refresher EXCEPT ![c] = Idle]
    /\ UNCHANGED <<family, now, store>>

\* AnalystRatingNotificationService: pending rows leave with their batch.
Deliver ==
    /\ family = "analyst"
    /\ \E S \in SUBSET {i \in Row : store[i].note = "pending"}, result \in {"sent", "failed"} :
         /\ S # {}
         /\ store' = [i \in Row |-> IF i \in S THEN [store[i] EXCEPT !.note = result] ELSE store[i]]
    /\ UNCHANGED <<family, now, receipt, refresher>>

Tick == now < MaxTime /\ now' = now + 1 /\ UNCHANGED <<family, store, receipt, refresher>>

Next ==
    \/ \E c \in Refresher : Begin(c) \/ Answer(c) \/ Compare(c) \/ Insert(c) \/ Confirm(c)
    \/ Deliver \/ Tick
Spec == Init /\ [][Next]_vars

TypeOK ==
    /\ family \in Family /\ now \in 1..MaxTime /\ receipt \in 0..now
    /\ \A i \in Row : store[i].content \in Content /\ store[i].at \in 1..now
    /\ \A c \in Refresher : refresher[c].pc \in {"idle", "asked", "compare", "insert", "confirm"}

\* Overlapping refreshes store an answer once, and the time until which the
\* data is known to be confirmed never goes back.
ContentOnce == \A i, j \in Row : store[i].content = store[j].content => i = j
ReceiptForward == [][receipt' >= receipt]_vars
=============================================================================
