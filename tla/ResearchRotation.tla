------------------------- MODULE ResearchRotation -------------------------
(***************************************************************************)
(* Which tickers a scheduled research job asks its provider about.  The    *)
(* candidate job and the watch-target job of one data family (market       *)
(* research, valuation) share a row per ticker: when it was last tried,    *)
(* and whether it succeeded on the current research day.  Each run lists   *)
(* what is not fresh, least recently tried first, and works through as     *)
(* many as its budget allows, while an operator may refresh single         *)
(* tickers.  Times are ranks: only their order matters, so the ranks are   *)
(* renumbered after every step.                                            *)
(***************************************************************************)
EXTENDS Naturals, Sequences, FiniteSets

CONSTANTS
    Ticker,      \* numbers: a lower one has the better score
    Candidate,   \* tickers of the published candidate batch
    Watched,     \* enabled stock watch targets
    Budget       \* requests a run may make

Job == {"candidates", "watched"}

VARIABLES
    last,     \* the later of the row's last attempt and the stored snapshot (0: none)
    fresh,    \* tickers whose row says success on this research day
    job
vars == <<last, fresh, job>>

Idle == [pc |-> "idle", todo |-> << >>, now |-> 0]

Init == last = [t \in Ticker |-> 0] /\ fresh = {} /\ job = [j \in Job |-> Idle]

Times(l, js) == {l[t] : t \in Ticker} \cup {js[j].now : j \in Job}

\* A time later than all recorded ones.
Now == Cardinality(Times(last, job)) + 1

\* The next state, its times replaced by their ranks.
Settle(l, js) ==
    LET Rank(x) == Cardinality({y \in Times(l, js) : 0 < y /\ y <= x})
    IN /\ last' = [t \in Ticker |-> Rank(l[t])]
       /\ job' = [j \in Job |-> [js[j] EXCEPT !.now = Rank(@)]]

\* leastRecentlyRefreshedCandidateTickers, and the sorting of watch targets:
\* never tried first, then the oldest, then the best score.
Before_ByScore(t, u) == t < u
Before(t, u) ==
    \/ last[t] < last[u]
    \/ last[t] = last[u] /\ t < u

Listed(S) ==
    LET Turn(t) == Cardinality({u \in S : Before(u, t)}) + 1
    IN [n \in 1..Cardinality(S) |-> CHOOSE t \in S : Turn(t) = n]

Among(j) == IF j = "candidates" THEN Candidate ELSE Watched

\* A run lists its tickers once.  The candidate run also takes the time that
\* it will write into every row.
Start(j) ==
    /\ job[j] = Idle
    /\ LET listed == Listed(Among(j) \ fresh)
           some == SubSeq(listed, 1, IF Len(listed) < Budget THEN Len(listed) ELSE Budget)
       IN /\ some # << >>
          /\ Settle(last, [job EXCEPT ![j] =
               [pc |-> "mark", todo |-> some, now |-> IF j = "candidates" THEN Now ELSE 0]])
    /\ UNCHANGED fresh

Stamp(j) == IF j = "candidates" THEN job[j].now ELSE Now

\* A write of the row's time: a newer snapshot still counts, a newer attempt
\* of the other job is overwritten.
Stamped(t, at) == {[last EXCEPT ![t] = at]} \cup (IF at < last[t] THEN {last} ELSE {})

\* MarkLongbridgeResearchAttempt, whose status hides an earlier success.
Mark_Unstamped(j) ==
    /\ job[j].pc = "mark"
    /\ fresh' = fresh \ {Head(job[j].todo)}
    /\ Settle(last, [job EXCEPT ![j].pc = "asked"])
Mark(j) ==
    /\ job[j].pc = "mark"
    /\ fresh' = fresh \ {Head(job[j].todo)}
    /\ \E l \in Stamped(Head(job[j].todo), Stamp(j)) : Settle(l, [job EXCEPT ![j].pc = "asked"])

Rest(j) ==
    IF Len(job[j].todo) = 1 THEN Idle
    ELSE [job[j] EXCEPT !.pc = "mark", !.todo = Tail(@)]

\* The provider answers, and a new snapshot may be stored, in part even when
\* the refresh fails.  Only success is written to the row.
Answer(j) ==
    /\ job[j].pc = "asked"
    /\ LET t == Head(job[j].todo)
       IN \/ /\ \E l \in Stamped(t, Stamp(j)) \cup {[last EXCEPT ![t] = Now]} :
                    Settle(l, [job EXCEPT ![j] = Rest(j)])
             /\ fresh' = fresh \cup {t}
          \/ /\ \E l \in {last, [last EXCEPT ![t] = Now]} :
                    Settle(l, [job EXCEPT ![j] = Rest(j)])
             /\ UNCHANGED fresh

\* A refresh of one ticker from the API.
OperatorRefresh(t) ==
    \/ Settle([last EXCEPT ![t] = Now], job) /\ fresh' \in {fresh, fresh \cup {t}}
    \/ UNCHANGED vars

\* The research day of Shanghai ends.
NextDay == fresh # {} /\ fresh' = {} /\ UNCHANGED <<last, job>>

Next ==
    \/ \E j \in Job : Start(j) \/ Mark(j) \/ Answer(j)
    \/ \E t \in Ticker : OperatorRefresh(t)
    \/ NextDay

\* Cron keeps starting the candidate job, and its requests return.
Fairness == WF_vars(Start("candidates")) /\ WF_vars(Mark("candidates")) /\ WF_vars(Answer("candidates"))
Spec == Init /\ [][Next]_vars /\ Fairness

TypeOK ==
    /\ \A t \in Ticker : last[t] \in 0..(Cardinality(Ticker) + 1)
    /\ fresh \subseteq Ticker
    /\ \A j \in Job : job[j].pc \in {"idle", "mark", "asked"}

\* No ticker that keeps failing, and no operator who keeps refreshing others,
\* can keep a candidate from being asked about, unless it is fresh already.
Asked(t) == \E j \in Job : job[j].pc = "asked" /\ Head(job[j].todo) = t
NoneStarves ==
    \A t \in Candidate :
        \/ []<>(t \in fresh \/ Asked(t))
        \/ []<><<OperatorRefresh(t)>>_vars
=============================================================================
