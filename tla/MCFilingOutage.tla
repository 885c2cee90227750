--------------------------- MODULE MCFilingOutage ---------------------------
(***************************************************************************)
(* FilingSync with two observers: when each target was last synced with    *)
(* success, and which filings were taken for history although they came    *)
(* after that.                                                             *)
(***************************************************************************)
EXTENDS FilingSync

VARIABLES synced, missed

Observe ==
    /\ synced' = [t \in Target |->
           IF \E r \in Runner : Succeed(r) /\ refresh[r].row.id = t THEN now ELSE synced[t]]
    /\ missed' = missed \cup
           {p \in Pairs : \E r \in Runner :
               /\ Link(r) /\ <<p[1], p[2], "history_backfill">> \in refresh'[r].found \ refresh[r].found
               /\ synced[p[1]] # 0 /\ published[p[2]] > synced[p[1]]}

SpecObserved ==
    /\ Init /\ synced = [t \in Target |-> 0] /\ missed = {}
    /\ [][Next /\ Observe]_<<vars, synced, missed>>

\* A filing that came after the target's last successful sync is not taken for
\* history, which is never sent (design of 2026-06-20, lines 71-73).
NothingMissed == missed = {}
=============================================================================
