---------------------------- MODULE SignalAlerts ----------------------------
(***************************************************************************)
(* Alerts about the daily trade-plan state of enabled watch targets        *)
(* (service/trade_setup_notification.go) and the inbox they go to          *)
(* (service/in_app_notification.go).  A run compares each target's state   *)
(* with the one stored by the previous run, writes the changes to the      *)
(* inbox, stores the states and hands the changes to the Telegram queue.   *)
(* The scheduler and the operator may run it at the same time, and the     *)
(* process may stop between any two steps.                                 *)
(***************************************************************************)
EXTENDS Naturals, Sequences, FiniteSets

CONSTANTS
    Target,      \* numbers: the order of the tickers
    Runner,      \* concurrent calls of Send
    MaxPerRun,   \* trade_setup_notification.max_per_run
    MaxDate,     \* bound: trade dates
    Faults       \* whether statements may fail and the process may stop

Unavailable == "unavailable"   \* no plan can be computed
Waiting == "waiting"           \* a plan nobody has to act on
Actionable == {"entry_candidate", "exit_warning", "invalidated"}
Status == Actionable \cup {Unavailable, Waiting}

\* tradeSetupEventPriority
Priority(status) ==
    CASE status = "invalidated" -> 0 [] status = "exit_warning" -> 1 [] OTHER -> 2

VARIABLES
    market,     \* state and trade date of each target's technical history
    stored,     \* trade_setup_notification_states: Unavailable where there is no row
    inbox,      \* event keys and whether each was read
    settings,   \* "on", "disabled" or "shadow"; and the inbox switch of the source
    run,
    silent      \* <<target, state>> that may be stored without an alert: a first
                \* state, one past the limit, one while the inbox was off
vars == <<market, stored, inbox, settings, run, silent>>

Idle == [pc |-> "idle"]

Init ==
    /\ market = [t \in Target |-> [status |-> Unavailable, date |-> 1]]
    /\ stored = [t \in Target |-> Unavailable]
    /\ inbox = << >>
    /\ settings = [mode |-> "on", inApp |-> TRUE]
    /\ run = [r \in Runner |-> Idle]
    /\ silent = {}

EventKey(t, s) == <<t, s.status, s.date>>

\* A new close moves a target to another state, on a new trade date.
Close(t) ==
    /\ market[t].date < MaxDate
    /\ \E s \in Status :
         market' = [market EXCEPT ![t] = [status |-> s, date |-> @.date + 1]]
    /\ UNCHANGED <<stored, inbox, settings, run, silent>>

Configure ==
    /\ settings' \in [mode : {"on", "disabled", "shadow"}, inApp : BOOLEAN]
    /\ UNCHANGED <<market, stored, inbox, run, silent>>

(***************************************************************************)
(* Preview                                                                 *)
(***************************************************************************)
\* The switches for entries, exits and invalidations are consulted and then
\* overruled: a state that differs from the stored one is always eligible.
Reason(t) ==
    IF stored[t] = market[t].status THEN "unchanged"
    ELSE IF stored[t] = Unavailable /\ market[t].status # "entry_candidate" THEN "initial_state_baseline"
    ELSE "eligible"

Eligible == {t \in Target : market[t].status \in Actionable /\ Reason(t) = "eligible"}
Turn(t) ==
    Cardinality({u \in Eligible :
        \/ Priority(market[u].status) < Priority(market[t].status)
        \/ Priority(market[u].status) = Priority(market[t].status) /\ u <= t})

\* The events within the limit, most urgent first; the rest are "max_per_run".
Events ==
    LET n == IF Cardinality(Eligible) < MaxPerRun THEN Cardinality(Eligible) ELSE MaxPerRun
    IN [i \in 1..n |-> LET t == CHOOSE u \in Eligible : Turn(u) = i IN EventKey(t, market[t])]

\* Preview, and the decision that a shadow run ends there.
Looked(r) ==
    /\ run[r] = Idle
    /\ settings.mode # "shadow"
    /\ run' = [run EXCEPT ![r] =
         [pc |-> "inbox", todo |-> Events, seen |-> market,
          deliver |-> settings.mode = "on" /\ Events # << >>]]
    /\ LET told == {Events[i] : i \in DOMAIN Events}
           untold(t) == market[t].status \in Actionable /\ Reason(t) # "unchanged"
                          /\ EventKey(t, market[t]) \notin told
       IN silent' = silent \cup {<<t, market[t].status>> : t \in {u \in Target : untold(u)}}

Preview_Stores(r) ==
    /\ Looked(r)
    /\ stored' = [t \in Target |-> market[t].status]
    /\ UNCHANGED <<market, inbox, settings>>
Preview(r) == Looked(r) /\ UNCHANGED <<market, stored, inbox, settings>>

(***************************************************************************)
(* Send                                                                    *)
(***************************************************************************)
\* InAppNotificationService.Create: nothing for a source that is switched off,
\* and nothing for an event key that exists.
Unread(key) == inbox' = [k \in DOMAIN inbox \cup {key} |-> IF k = key THEN FALSE ELSE inbox[k]]
Create_Replaces(key) == IF settings.inApp THEN Unread(key) ELSE UNCHANGED inbox
Create(key) ==
    IF key \in DOMAIN inbox \/ ~settings.inApp THEN UNCHANGED inbox ELSE Unread(key)

\* createInAppNotifications, one event at a time.
InAppStep(r) ==
    IF run[r].todo = << >>
    THEN run' = [run EXCEPT ![r].pc = "persist"] /\ UNCHANGED <<inbox, silent>>
    ELSE LET key == Head(run[r].todo)
         IN /\ Create(key)
            /\ run' = [run EXCEPT ![r].todo = Tail(@)]
            /\ silent' = IF settings.inApp THEN silent ELSE silent \cup {<<key[1], key[2]>>}

Observed(r) == [t \in Target |-> IF run[r].seen[t].status = Unavailable THEN stored[t]
                                 ELSE run[r].seen[t].status]

CreateInApp(r) ==
    /\ run[r].pc = "inbox" /\ InAppStep(r)
    /\ UNCHANGED <<market, stored, settings>>

\* persistObservations, one transaction, for every state that was observed:
\* also for those the limit left out.
Persist(r) ==
    /\ run[r].pc = "persist"
    /\ stored' = Observed(r)
    /\ run' = [run EXCEPT ![r] =
         IF run[r].deliver THEN [@ EXCEPT !.pc = "deliver"] ELSE Idle]
    /\ UNCHANGED <<market, inbox, settings, silent>>

\* NotificationBatchService.Deliver takes over (NotificationQueue).
Deliver(r) ==
    /\ run[r].pc = "deliver"
    /\ run' = [run EXCEPT ![r] = Idle]
    /\ UNCHANGED <<market, stored, inbox, settings, silent>>

\* A failing statement ends the call; a stopped process ends all of them.
Fail(r) ==
    /\ Faults /\ run[r] # Idle
    /\ run' = [run EXCEPT ![r] = Idle]
    /\ UNCHANGED <<market, stored, inbox, settings, silent>>

(***************************************************************************)
(* The inbox                                                               *)
(***************************************************************************)
\* MarkRead and MarkAllRead
Read(S) ==
    /\ S # {} /\ S \subseteq {k \in DOMAIN inbox : ~inbox[k]}
    /\ inbox' = [k \in DOMAIN inbox |-> inbox[k] \/ k \in S]
    /\ UNCHANGED <<market, stored, settings, run, silent>>

Next ==
    \/ \E t \in Target : Close(t)
    \/ Configure
    \/ \E r \in Runner : Preview(r) \/ CreateInApp(r) \/ Persist(r) \/ Deliver(r) \/ Fail(r)
    \/ \E k \in DOMAIN inbox : Read({k})
    \/ Read({k \in DOMAIN inbox : ~inbox[k]})
Spec == Init /\ [][Next]_vars

TypeOK ==
    /\ \A t \in Target : market[t].status \in Status /\ market[t].date \in 1..MaxDate
    /\ \A t \in Target : stored[t] \in Status
    /\ \A k \in DOMAIN inbox : k[1] \in Target /\ k[2] \in Actionable /\ inbox[k] \in BOOLEAN
    /\ \A r \in Runner : run[r].pc \in {"idle", "inbox", "persist", "deliver"}

\* A state is stored, and so never alerted again, only after its alert is in
\* the inbox: whatever fails, stops or runs at the same time.
StoredIsTold ==
    \A t \in Target : stored[t] \in Actionable =>
        \/ <<t, stored[t]>> \in silent
        \/ \E d \in 1..MaxDate : <<t, stored[t], d>> \in DOMAIN inbox

\* No repetition of a run removes an alert or makes a read one unread.
InboxKeeps ==
    [][\A k \in DOMAIN inbox : k \in DOMAIN inbox' /\ (inbox[k] => inbox'[k])]_vars
=============================================================================
