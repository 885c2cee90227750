---------------------------- MODULE RetryRounds ----------------------------
(***************************************************************************)
(* What the scheduler promises about the runs of a task, without locks,    *)
(* goroutines, clocks or columns: runs come in rounds.  A scheduled or     *)
(* manual run opens a round; a run that ends unfinished may leave one      *)
(* automatic retry owed; at most MaxRetries retries belong to a round; and *)
(* what was cut off by a crash is owed after the restart.  TaskScheduler   *)
(* implements this (RoundsKept).                                           *)
(***************************************************************************)
EXTENDS Naturals

CONSTANTS
    Task,       \* the tasks
    MaxRetries  \* automatic retries of one round

VARIABLES
    state,  \* "resting"; "running"; a retry is "owed"; cut off and "open"
    used    \* retries of the current round

vars == <<state, used>>

Init ==
    /\ state = [t \in Task |-> "resting"]
    /\ used = [t \in Task |-> 0]

\* A new round may begin in any state but during a run of the same task.
BeginRound(t) ==
    /\ state[t] # "running"
    /\ state' = [state EXCEPT ![t] = "running"]
    /\ used' = [used EXCEPT ![t] = 0]

Retry(t) ==
    /\ state[t] = "owed" /\ used[t] < MaxRetries
    /\ state' = [state EXCEPT ![t] = "running"]
    /\ used' = [used EXCEPT ![t] = @ + 1]

\* A run ends for good, with a retry owed, or without its outcome being known.
End(t) ==
    /\ state[t] = "running"
    /\ \E s \in {"resting", "owed", "open"} :
          /\ s = "owed" => used[t] < MaxRetries
          /\ state' = [state EXCEPT ![t] = s]
    /\ UNCHANGED used

\* All runs are cut off at once ...
Crash ==
    /\ state' = [t \in Task |-> IF state[t] = "running" THEN "open" ELSE state[t]]
    /\ UNCHANGED used

\* ... and are owed once the process is back, while the round has retries left.
Recover ==
    /\ state' = [t \in Task |->
                    CASE state[t] = "open" /\ used[t] < MaxRetries -> "owed"
                      [] state[t] = "open" /\ used[t] >= MaxRetries -> "resting"
                      [] OTHER -> state[t]]
    /\ UNCHANGED used

Next ==
    \/ \E t \in Task : BeginRound(t) \/ Retry(t) \/ End(t)
    \/ Crash
    \/ Recover

Spec == Init /\ [][Next]_vars
============================================================================
