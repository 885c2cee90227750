----------------------------- MODULE APIBudget -----------------------------
(***************************************************************************)
(* Admission of requests to a paid market-data provider.                   *)
(*                                                                         *)
(* Go code: internal/discovery/api_monitor.go (APIMonitor.Acquire and      *)
(* Finish), internal/discovery/api_modules.go (CheckAPIModuleEndpoint) and *)
(* UpdatePolicy / UpdateModule of internal/service.  The server and the    *)
(* command-line sync are processes with a monitor each; they share the     *)
(* policy row and the call records in one SQLite file.  Acquire checks the *)
(* module switch, then under APIMonitor.mu looks at the clock and reserves *)
(* in one transaction, whose first statement takes the write lock.         *)
(*                                                                         *)
(* Abstractions.  One provider and one module; time is counted in ticks,   *)
(* and a day is DayLength ticks long.  What the provider answers, and the  *)
(* deletion of records older than a month, are left out.                   *)
(*                                                                         *)
(* An operator named X_Slip is not part of the model: it is X as a         *)
(* plausible slip would leave it, to show that a property notices.         *)
(***************************************************************************)
EXTENDS Naturals

CONSTANTS
    Process,    \* processes that share the database
    Caller,     \* goroutines that make requests
    Home,       \* the process of each goroutine
    Nobody,     \* no goroutine
    Budgets,    \* values an operator gives DailyBudget; 0 is "no limit"
    Intervals,  \* values an operator gives MinIntervalMS
    DayLength,  \* ticks in a day
    MaxTime,    \* bound: ticks
    MaxCrashes  \* bound: how often a process dies

Time == 0..MaxTime
Day(t) == t \div DayLength
MaxInterval == CHOOSE i \in Intervals : \A k \in Intervals : k <= i
NoTime == MaxTime + MaxInterval + 1

VARIABLES
    clock,
    (* tables *)
    policy,     \* the provider's row of api_provider_policies
    module,     \* is the module switched on (api_module_policies)?
    (* memory *)
    mu,         \* per process, the holder of APIMonitor.mu
    next,       \* per process, APIMonitor.next
    call,       \* per goroutine, its call of Acquire
    crashes,
    (* history *)
    dispatched, \* reservations by the day they were made on
    newest      \* when the newest reservation was made, NoTime if none was

tables == <<policy, module>>
history == <<dispatched, newest>>
vars == <<clock, tables, mu, next, call, crashes, history>>

-----------------------------------------------------------------------------
(* State                                                                   *)

Policy == [paused : BOOLEAN, budget : Budgets, interval : Intervals,
           date : 0..Day(MaxTime), used : 0..MaxTime + 1,
           last : Time \cup {NoTime}]

PC == {"idle", "checking", "checked", "reserving", "waiting", "dispatched"}

\* now is the clock as Acquire read it, until the end of its timer.
Call == [pc : PC, now : Time, until : 0..MaxTime + MaxInterval]

NoCall == [pc |-> "idle", now |-> 0, until |-> 0]

TypeOK ==
    /\ clock \in Time
    /\ policy \in Policy
    /\ module \in BOOLEAN
    /\ mu \in [Process -> Caller \cup {Nobody}]
    /\ next \in [Process -> 0..MaxTime + MaxInterval]
    /\ call \in [Caller -> Call]
    /\ crashes \in 0..MaxCrashes
    /\ dispatched \in [0..Day(MaxTime) -> 0..MaxTime + 1]
    /\ newest \in Time \cup {NoTime}
    /\ \A c \in Caller : mu[Home[c]] = c <=> call[c].pc = "reserving"

Init ==
    /\ clock = 0
    /\ policy \in {p \in Policy : /\ ~p.paused /\ p.date = 0 /\ p.used = 0
                                  /\ p.last = NoTime}
    /\ module = TRUE
    /\ mu = [p \in Process |-> Nobody]
    /\ next = [p \in Process |-> 0]
    /\ call = [c \in Caller |-> NoCall]
    /\ crashes = 0
    /\ dispatched = [d \in 0..Day(MaxTime) |-> 0]
    /\ newest = NoTime

-----------------------------------------------------------------------------
(* Acquire                                                                 *)

Goto(c, pc) == call' = [call EXCEPT ![c].pc = pc]

\* Slip: a return inside the loop forgets to unlock.
Unlock_Forgotten(c) == UNCHANGED mu

Unlock(c) == mu' = [mu EXCEPT ![Home[c]] = Nobody]

Begin(c) ==
    /\ call[c].pc = "idle"
    /\ Goto(c, "checking")
    /\ UNCHANGED <<clock, tables, mu, next, crashes, history>>

\* CheckAPIModuleEndpoint, on every turn of the loop.
CheckModule(c) ==
    /\ call[c].pc = "checking"
    /\ call' = [call EXCEPT ![c] = IF module THEN [@ EXCEPT !.pc = "checked"]
                                   ELSE NoCall]
    /\ UNCHANGED <<clock, tables, mu, next, crashes, history>>

\* Lock, and read the clock: too early for this process ...
LockAndWait(c) ==
    /\ call[c].pc = "checked" /\ mu[Home[c]] = Nobody
    /\ next[Home[c]] > clock
    /\ call' = [call EXCEPT ![c] = [NoCall EXCEPT !.pc = "waiting",
                                                  !.until = next[Home[c]]]]
    /\ UNCHANGED <<clock, tables, mu, next, crashes, history>>

\* ... or time to reserve, which another process may delay.
LockAndReserve(c) ==
    /\ call[c].pc = "checked" /\ mu[Home[c]] = Nobody
    /\ next[Home[c]] <= clock
    /\ mu' = [mu EXCEPT ![Home[c]] = c]
    /\ call' = [call EXCEPT ![c] = [NoCall EXCEPT !.pc = "reserving", !.now = clock]]
    /\ UNCHANGED <<clock, tables, next, crashes, history>>

\* Slip: each process keeps its own pace only.
TooSoon_PerProcess(now) == FALSE

\* The last dispatch of any process, as the shared row has it.
TooSoon(now) == policy.last # NoTime /\ policy.last + policy.interval > now

\* The count starts over when the row is of another day.
UsedOn(day) == IF policy.date = day THEN policy.used ELSE 0

Exhausted(day) == policy.budget > 0 /\ UsedOn(day) >= policy.budget

\* The transaction commits: budget, pace and record at once.
Reserve(c) ==
    LET now == call[c].now
        day == Day(now) IN
    /\ call[c].pc = "reserving"
    /\ ~policy.paused
    /\ ~TooSoon(now)
    /\ ~Exhausted(day)
    /\ policy' = [policy EXCEPT !.date = day, !.used = UsedOn(day) + 1, !.last = now]
    /\ next' = [next EXCEPT ![Home[c]] = now + policy.interval]
    /\ Unlock(c)
    /\ Goto(c, "dispatched")
    /\ dispatched' = [dispatched EXCEPT ![day] = @ + 1]
    /\ newest' = now
    /\ UNCHANGED <<clock, module, crashes>>

\* apiIntervalWait: remember when, and go round again.
ReserveLater(c) ==
    LET until == policy.last + policy.interval IN
    /\ call[c].pc = "reserving"
    /\ ~policy.paused
    /\ TooSoon(call[c].now)
    /\ next' = [next EXCEPT ![Home[c]] = until]
    /\ Unlock(c)
    /\ Goto(c, "checking")
    /\ UNCHANGED <<clock, tables, crashes, history>>

\* Paused, budget exhausted, or a failing statement.
ReserveRefused(c) ==
    /\ call[c].pc = "reserving"
    /\ Unlock(c)
    /\ call' = [call EXCEPT ![c] = NoCall]
    /\ UNCHANGED <<clock, tables, next, crashes, history>>

TimerFires(c) ==
    /\ call[c].pc = "waiting" /\ call[c].until <= clock
    /\ Goto(c, "checking")
    /\ UNCHANGED <<clock, tables, mu, next, crashes, history>>

\* The caller's context ends while it waits.
Cancelled(c) ==
    /\ call[c].pc = "waiting"
    /\ call' = [call EXCEPT ![c] = NoCall]
    /\ UNCHANGED <<clock, tables, mu, next, crashes, history>>

\* Finish; the answer may be anything.
Finish(c) ==
    /\ call[c].pc = "dispatched"
    /\ call' = [call EXCEPT ![c] = NoCall]
    /\ UNCHANGED <<clock, tables, mu, next, crashes, history>>

-----------------------------------------------------------------------------
(* The operator, time and crashes                                          *)

\* Slip: the whole row is saved, and with it the zero counters of the request.
UpdatePolicy_WholeRow(paused, budget, interval) ==
    /\ policy' = [policy EXCEPT !.paused = paused, !.budget = budget,
                                !.interval = interval, !.used = 0]
    /\ UNCHANGED <<clock, module, mu, next, call, crashes, history>>

\* Three columns of the row; the counters stay.
UpdatePolicy(paused, budget, interval) ==
    /\ policy' = [policy EXCEPT !.paused = paused, !.budget = budget,
                                !.interval = interval]
    /\ UNCHANGED <<clock, module, mu, next, call, crashes, history>>

UpdateModule(on) ==
    /\ module' = on
    /\ UNCHANGED <<clock, policy, mu, next, call, crashes, history>>

Tick ==
    /\ clock < MaxTime
    /\ clock' = clock + 1
    /\ UNCHANGED <<tables, mu, next, call, crashes, history>>

\* A process dies and starts again with an empty memory.
Crash(p) ==
    /\ crashes < MaxCrashes
    /\ crashes' = crashes + 1
    /\ mu' = [mu EXCEPT ![p] = Nobody]
    /\ next' = [next EXCEPT ![p] = 0]
    /\ call' = [c \in Caller |-> IF Home[c] = p THEN NoCall ELSE call[c]]
    /\ UNCHANGED <<clock, tables, history>>

-----------------------------------------------------------------------------

Acquire(c) ==
    \/ CheckModule(c)
    \/ LockAndWait(c) \/ LockAndReserve(c)
    \/ Reserve(c) \/ ReserveLater(c) \/ ReserveRefused(c)
    \/ TimerFires(c) \/ Cancelled(c)

Next ==
    \/ \E c \in Caller : Begin(c) \/ Acquire(c) \/ Finish(c)
    \/ \E paused \in BOOLEAN, b \in Budgets, i \in Intervals : UpdatePolicy(paused, b, i)
    \/ \E on \in BOOLEAN : UpdateModule(on)
    \/ Tick
    \/ \E p \in Process : Crash(p)

Spec == Init /\ [][Next]_vars

-----------------------------------------------------------------------------
(* Properties                                                              *)

Reserves(c) == call[c].pc = "reserving" /\ call'[c].pc = "dispatched"

\* No request beyond the day's budget in force, counted over all processes and
\* over midnight: a process that read the clock before midnight and got the
\* write lock after another one's first request of the new day neither spends
\* the old day's budget again nor hands back the new day's ("separate
\* processes cannot race the daily allowance", Acquire).
BudgetKept ==
    [][\A c \in Caller : Reserves(c) /\ policy.budget > 0
          => dispatched[Day(call[c].now)] < policy.budget]_vars

\* Requests of all processes are at least the interval in force apart and in
\* the order of their times, restarts and changes of the interval included.
Paced ==
    [][\A c \in Caller : Reserves(c) /\ newest # NoTime
          => newest + policy.interval <= call[c].now]_vars

\* The row's counter is the number of requests of its day: no setting change,
\* late process or crash loses or repeats one.
UsedExact == policy.used = dispatched[policy.date]

=============================================================================
