--------------------------- MODULE RequestPacer ---------------------------
(***************************************************************************)
(* The process-wide pacer of Longbridge's fundamental endpoints            *)
(* (discovery/longbridge_rate_limit.go).  A caller takes the next slot or  *)
(* sleeps until it and looks again; an answer that says "rate limited"     *)
(* moves the slot of everybody forward before the caller tries again.      *)
(***************************************************************************)
EXTENDS Naturals

CONSTANTS
    Caller,     \* goroutines with a request to make
    Interval,   \* the configured request interval
    MaxDelay,   \* 30 seconds
    MaxTime     \* bound: the clock

Attempts == 3

VARIABLES now, nextRequestAt, caller, granted, calm
vars == <<now, nextRequestAt, caller, granted, calm>>

Idle == [pc |-> "idle", wake |-> 0, attempt |-> 0]

Init ==
    /\ now = Interval /\ nextRequestAt = 0
    /\ caller = [c \in Caller |-> Idle]
    /\ granted = 0    \* when the last request was let through
    /\ calm = 0       \* when the last cooldown ends

Request(c) ==
    /\ caller[c].pc = "idle"
    /\ caller' = [caller EXCEPT ![c] = [pc |-> "slot", wake |-> 0, attempt |-> 0]]
    /\ UNCHANGED <<now, nextRequestAt, granted, calm>>

\* waitLongbridgeFundamentalSlot, one turn of its loop under the mutex.
Slot(c) ==
    /\ caller[c].pc = "slot"
    /\ IF nextRequestAt <= now
       THEN /\ nextRequestAt' = now + Interval
            /\ granted' = now
            /\ caller' = [caller EXCEPT ![c].pc = "call"]
       ELSE /\ caller' = [caller EXCEPT ![c].pc = "sleep", ![c].wake = nextRequestAt]
            /\ UNCHANGED <<nextRequestAt, granted>>
    /\ UNCHANGED <<now, calm>>

\* The timer fires, possibly late; or the context ends.
Wake_Granted(c) ==
    /\ caller[c].pc = "sleep"
    /\ caller[c].wake <= now
    /\ caller' = [caller EXCEPT ![c].pc = "call"]
    /\ nextRequestAt' = now + Interval /\ granted' = now
    /\ UNCHANGED <<now, calm>>
Wake(c) ==
    /\ caller[c].pc = "sleep"
    /\ \/ caller[c].wake <= now /\ caller' = [caller EXCEPT ![c].pc = "slot"]
       \/ caller' = [caller EXCEPT ![c] = Idle]
    /\ UNCHANGED <<now, nextRequestAt, granted, calm>>

\* longbridgeRateLimitCooldown: doubled with each attempt, bounded, and up to
\* half an interval of jitter.
Doubled == <<2, 4>>    \* 2 << attempt: nobody waits after the third
Cooldown(attempt) ==
    LET delay == Interval * Doubled[attempt + 1]
        bounded == IF delay > MaxDelay THEN MaxDelay ELSE delay
    IN IF Interval \div 2 = 0 THEN {bounded} ELSE bounded .. (bounded + (Interval \div 2) - 1)

\* longbridgeFundamentalCall: the answer, and deferLongbridgeFundamentalRequests.
Defer_Overwrites(c) ==
    \E d \in Cooldown(caller[c].attempt) :
        /\ nextRequestAt' = now + d
        /\ calm' = IF now + d > calm THEN now + d ELSE calm
Defer(c) ==
    \E d \in Cooldown(caller[c].attempt) :
        /\ nextRequestAt' = IF now + d > nextRequestAt THEN now + d ELSE nextRequestAt
        /\ calm' = IF now + d > calm THEN now + d ELSE calm

Answer(c) ==
    /\ caller[c].pc = "call"
    /\ \/ caller' = [caller EXCEPT ![c] = Idle] /\ UNCHANGED <<nextRequestAt, calm>>
       \/ /\ caller[c].attempt + 1 < Attempts
          /\ Defer(c)
          /\ caller' = [caller EXCEPT ![c].pc = "slot", ![c].attempt = @ + 1]
    /\ UNCHANGED <<now, granted>>

Tick == now < MaxTime /\ now' = now + 1 /\ UNCHANGED <<nextRequestAt, caller, granted, calm>>

Next == Tick \/ \E c \in Caller : Request(c) \/ Slot(c) \/ Wake(c) \/ Answer(c)
Spec == Init /\ [][Next]_vars

TypeOK ==
    /\ now \in 0..MaxTime /\ granted \in 0..now
    /\ nextRequestAt \in Nat /\ calm \in Nat
    /\ \A c \in Caller : caller[c].pc \in {"idle", "slot", "sleep", "call"} /\ caller[c].attempt < Attempts

\* Two requests are an interval apart, and none starts inside the cooldown
\* that any caller was told, also for callers that already slept for a slot.
Paced ==
    [][\A c \in Caller : caller[c].pc # "call" /\ caller'[c].pc = "call"
            => now >= granted + Interval /\ now >= calm]_vars
=============================================================================
