--------------------------- MODULE FilingSyncProofs ---------------------------
(***************************************************************************)
(* Theorems about FilingSync, for any targets, filings, runners, failures  *)
(* and number of refreshes: a filing that the cleanup did not drop too     *)
(* early is sent as news of a target at most once, a run that ended well   *)
(* decided on all it linked, and the task reports as many unresolved       *)
(* targets as it left.                                                     *)
(***************************************************************************)
EXTENDS FilingSync, FiniteSetTheorems, TLAPS

\* Targets are rows of a table with numbers for keys.
Sensible ==
    /\ IsFiniteSet(Target) /\ Target \subseteq Nat /\ Scheduled \in Runner
    /\ Retention \in Nat /\ MaxTime \in Nat \ {0} /\ MaxCrashes \in Nat

-----------------------------------------------------------------------------
(* Types                                                                   *)

Reasons == {"initial_sync", "history_backfill", "eligible"}
Statuses == {"running", "success", "partial", "failed"}
Phases == {"settings", "next", "store", "renew", "find", "link", "done"}
RowOf == [id : Target, previous : Nat]
ItemOf == [filing : Filing \cup {0}, at : Nat, edition : Nat]
Candidate == Target \X Filing \X Reasons
Refresh ==
    [pc : Phases, trigger : {"scheduler", "manual", "recovery"},
     run : Nat, since : Nat, row : [id : Target \cup {0}, previous : Nat], todo : SUBSET RowOf,
     items : SUBSET Filing, item : ItemOf, found : SUBSET Candidate, failed : SUBSET Target,
     deferred : SUBSET Target, checked : SUBSET Target,
     earlier : [failed : SUBSET Target, deferred : SUBSET Target], alone : BOOLEAN]
Reported ==
    [pc : {"reported"}, since : Nat, alone : BOOLEAN, unresolved : Int, left : SUBSET Target]

\* The targets a refresh has still to do, the one under way included.
Ids(me) == {row.id : row \in me.todo}
Open(me) == Ids(me) \cup (IF me.pc \in Storing THEN {me.row.id} ELSE {})

\* A target is done once, and a refresh that is done holds nothing.
PassFits(me) ==
    /\ \A a, b \in me.todo : a.id = b.id => a = b
    /\ me.pc \in Storing => me.row.id \in Target /\ me.row.id \notin Ids(me)
    /\ Open(me) \subseteq me.checked /\ me.failed \subseteq me.checked
    /\ me.deferred \subseteq me.checked
    /\ Open(me) \cap (me.failed \cup me.deferred) = {} /\ me.failed \cap me.deferred = {}
    /\ me.pc = "settings" => me.found = {} /\ me.failed = {} /\ me.deferred = {}
    /\ me.pc = "done" => me.todo = {} /\ me.found = {}

\* What is stored and found comes from the listing; a row that was read was there.
ItemFits(me) ==
    /\ me.pc \in Storing => \A f \in me.items : published[f] # 0
    /\ \A c \in me.found : published[c[2]] # 0
    /\ me.pc \in {"renew", "find", "link"} =>
          /\ me.item.filing \in Filing /\ published[me.item.filing] # 0 /\ me.item.at \in 1..now
    /\ me.pc = "link" => me.item.edition \in 1..edition[me.item.filing]

RefreshFits(r, me) ==
    /\ me \in Refresh
    /\ me.since \in {now - 1, now}
    /\ me.trigger \in {"scheduler", "recovery"} <=> r = Scheduled
    /\ me.run \in 1..Len(runs) /\ (me.pc # "done" => runs[me.run] = "running")
    /\ PassFits(me) /\ ItemFits(me)

\* The log of failures.
Entry == [target : Target, at : Nat, terminal : BOOLEAN, retryable : BOOLEAN, next : Nat]
Failures == Seq(Entry)

Clocks ==
    /\ now \in 1..MaxTime /\ crashes \in Nat
    /\ published \in [Filing -> 0..now] /\ pulled \in [Filing -> 0..now]
    /\ target \in [Target -> [enabled : BOOLEAN, lastSync : 0..now]]
    /\ edition \in [Filing -> Nat] /\ \A f \in Filing : pulled[f] # 0 => edition[f] # 0
    /\ \A l \in linked : l[1] \in Target /\ l[2] \in Filing /\ l[3] \in 1..edition[l[2]]
    /\ failures \in Failures
    /\ runs \in Seq(Statuses)
    /\ queued \in [Pairs -> Nat]
    /\ associated \subseteq Nat \X Target \X Filing
    /\ \A a \in associated : a[1] \in 1..Len(runs)

Refreshes ==
    /\ refresh \in [Runner -> {Idle} \cup Refresh \cup Reported]
    /\ \A r \in Runner : Syncing(r) => RefreshFits(r, refresh[r])
    /\ \A r \in Runner : Busy(r) => refresh[r].since \in {now - 1, now}
    /\ \A r \in Runner : refresh[r].pc = "reported" => r = Scheduled
    /\ \A r, s \in Runner :
          /\ r # s /\ Syncing(r) /\ Syncing(s)
          /\ refresh[r].pc # "done" /\ refresh[s].pc # "done"
          => refresh[r].run # refresh[s].run
    \* What works beside the scheduled task is seen by it.
    /\ \A r \in Runner : r # Scheduled /\ Busy(r) /\ Busy(Scheduled) =>
          ~ refresh[Scheduled].alone

Typed == Clocks /\ Refreshes

\* Whoever runs has decided on what its run linked, or holds it.
Has(r, a) == \E c \in refresh[r].found : c[1] = a[2] /\ c[2] = a[3]
Kept ==
    /\ NothingDropped
    /\ \A r \in Runner : Syncing(r) /\ refresh[r].pc # "done" =>
          \A a \in associated : a[1] = refresh[r].run => a \in decided \/ Has(r, a)

\* As long as nothing else refreshed or edited: a failure to recover is one of the
\* pass, and what the recovery goes through is from the first pass.
Counted ==
    LET me == refresh[Scheduled] IN
    /\ Syncing(Scheduled) /\ me.trigger = "scheduler" /\ me.alone =>
          \A i \in DOMAIN failures :
             failures[i].retryable /\ target[failures[i].target].enabled =>
                failures[i].target \in Open(me) \cup me.failed \cup me.deferred
    /\ Syncing(Scheduled) /\ me.trigger = "recovery" =>
          /\ me.earlier.failed \cap me.earlier.deferred = {}
          /\ me.alone => me.checked \subseteq me.earlier.failed \cup me.earlier.deferred
    /\ me.pc = "reported" /\ me.alone => me.unresolved = Cardinality(me.left)

\* A target is told of a filing when it was sent as news or a refresh is about to.
Holds(r, t, f) == Syncing(r) /\ <<t, f, "eligible">> \in refresh[r].found
Told(t, f) == queued[<<t, f>>] # 0 \/ \E r \in Runner : Holds(r, t, f)
There(t, f) == pulled[f] # 0 /\ <<t, f, edition[f]>> \in linked
Links(r, t, f) ==
    /\ Syncing(r) /\ refresh[r].pc = "link"
    /\ refresh[r].row.id = t /\ refresh[r].item.filing = f

\* One refresh tells, once.  What was told of is linked, or no row is older than it; who
\* is about to link a row that is gone compares with a row that is not older.
Single(t, f) ==
    /\ queued[<<t, f>>] <= 1
    /\ \A r, s \in Runner : Holds(r, t, f) => queued[<<t, f>>] = 0 /\ (Holds(s, t, f) => r = s)
    /\ Told(t, f) => published[f] # 0 /\ (There(t, f) \/ Current(t, f))
    /\ \A r \in Runner : Links(r, t, f) =>
          \/ pulled[f] # 0 /\ refresh[r].item.edition = edition[f]
          \/ published[f] <= refresh[r].row.previous
Announced == \A t \in Target, f \in Filing : <<t, f>> \in early \/ Single(t, f)

Inv == Typed /\ Kept /\ Counted /\ Announced

-----------------------------------------------------------------------------
(* How a refresh moves                                                     *)

LEMMA PhaseFacts ==
    ASSUME Typed, NEW r \in Runner
    PROVE  /\ Syncing(r) <=> refresh[r] \in Refresh
           /\ Busy(r) <=> refresh[r] # Idle
           /\ Syncing(r) => Busy(r)
           /\ Busy(r) /\ ~ Syncing(r) => refresh[r] \in Reported
<1>1. refresh[r] \in {Idle} \cup Refresh \cup Reported BY DEF Typed, Refreshes
<1>2. \A m \in Refresh : m.pc \in Phases BY DEF Refresh
<1>3. \A m \in Reported : m.pc = "reported" BY DEF Reported
<1>4. Idle.pc = "idle" BY DEF Idle
<1> QED BY <1>1, <1>2, <1>3, <1>4 DEF Syncing, Busy, Phases

\* What a refresh under way is.
LEMMA UnderWay ==
    ASSUME Typed, NEW r \in Runner, refresh[r].pc \in Phases
    PROVE  /\ refresh[r] \in Refresh /\ Syncing(r) /\ Busy(r) /\ RefreshFits(r, refresh[r])
           /\ PassFits(refresh[r]) /\ ItemFits(refresh[r])
<1>1. Syncing(r) BY DEF Syncing, Phases
<1> QED BY <1>1, PhaseFacts DEF Typed, Refreshes, RefreshFits

\* A refresh under way keeps its run.
LEMMA SameRun ==
    ASSUME NEW r, NEW old, NEW m, RefreshFits(r, old), m \in Refresh,
           m.since = old.since, m.trigger = old.trigger, m.run = old.run,
           old.pc = "done" => m.pc = "done", PassFits(m), ItemFits(m)
    PROVE  RefreshFits(r, m)
BY DEF RefreshFits

LEMMA RunnerMoves ==
    ASSUME Sensible, Typed, NEW r \in Runner, NEW m, refresh' = [refresh EXCEPT ![r] = m],
           UNCHANGED <<now, published>>, edition' \in [Filing -> Nat],
           \A f \in Filing : edition[f] <= edition'[f],
           \/ runs' = runs
           \/ /\ Syncing(r) /\ refresh[r].pc # "done" /\ (m # Idle => m.pc = "done")
              /\ \E status \in Statuses : runs' = [runs EXCEPT ![refresh[r].run] = status],
           \/ m = Idle
           \/ /\ Busy(r) /\ r = Scheduled /\ m \in Reported
              /\ m.since = refresh[r].since /\ m.alone = refresh[r].alone
           \/ /\ Syncing(r) /\ RefreshFits(r, m) /\ m.run = refresh[r].run
              /\ m.since = refresh[r].since /\ m.alone = refresh[r].alone
              /\ refresh[r].pc = "done" => m.pc = "done"
    PROVE  Refreshes' /\ runs' \in Seq(Statuses) /\ Len(runs') = Len(runs)
<1>1. refresh \in [Runner -> {Idle} \cup Refresh \cup Reported] BY DEF Typed, Refreshes
<1>2. \A s \in Runner : refresh'[s] = IF s = r THEN m ELSE refresh[s] BY <1>1
<1>3. m \in {Idle} \cup Refresh \cup Reported BY DEF RefreshFits
<1>4. refresh' \in [Runner -> {Idle} \cup Refresh \cup Reported] BY <1>1, <1>3
<1>5. runs \in Seq(Statuses) BY DEF Typed, Clocks
<1>6. runs' \in Seq(Statuses) /\ Len(runs') = Len(runs) BY <1>5
<1>7. Idle.pc = "idle" /\ (m \in Reported => m.pc = "reported") BY DEF Idle, Reported
<1>8. \A s \in Runner : s # r => /\ Syncing(s)' <=> Syncing(s)
                                 /\ Busy(s)' <=> Busy(s)
    BY <1>2 DEF Syncing, Busy
<1>9. Syncing(r)' => /\ Syncing(r) /\ RefreshFits(r, m) /\ m.run = refresh[r].run
                     /\ refresh[r].pc = "done" => m.pc = "done"
    BY <1>2, <1>7 DEF Syncing
<1>10. Busy(r)' => Busy(r) /\ m.since = refresh[r].since /\ m.alone = refresh[r].alone
    BY <1>2, <1>7, PhaseFacts DEF Busy
\* Rows are only added: what was read of one was right.
<1>16. ASSUME NEW n, n \in Refresh, ItemFits(n) PROVE ItemFits(n)'
    <2>1. ASSUME n.pc = "link" PROVE n.item.edition \in 1..edition'[n.item.filing]
        <3>1. n.item.filing \in Filing BY <1>16, <2>1 DEF ItemFits
        <3>2. edition[n.item.filing] \in Nat /\ edition'[n.item.filing] \in Nat
            BY <3>1 DEF Typed, Clocks
        <3> QED BY <1>16, <2>1, <3>1, <3>2 DEF ItemFits
    <2> QED BY <1>16, <2>1 DEF ItemFits
<1>11. ASSUME NEW s \in Runner, Syncing(s)' PROVE RefreshFits(s, refresh[s])'
    <2>1. CASE s # r
        <3>1. Syncing(s) /\ RefreshFits(s, refresh[s]) /\ refresh'[s] = refresh[s]
            BY <1>2, <1>8, <1>11, <2>1 DEF Typed, Refreshes
        <3>2. refresh[s].pc # "done" => runs'[refresh[s].run] = "running"
            <4>1. CASE runs' = runs BY <3>1, <4>1 DEF RefreshFits
            <4>2. CASE /\ Syncing(r) /\ refresh[r].pc # "done"
                       /\ \E status \in Statuses : runs' = [runs EXCEPT ![refresh[r].run] = status]
                <5>1. refresh[s].pc # "done" => refresh[s].run # refresh[r].run
                    BY <2>1, <3>1, <4>2 DEF Typed, Refreshes
                <5>2. refresh[s].run \in 1..Len(runs) BY <3>1 DEF RefreshFits
                <5> QED BY <1>5, <3>1, <4>2, <5>1, <5>2 DEF RefreshFits
            <4> QED BY <4>1, <4>2
        <3>3. PICK n : n = refresh[s] OBVIOUS
        <3>4. ItemFits(n)' BY <1>16, <3>1, <3>3 DEF RefreshFits
        <3> QED BY <1>6, <3>1, <3>2, <3>3, <3>4 DEF RefreshFits, ItemFits
    <2>2. CASE s = r
        <3>1. RefreshFits(r, m) /\ refresh'[r] = m BY <1>2, <1>9, <1>11, <2>2
        <3>2. m.pc # "done" => runs' = runs BY <1>7, <1>9, <1>11, <2>2, <3>1 DEF Syncing
        <3>3. ItemFits(m)' BY <1>16, <3>1 DEF RefreshFits
        <3> QED BY <1>6, <2>2, <3>1, <3>2, <3>3 DEF RefreshFits, ItemFits
    <2> QED BY <2>1, <2>2
<1>12. \A s \in Runner : Busy(s)' => refresh'[s].since \in {now' - 1, now'}
    BY <1>2, <1>8, <1>10 DEF Typed, Refreshes, Sensible
<1>13. \A s, t \in Runner :
          /\ s # t /\ Syncing(s)' /\ Syncing(t)'
          /\ refresh'[s].pc # "done" /\ refresh'[t].pc # "done"
          => refresh'[s].run # refresh'[t].run
    BY <1>2, <1>8, <1>9 DEF Typed, Refreshes
<1>14. \A s \in Runner : s # Scheduled /\ Busy(s)' /\ Busy(Scheduled)' => ~ refresh'[Scheduled].alone
    BY <1>2, <1>8, <1>10 DEF Typed, Refreshes, Sensible
<1>15. \A s \in Runner : refresh'[s].pc = "reported" => s = Scheduled
    <2>1. m \in Refresh => m.pc # "reported" BY DEF Refresh, Phases
    <2> QED BY <1>2, <1>7, <2>1 DEF Typed, Refreshes, RefreshFits
<1> QED BY <1>4, <1>6, <1>11, <1>12, <1>13, <1>14, <1>15 DEF Refreshes

Moves(r, m) ==
    /\ refresh' = [refresh EXCEPT ![r] = m]
    /\ m \in {Idle} \cup Refresh \cup Reported

LEMMA MoveFacts ==
    ASSUME Typed, NEW r \in Runner, NEW m, Moves(r, m)
    PROVE  /\ \A s \in Runner : refresh'[s] = IF s = r THEN m ELSE refresh[s]
           /\ \A s \in Runner : s # r => (Syncing(s)' <=> Syncing(s)) /\ (Busy(s)' <=> Busy(s))
           /\ Syncing(r)' <=> m \in Refresh
           /\ Busy(r)' <=> m # Idle
<1>1. refresh \in [Runner -> {Idle} \cup Refresh \cup Reported] BY DEF Typed, Refreshes
<1>2. \A s \in Runner : refresh'[s] = IF s = r THEN m ELSE refresh[s] BY <1>1 DEF Moves
<1>3. m \in Refresh => m.pc \notin {"idle", "reported"} BY DEF Refresh, Phases
<1>4. m \in Reported => m.pc = "reported" BY DEF Reported
<1>5. Idle.pc = "idle" BY DEF Idle
<1> QED BY <1>2, <1>3, <1>4, <1>5 DEF Moves, Syncing, Busy

\* What a run linked stays decided on or held: the candidates of a refresh are carried
\* over, decided on, or its run is one that may drop them.
LEMMA KeptMove ==
    ASSUME Typed, Kept, NEW r \in Runner, NEW m, Moves(r, m),
           decided \subseteq decided', lost \subseteq lost', crashes > 0 => crashes' > 0,
           m \in Refresh => /\ Syncing(r) /\ m.run = refresh[r].run
                            /\ refresh[r].pc = "done" => m.pc = "done",
           Syncing(r) => \A c \in refresh[r].found :
              \/ <<refresh[r].run, c[1], c[2]>> \in decided'
              \/ m \in Refresh /\ c \in m.found
              \/ m \notin Refresh /\ (refresh[r].run \in lost' \/ crashes' > 0),
           \A a \in associated' : \/ a \in associated
                                  \/ /\ m \in Refresh /\ m.pc # "done" /\ a[1] = m.run
                                     /\ \E c \in m.found : c[1] = a[2] /\ c[2] = a[3],
           \/ runs' = runs
           \/ /\ Syncing(r) /\ refresh[r].pc # "done" /\ associated' = associated
              /\ \E status \in Statuses :
                    /\ runs' = [runs EXCEPT ![refresh[r].run] = status]
                    /\ status \in {"success", "partial"} => refresh[r].found = {}
    PROVE  Kept'
<1>1. /\ \A s \in Runner : refresh'[s] = IF s = r THEN m ELSE refresh[s]
      /\ \A s \in Runner : s # r => (Syncing(s)' <=> Syncing(s))
      /\ Syncing(r)' <=> m \in Refresh
    BY MoveFacts
<1>2. /\ associated \subseteq Nat \X Target \X Filing /\ runs \in Seq(Statuses)
      /\ \A a \in associated : a[1] \in 1..Len(runs)
    BY DEF Typed, Clocks
<1>3. \A s \in Runner : Syncing(s) => /\ refresh[s].run \in 1..Len(runs)
                                      /\ refresh[s].pc # "done" => runs[refresh[s].run] = "running"
    BY DEF Typed, Refreshes, RefreshFits
<1>4. ASSUME NEW a \in associated', runs'[a[1]] \in {"success", "partial"} PROVE a \in decided'
    <2>1. CASE runs' = runs
        <3>1. CASE a \in associated BY <1>4, <2>1, <3>1 DEF Kept, NothingDropped
        <3>2. CASE m \in Refresh /\ m.pc # "done" /\ a[1] = m.run
            <4>1. Syncing(r) /\ refresh[r].pc # "done" /\ a[1] = refresh[r].run BY <3>2
            <4>2. runs'[a[1]] = "running" BY <1>3, <2>1, <4>1
            <4> QED BY <1>4, <4>2
        <3> QED BY <3>1, <3>2
    <2>2. ASSUME NEW status \in Statuses, Syncing(r), refresh[r].pc # "done", associated' = associated,
                 runs' = [runs EXCEPT ![refresh[r].run] = status],
                 status \in {"success", "partial"} => refresh[r].found = {}
          PROVE  a \in decided'
        <3>1. a \in associated /\ a[1] \in 1..Len(runs) BY <1>2, <2>2
        <3>2. CASE a[1] = refresh[r].run
            <4>1. runs'[a[1]] = status BY <1>2, <2>2, <3>1, <3>2
            <4>2. refresh[r].found = {} BY <1>4, <2>2, <4>1
            <4>3. ~ Has(r, a) BY <4>2 DEF Has
            <4> QED BY <2>2, <3>1, <3>2, <4>3 DEF Kept
        <3>3. CASE a[1] # refresh[r].run
            <4>1. runs'[a[1]] = runs[a[1]] BY <1>2, <2>2, <3>1, <3>3
            <4> QED BY <1>4, <3>1, <4>1 DEF Kept, NothingDropped
        <3> QED BY <3>2, <3>3
    <2> QED BY <2>1, <2>2
\* What the refresh held.
<1>5. ASSUME NEW a \in associated, Syncing(r), a[1] = refresh[r].run, Has(r, a)
      PROVE  \/ a \in decided'
             \/ m \in Refresh /\ \E c \in m.found : c[1] = a[2] /\ c[2] = a[3]
             \/ m \notin Refresh /\ (a[1] \in lost' \/ crashes' > 0)
    <2>1. PICK c \in refresh[r].found : c[1] = a[2] /\ c[2] = a[3] BY <1>5 DEF Has
    <2>2. a = <<refresh[r].run, c[1], c[2]>> BY <1>2, <1>5, <2>1
    <2> QED BY <1>5, <2>1, <2>2
<1>6. ASSUME NEW a \in associated'
      PROVE  a \in decided' \/ Held(a)' \/ a[1] \in lost' \/ crashes' > 0
    <2>1. ASSUME m \in Refresh, m.run = a[1], \E c \in m.found : c[1] = a[2] /\ c[2] = a[3]
          PROVE  Held(a)'
        BY <1>1, <2>1 DEF Held
    <2>2. CASE a \in associated /\ Held(a)
        <3>1. PICK s \in Runner : Syncing(s) /\ refresh[s].run = a[1] /\ Has(s, a)
            BY <2>2 DEF Held, Has
        <3>2. CASE s # r BY <1>1, <3>1, <3>2 DEF Held, Has
        <3>3. CASE s = r BY <1>5, <2>1, <2>2, <3>1, <3>3
        <3> QED BY <3>2, <3>3
    <2>3. CASE a \in associated /\ ~ Held(a) BY <2>3 DEF Kept, NothingDropped
    <2>4. CASE a \notin associated BY <2>1, <2>4
    <2> QED BY <2>2, <2>3, <2>4
<1>7. ASSUME NEW s \in Runner, Syncing(s)', refresh'[s].pc # "done",
             NEW a \in associated', a[1] = refresh'[s].run
      PROVE  a \in decided' \/ Has(s, a)'
    <2>1. CASE s # r
        <3>1. refresh'[s] = refresh[s] /\ Syncing(s) BY <1>1, <1>7, <2>1
        <3>2. CASE a \in associated BY <1>7, <3>1, <3>2 DEF Kept, Has
        <3>3. CASE a \notin associated
            <4>1. Syncing(r) /\ refresh[r].pc # "done" /\ a[1] = refresh[r].run BY <3>3
            <4> QED BY <1>7, <2>1, <3>1, <4>1 DEF Typed, Refreshes
        <3> QED BY <3>2, <3>3
    <2>2. CASE s = r
        <3>1. m \in Refresh /\ refresh'[r] = m /\ Syncing(r) /\ refresh[r].pc # "done"
              /\ a[1] = refresh[r].run
            BY <1>1, <1>7, <2>2
        <3>2. CASE a \in associated
            <4>1. a \in decided \/ Has(r, a) BY <3>1, <3>2 DEF Kept
            <4> QED BY <1>5, <2>2, <3>1, <3>2, <4>1 DEF Has
        <3>3. CASE a \notin associated BY <2>2, <3>1, <3>3 DEF Has
        <3> QED BY <3>2, <3>3
    <2> QED BY <2>1, <2>2
<1> QED BY <1>4, <1>6, <1>7 DEF Kept, NothingDropped

\* What works beside the scheduled task is seen by it.
LEMMA CountedBeside ==
    ASSUME Sensible, Typed, Counted, NEW r \in Runner, r # Scheduled, Busy(r), NEW m, Moves(r, m)
    PROVE  Counted'
<1>1. refresh'[Scheduled] = refresh[Scheduled] BY MoveFacts DEF Sensible
<1>2. Syncing(Scheduled)' <=> Syncing(Scheduled) BY <1>1 DEF Syncing
<1>3. Busy(Scheduled) => ~ refresh[Scheduled].alone BY DEF Typed, Refreshes
<1>4. Syncing(Scheduled) \/ refresh[Scheduled].pc = "reported" => Busy(Scheduled)
    BY DEF Syncing, Busy
<1> QED BY <1>1, <1>2, <1>3, <1>4 DEF Counted

\* A refresh that tells nothing new and goes on with rows it had.
LEMMA SingleMove ==
    ASSUME Typed, NEW r \in Runner, NEW m, Moves(r, m), NEW t \in Target, NEW f \in Filing,
           Single(t, f), published'[f] = published[f],
           target[t].lastSync \in Nat, target'[t].lastSync \in Nat,
           target[t].lastSync <= target'[t].lastSync,
           linked \subseteq linked', pulled[f] # 0 => pulled'[f] # 0 /\ edition'[f] = edition[f],
           m \in Refresh =>
              /\ Syncing(r) /\ Rows(m) \subseteq Rows(refresh[r])
              /\ <<t, f, "eligible">> \in m.found => <<t, f, "eligible">> \in refresh[r].found,
           \/ queued'[<<t, f>>] = queued[<<t, f>>]
           \/ /\ queued'[<<t, f>>] = queued[<<t, f>>] + 1
              /\ Syncing(r) /\ <<t, f, "eligible">> \in refresh[r].found
              /\ m \in Refresh => <<t, f, "eligible">> \notin m.found,
           m \in Refresh /\ m.pc = "link" /\ m.row.id = t /\ m.item.filing = f =>
              \/ pulled'[f] # 0 /\ m.item.edition = edition'[f]
              \/ published[f] <= m.row.previous
    PROVE  Single(t, f)'
<1>1. /\ \A s \in Runner : refresh'[s] = IF s = r THEN m ELSE refresh[s]
      /\ \A s \in Runner : s # r => (Syncing(s)' <=> Syncing(s))
      /\ Syncing(r)' <=> m \in Refresh
    BY MoveFacts
<1>2. \A s \in Runner : Holds(s, t, f)' => Holds(s, t, f) BY <1>1 DEF Holds
<1>3. published[f] \in Nat /\ queued[<<t, f>>] \in Nat BY DEF Typed, Clocks, Pairs
<1>4. Current(t, f) => Current(t, f)'
    <2> SUFFICES ASSUME Current(t, f) PROVE Current(t, f)' OBVIOUS
    <2>1. published'[f] <= target'[t].lastSync BY <1>3 DEF Current
    <2>2. ASSUME NEW s \in Runner, Syncing(s)', NEW row \in Rows(refresh'[s]), row.id = t
          PROVE  published'[f] <= row.previous
        <3>1. Syncing(s) /\ row \in Rows(refresh[s])
            <4>1. CASE s = r BY <1>1, <2>2, <4>1
            <4>2. CASE s # r BY <1>1, <2>2, <4>2
            <4> QED BY <4>1, <4>2
        <3> QED BY <2>2, <3>1 DEF Current
    <2> QED BY <2>1, <2>2 DEF Current
<1>5. There(t, f) => There(t, f)' BY DEF There
<1>6. CASE queued'[<<t, f>>] = queued[<<t, f>>]
    <2>1. Told(t, f)' => Told(t, f) BY <1>2, <1>6 DEF Told
    <2>2. ASSUME NEW s \in Runner, Links(s, t, f)'
          PROVE  \/ pulled'[f] # 0 /\ refresh'[s].item.edition = edition'[f]
                 \/ published'[f] <= refresh'[s].row.previous
        <3>1. CASE s = r BY <1>1, <2>2, <3>1 DEF Links
        <3>2. CASE s # r BY <1>1, <2>2, <3>2 DEF Links, Single
        <3> QED BY <3>1, <3>2
    <2> QED BY <1>2, <1>4, <1>5, <1>6, <2>1, <2>2 DEF Single
<1>7. CASE queued'[<<t, f>>] # queued[<<t, f>>]
    <2>1. Holds(r, t, f) /\ ~ Holds(r, t, f)' BY <1>1, <1>7 DEF Holds
    <2>2. queued[<<t, f>>] = 0 /\ (\A s \in Runner : Holds(s, t, f) => s = r) BY <2>1 DEF Single
    <2>3. queued'[<<t, f>>] = 1 /\ \A s \in Runner : ~ Holds(s, t, f)'
        BY <1>2, <1>7, <2>1, <2>2
    <2>4. Told(t, f) BY <2>1 DEF Told
    <2>5. ASSUME NEW s \in Runner, Links(s, t, f)'
          PROVE  \/ pulled'[f] # 0 /\ refresh'[s].item.edition = edition'[f]
                 \/ published'[f] <= refresh'[s].row.previous
        <3>1. CASE s = r BY <1>1, <2>5, <3>1 DEF Links
        <3>2. CASE s # r BY <1>1, <2>5, <3>2 DEF Links, Single
        <3> QED BY <3>1, <3>2
    <2> QED BY <1>4, <1>5, <2>3, <2>4, <2>5 DEF Single
<1> QED BY <1>6, <1>7

\* A step of one refresh that links nothing and tells nothing new.
LEMMA AnyMove ==
    ASSUME Sensible, Inv, NEW r \in Runner, NEW m, refresh' = [refresh EXCEPT ![r] = m],
           UNCHANGED <<now, published, associated, early>>, Clocks',
           \A t \in Target : target[t].lastSync <= target'[t].lastSync,
           linked \subseteq linked', decided \subseteq decided', lost \subseteq lost',
           crashes > 0 => crashes' > 0,
           \A f \in Filing : /\ edition[f] <= edition'[f]
                             /\ pulled[f] # 0 => pulled'[f] # 0 /\ edition'[f] = edition[f],
           \/ runs' = runs
           \/ /\ Syncing(r) /\ refresh[r].pc # "done" /\ (m # Idle => m.pc = "done")
              /\ \E status \in Statuses :
                    /\ runs' = [runs EXCEPT ![refresh[r].run] = status]
                    /\ status \in {"success", "partial"} => refresh[r].found = {},
           \/ m = Idle
           \/ /\ Busy(r) /\ r = Scheduled /\ m \in Reported
              /\ m.since = refresh[r].since /\ m.alone = refresh[r].alone
           \/ /\ Syncing(r) /\ RefreshFits(r, m) /\ m.run = refresh[r].run
              /\ m.since = refresh[r].since /\ m.alone = refresh[r].alone
              /\ m.found \subseteq refresh[r].found /\ Rows(m) \subseteq Rows(refresh[r])
              /\ refresh[r].pc # "done"
              /\ m.pc = "link" => \/ /\ pulled'[m.item.filing] # 0
                                     /\ m.item.edition = edition'[m.item.filing]
                                  \/ published[m.item.filing] <= m.row.previous,
           Syncing(r) => \A c \in refresh[r].found :
              \/ <<refresh[r].run, c[1], c[2]>> \in decided'
              \/ m \in Refresh /\ c \in m.found
              \/ m \notin Refresh /\ (refresh[r].run \in lost' \/ crashes' > 0),
           \A t \in Target, f \in Filing :
              \/ queued'[<<t, f>>] = queued[<<t, f>>]
              \/ /\ queued'[<<t, f>>] = queued[<<t, f>>] + 1
                 /\ Syncing(r) /\ <<t, f, "eligible">> \in refresh[r].found
                 /\ m \in Refresh => <<t, f, "eligible">> \notin m.found,
           Busy(r) /\ (r = Scheduled => Counted')
    PROVE  Inv'
<1>1. Typed /\ Kept /\ Counted BY DEF Inv
<1>2. m \in Reported => m \notin Refresh
    <2>1. m \in Refresh => m.pc \in Phases BY DEF Refresh
    <2>2. m \in Reported => m.pc = "reported" BY DEF Reported
    <2> QED BY <2>1, <2>2 DEF Phases
<1>3. Idle \notin Refresh
    <2>1. \A n \in Refresh : n.pc \in Phases BY DEF Refresh
    <2> QED BY <2>1 DEF Idle, Phases
<1>4. Moves(r, m) BY DEF Moves, RefreshFits
<1>5. m \in Refresh => /\ Syncing(r) /\ RefreshFits(r, m) /\ m.run = refresh[r].run
                       /\ m.found \subseteq refresh[r].found /\ Rows(m) \subseteq Rows(refresh[r])
                       /\ refresh[r].pc # "done"
                       /\ m.pc = "link" => \/ /\ pulled'[m.item.filing] # 0
                                              /\ m.item.edition = edition'[m.item.filing]
                                           \/ published[m.item.filing] <= m.row.previous
    BY <1>2, <1>3
<1>6. Refreshes'
    <2>1. edition' \in [Filing -> Nat] BY DEF Clocks
    <2> QED BY <1>1, <2>1, RunnerMoves
<1>7. Kept' BY <1>1, <1>4, <1>5, KeptMove
<1>8. Counted' BY <1>1, <1>4, CountedBeside
<1>9. ASSUME NEW t \in Target, NEW f \in Filing, <<t, f>> \notin early' PROVE Single(t, f)'
    <2>1. Single(t, f) BY <1>9 DEF Inv, Announced
    <2>2. target[t].lastSync \in Nat /\ target'[t].lastSync \in Nat
        <3>1. target[t] \in [enabled : BOOLEAN, lastSync : 0..now] BY <1>1 DEF Typed, Clocks
        <3>2. target'[t] \in [enabled : BOOLEAN, lastSync : 0..now'] BY DEF Clocks
        <3> QED BY <3>1, <3>2
    <2> QED BY <1>1, <1>4, <1>5, <2>1, <2>2, SingleMove
<1> QED BY <1>6, <1>7, <1>8, <1>9 DEF Inv, Typed, Announced

\* A step that stores, sends and decides nothing.
LEMMA QuietMove ==
    ASSUME Sensible, Inv, NEW r \in Runner, NEW m, refresh' = [refresh EXCEPT ![r] = m],
           UNCHANGED <<now, published, pulled, edition, linked, histories>>, Clocks',
           \A t \in Target : target[t].lastSync <= target'[t].lastSync,
           \/ runs' = runs
           \/ /\ Syncing(r) /\ refresh[r].pc # "done" /\ (m # Idle => m.pc = "done")
              /\ \E status \in Statuses :
                    /\ runs' = [runs EXCEPT ![refresh[r].run] = status]
                    /\ status \in {"success", "partial"} => refresh[r].found = {},
           \/ m = Idle
           \/ /\ Busy(r) /\ r = Scheduled /\ m \in Reported
              /\ m.since = refresh[r].since /\ m.alone = refresh[r].alone
           \/ /\ Syncing(r) /\ RefreshFits(r, m) /\ m.run = refresh[r].run
              /\ m.since = refresh[r].since /\ m.alone = refresh[r].alone
              /\ m.found = refresh[r].found /\ Rows(m) \subseteq Rows(refresh[r])
              /\ refresh[r].pc # "done" /\ m.pc # "link",
           crashes > 0 => crashes' > 0,
           Syncing(r) => m \in Refresh \/ refresh[r].found = {} \/ crashes' > 0,
           Busy(r) /\ (r = Scheduled => Counted')
    PROVE  Inv'
<1>1. \A f \in Filing : edition[f] \in Nat BY DEF Inv, Typed, Clocks
<1>2. UNCHANGED <<associated, early, decided, lost, queued>> BY DEF histories
<1>3. \A f \in Filing : /\ edition[f] <= edition'[f]
                        /\ pulled[f] # 0 => pulled'[f] # 0 /\ edition'[f] = edition[f]
    BY <1>1
<1>4. linked \subseteq linked' /\ decided \subseteq decided' /\ lost \subseteq lost' BY <1>2
<1>5. \/ m = Idle
      \/ /\ Busy(r) /\ r = Scheduled /\ m \in Reported
         /\ m.since = refresh[r].since /\ m.alone = refresh[r].alone
      \/ /\ Syncing(r) /\ RefreshFits(r, m) /\ m.run = refresh[r].run
         /\ m.since = refresh[r].since /\ m.alone = refresh[r].alone
         /\ m.found \subseteq refresh[r].found /\ Rows(m) \subseteq Rows(refresh[r])
         /\ refresh[r].pc # "done"
         /\ m.pc = "link" => \/ /\ pulled'[m.item.filing] # 0
                                /\ m.item.edition = edition'[m.item.filing]
                             \/ published[m.item.filing] <= m.row.previous
    OBVIOUS
<1>6. m \in Refresh => m.found = refresh[r].found
    <2>1. Idle \notin Refresh
        <3>1. \A n \in Refresh : n.pc \in Phases BY DEF Refresh
        <3> QED BY <3>1 DEF Idle, Phases
    <2>2. m \in Reported => m \notin Refresh
        <3>1. m \in Refresh => m.pc \in Phases BY DEF Refresh
        <3>2. m \in Reported => m.pc = "reported" BY DEF Reported
        <3> QED BY <3>1, <3>2 DEF Phases
    <2> QED BY <2>1, <2>2
<1>7. Syncing(r) => \A c \in refresh[r].found :
         \/ <<refresh[r].run, c[1], c[2]>> \in decided'
         \/ m \in Refresh /\ c \in m.found
         \/ m \notin Refresh /\ (refresh[r].run \in lost' \/ crashes' > 0)
    BY <1>6
<1>8. \A t \in Target, f \in Filing :
         \/ queued'[<<t, f>>] = queued[<<t, f>>]
         \/ /\ queued'[<<t, f>>] = queued[<<t, f>>] + 1
            /\ Syncing(r) /\ <<t, f, "eligible">> \in refresh[r].found
            /\ m \in Refresh => <<t, f, "eligible">> \notin m.found
    BY <1>2
<1> QED BY <1>2, <1>3, <1>4, <1>5, <1>7, <1>8, AnyMove
-----------------------------------------------------------------------------
(* The steps of a refresh                                                  *)

\* Of the rows still to do there is a first one.
LEMMA FirstRow ==
    ASSUME Sensible, NEW T \in SUBSET RowOf, T # {}
    PROVE  \E row \in T : \A other \in T : row.id <= other.id
<1> DEFINE S == {row.id : row \in T}
           Down(t) == {u \in S : u < t}
           D == {Down(t) : t \in S}
<1>1. S \subseteq Target /\ S # {} /\ S \subseteq Nat BY DEF RowOf, Sensible
<1>2. IsFiniteSet(S) BY <1>1, FS_Subset DEF Sensible
<1>3. \A t \in S : Down(t) \in SUBSET S /\ IsFiniteSet(Down(t)) BY <1>2, FS_Subset
<1>4. D \subseteq FiniteSubsetsOf(S) /\ D # {}
    <2> HIDE DEF S
    <2> QED BY <1>1, <1>3 DEF FiniteSubsetsOf
<1>5. PICK U \in D : \A V \in D : ~(<<V, U>> \in StrictSubsetOrdering(S))
    <2>1. IsWellFoundedOn(StrictSubsetOrdering(S), FiniteSubsetsOf(S))
        BY <1>2, FS_StrictSubsetOrderingWellFounded
    <2> HIDE DEF D
    <2> QED BY <1>4, <2>1, WFMin
<1>6. PICK t \in S : U = Down(t) BY <1>5
<1>7. Down(t) = {}
    <2> SUFFICES ASSUME NEW u \in Down(t) PROVE FALSE OBVIOUS
    <2> HIDE DEF S
    <2>1. u \in S /\ u < t /\ t \in Int /\ u \in Int BY <1>1
    <2>2. \A w \in Down(u) : w \in Down(t) BY <1>1, <2>1
    <2>3. u \notin Down(u) BY <2>1
    <2>4. Down(u) \subseteq Down(t) /\ u \notin Down(u)
        <3> HIDE DEF Down
        <3> QED BY <2>2, <2>3
    <2>5. <<Down(u), Down(t)>> \in StrictSubsetOrdering(S) BY <2>1, <2>4 DEF StrictSubsetOrdering
    <2> QED BY <1>5, <1>6, <2>1, <2>5
<1>8. \A u \in S : t <= u
    <2> HIDE DEF S
    <2> QED BY <1>1, <1>7
<1>9. PICK row \in T : row.id = t OBVIOUS
<1> QED BY <1>8, <1>9

LEMMA RowThere ==
    ASSUME Sensible, Typed, NEW r \in Runner, Working(r)
    PROVE  /\ refresh[r] \in Refresh /\ refresh[r].pc = "next" /\ Syncing(r)
           /\ RefreshFits(r, refresh[r]) /\ Row(r) \in refresh[r].todo
<1>1. Syncing(r) /\ refresh[r].pc = "next" BY DEF Working, Syncing
<1>2. refresh[r] \in Refresh /\ RefreshFits(r, refresh[r]) BY <1>1 DEF Typed, Refreshes, RefreshFits
<1>3. refresh[r].todo \in SUBSET RowOf /\ refresh[r].todo # {} BY <1>2 DEF Refresh, Working
<1>4. Row(r) \in refresh[r].todo BY <1>3, FirstRow DEF Row
<1> QED BY <1>1, <1>2, <1>4

\* The clocks stay, but for what a refresh notes of a target.
LEMMA ClocksNote ==
    ASSUME Typed, NEW t \in Target, MarkTargetSync(t), failures' \in Failures,
           UNCHANGED <<now, published, pulled, edition, linked, runs, histories>>, crashes' \in Nat
    PROVE  /\ Clocks'
           /\ \A u \in Target : /\ target[u].lastSync <= target'[u].lastSync
                                /\ target[u].lastSync \in Nat /\ target'[u].lastSync \in Nat
                                /\ target'[u].enabled = target[u].enabled
           /\ target'[t].lastSync = now
<1>1. target \in [Target -> [enabled : BOOLEAN, lastSync : 0..now]] /\ now \in Nat
    BY DEF Typed, Clocks
<1>2. target' = [target EXCEPT ![t].lastSync = now] BY DEF MarkTargetSync
<1>3. \A u \in Target : target[u].lastSync \in 0..now BY <1>1
<1>4. \A u \in Target : /\ target'[u].enabled = target[u].enabled
                        /\ target'[u].lastSync = IF u = t THEN now ELSE target[u].lastSync
    BY <1>1, <1>2
<1>5. target' \in [Target -> [enabled : BOOLEAN, lastSync : 0..now]] BY <1>1, <1>2
<1>6. \A u \in Target : target[u].lastSync <= target'[u].lastSync /\ target'[u].lastSync \in Nat
    BY <1>1, <1>3, <1>4
<1>7. Clocks' BY <1>5 DEF Typed, Clocks, histories
<1> QED BY <1>3, <1>4, <1>6, <1>7

LEMMA LogFacts ==
    ASSUME Typed
    PROVE  /\ failures \in Seq(Entry)
           /\ \A i \in DOMAIN failures : failures[i].target \in Target
<1>1. failures \in Seq(Entry) BY DEF Typed, Clocks, Failures
<1>2. \A i \in DOMAIN failures : failures[i] \in Entry BY <1>1
<1> QED BY <1>1, <1>2 DEF Entry

LEMMA DeferStep ==
    ASSUME Sensible, Inv, NEW r \in Runner, Defer(r)
    PROVE  Inv'
<1> DEFINE old == refresh[r]
<1>1. PICK row : row = Row(r) OBVIOUS
<1>2. /\ old \in Refresh /\ old.pc = "next" /\ Syncing(r) /\ RefreshFits(r, old) /\ row \in old.todo
      /\ row.id \in Target
    <2>1. Working(r) BY DEF Defer
    <2> QED BY <1>1, <2>1, RowThere DEF Inv, Refresh, RowOf
<1> DEFINE m == [old EXCEPT !.todo = @ \ {row}, !.deferred = @ \cup {row.id}]
<1>3. refresh' = [refresh EXCEPT ![r] = m]
    <2>1. refresh \in [Runner -> {Idle} \cup Refresh \cup Reported] BY DEF Inv, Typed, Refreshes
    <2> QED BY <1>1, <2>1 DEF Defer
<1>4. /\ m \in Refresh /\ m.pc = "next" /\ m.trigger = old.trigger /\ m.run = old.run
      /\ m.since = old.since /\ m.todo = old.todo \ {row} /\ m.items = old.items
      /\ m.item = old.item /\ m.found = old.found /\ m.failed = old.failed /\ m.deferred = old.deferred \cup {row.id}
      /\ m.checked = old.checked /\ m.earlier = old.earlier /\ m.alone = old.alone
    BY <1>2 DEF Refresh, Phases
<1> HIDE DEF m
<1>5. PassFits(m)
    <2>1. PassFits(old) BY <1>2 DEF RefreshFits
    <2>2. Ids(m) \subseteq Ids(old) /\ row.id \in Ids(old) /\ row.id \notin Ids(m)
        BY <1>2, <1>4, <2>1 DEF Ids, PassFits
    <2>3. Open(m) = Ids(m) /\ Open(old) = Ids(old) BY <1>2, <1>4 DEF Open, Storing
    <2> QED BY <1>2, <1>4, <2>1, <2>2, <2>3 DEF PassFits, Storing
<1>20. ItemFits(m) BY <1>2, <1>4 DEF RefreshFits, ItemFits, Storing
<1>6. RefreshFits(r, m) BY <1>2, <1>4, <1>5, <1>20, SameRun
<1>7. Rows(m) \subseteq Rows(old) BY <1>2, <1>4 DEF Rows, Storing
<1>8. UNCHANGED <<now, published, pulled, edition, linked, histories, runs, failures, crashes>>
      /\ MarkTargetSync(row.id)
    BY <1>1 DEF Defer
<1>9. /\ Clocks'
      /\ \A u \in Target : /\ target[u].lastSync <= target'[u].lastSync
                           /\ target[u].lastSync \in Nat /\ target'[u].lastSync \in Nat
                           /\ target'[u].enabled = target[u].enabled
    BY <1>2, <1>8, ClocksNote DEF Inv, Typed, Clocks, histories
<1>10. r = Scheduled => Counted'
    <2> SUFFICES ASSUME r = Scheduled PROVE Counted' OBVIOUS
    <2>1. refresh'[Scheduled] = m /\ Syncing(Scheduled) BY <1>2, <1>3, <1>4 DEF Inv, Typed, Refreshes
    <2>2. Open(old) \subseteq Open(m) \cup {row.id} BY <1>2, <1>4 DEF Open, Storing, Ids
    <2>3. \A i \in DOMAIN failures : failures[i].target \in Target BY LogFacts DEF Inv
    <2> QED BY <1>2, <1>4, <1>8, <1>9, <2>1, <2>2, <2>3 DEF Inv, Counted
<1> QED BY <1>2, <1>3, <1>4, <1>6, <1>7, <1>8, <1>9, <1>10, QuietMove, PhaseFacts DEF Inv

LEMMA FailStep ==
    ASSUME Sensible, Inv, NEW r \in Runner, Fail(r)
    PROVE  Inv'
<1> DEFINE old == refresh[r]
<1>1. PICK row : row = Row(r) OBVIOUS
<1>2. /\ old \in Refresh /\ old.pc = "next" /\ Syncing(r) /\ RefreshFits(r, old) /\ row \in old.todo
      /\ row.id \in Target
    <2>1. Working(r) BY DEF Fail
    <2> QED BY <1>1, <2>1, RowThere DEF Inv, Refresh, RowOf
<1> DEFINE m == [old EXCEPT !.todo = @ \ {row}, !.failed = @ \cup {row.id}]
<1>3. refresh' = [refresh EXCEPT ![r] = m]
    <2>1. refresh \in [Runner -> {Idle} \cup Refresh \cup Reported] BY DEF Inv, Typed, Refreshes
    <2> QED BY <1>1, <2>1 DEF Fail
<1>4. /\ m \in Refresh /\ m.pc = "next" /\ m.trigger = old.trigger /\ m.run = old.run
      /\ m.since = old.since /\ m.todo = old.todo \ {row} /\ m.items = old.items
      /\ m.item = old.item /\ m.found = old.found /\ m.failed = old.failed \cup {row.id} /\ m.deferred = old.deferred
      /\ m.checked = old.checked /\ m.earlier = old.earlier /\ m.alone = old.alone
    BY <1>2 DEF Refresh, Phases
<1> HIDE DEF m
<1>5. PassFits(m)
    <2>1. PassFits(old) BY <1>2 DEF RefreshFits
    <2>2. Ids(m) \subseteq Ids(old) /\ row.id \in Ids(old) /\ row.id \notin Ids(m)
        BY <1>2, <1>4, <2>1 DEF Ids, PassFits
    <2>3. Open(m) = Ids(m) /\ Open(old) = Ids(old) BY <1>2, <1>4 DEF Open, Storing
    <2> QED BY <1>2, <1>4, <2>1, <2>2, <2>3 DEF PassFits, Storing
<1>20. ItemFits(m) BY <1>2, <1>4 DEF RefreshFits, ItemFits, Storing
<1>6. RefreshFits(r, m) BY <1>2, <1>4, <1>5, <1>20, SameRun
<1>7. Rows(m) \subseteq Rows(old) BY <1>2, <1>4 DEF Rows, Storing
<1>8. UNCHANGED <<now, published, pulled, edition, linked, histories, runs, crashes>>
      /\ MarkTargetSync(row.id)
    BY <1>1 DEF Fail
<1>9. PICK kind \in Kinds : failures' = Append(failures, Failure(row.id, kind))
    BY <1>1 DEF Fail
<1>10. PICK e : e = Failure(row.id, kind) OBVIOUS
<1>11. e \in Entry /\ e.target = row.id
    BY <1>2, <1>10 DEF Entry, Failure, Inv, Typed, Clocks
<1>12. failures \in Seq(Entry) /\ \A i \in DOMAIN failures : failures[i].target \in Target
    BY LogFacts DEF Inv
<1>13. /\ failures' \in Failures
       /\ \A i \in DOMAIN failures' : failures'[i] = e \/ (i \in DOMAIN failures /\ failures'[i] = failures[i])
    BY <1>9, <1>10, <1>11, <1>12 DEF Failures
<1>14. /\ Clocks'
       /\ \A u \in Target : /\ target[u].lastSync <= target'[u].lastSync
                            /\ target[u].lastSync \in Nat /\ target'[u].lastSync \in Nat
                            /\ target'[u].enabled = target[u].enabled
    BY <1>2, <1>8, <1>13, ClocksNote DEF Inv, Typed, Clocks, histories
<1>15. r = Scheduled => Counted'
    <2> SUFFICES ASSUME r = Scheduled PROVE Counted' OBVIOUS
    <2>1. refresh'[Scheduled] = m /\ Syncing(Scheduled) BY <1>2, <1>3, <1>4 DEF Inv, Typed, Refreshes
    <2>2. Open(old) \subseteq Open(m) \cup {row.id} BY <1>2, <1>4 DEF Open, Storing, Ids
    <2> QED BY <1>2, <1>4, <1>8, <1>11, <1>12, <1>13, <1>14, <2>1, <2>2 DEF Inv, Counted
<1> QED BY <1>2, <1>3, <1>4, <1>6, <1>7, <1>8, <1>14, <1>15, QuietMove, PhaseFacts DEF Inv

LEMMA ListStep ==
    ASSUME Sensible, Inv, NEW r \in Runner, List(r)
    PROVE  Inv'
<1> DEFINE old == refresh[r]
           listed == {f \in Filing : published[f] # 0}
<1>1. PICK row : row = Row(r) OBVIOUS
<1>2. /\ old \in Refresh /\ old.pc = "next" /\ Syncing(r) /\ RefreshFits(r, old) /\ row \in old.todo
      /\ row.id \in Target /\ row \in RowOf
    <2>1. Working(r) BY DEF List
    <2> QED BY <1>1, <2>1, RowThere DEF Inv, Refresh, RowOf
<1> DEFINE m == [old EXCEPT !.pc = "store", !.row = row, !.todo = @ \ {row}, !.items = listed]
<1>3. refresh' = [refresh EXCEPT ![r] = m]
    <2>1. refresh \in [Runner -> {Idle} \cup Refresh \cup Reported] BY DEF Inv, Typed, Refreshes
    <2> QED BY <1>1, <2>1 DEF List
<1>4. /\ m \in Refresh /\ m.pc = "store" /\ m.trigger = old.trigger /\ m.run = old.run
      /\ m.since = old.since /\ m.row = row /\ m.todo = old.todo \ {row} /\ m.items = listed
      /\ m.item = old.item /\ m.found = old.found /\ m.failed = old.failed /\ m.deferred = old.deferred
      /\ m.checked = old.checked /\ m.earlier = old.earlier /\ m.alone = old.alone
    BY <1>2 DEF Refresh, RowOf, Phases
<1>5. \A f \in m.items : published[f] # 0 BY <1>4
<1>6. PICK n : n = m OBVIOUS
<1> HIDE DEF m
<1>7. PassFits(m) /\ Open(m) = Open(old)
    <2>1. PassFits(old) BY <1>2 DEF RefreshFits
    <2>2. Ids(m) \subseteq Ids(old) /\ row.id \in Ids(old) /\ row.id \notin Ids(m)
          /\ Ids(old) \subseteq Ids(m) \cup {row.id}
        BY <1>2, <1>4, <2>1 DEF Ids, PassFits
    <2>3. Open(m) = Ids(m) \cup {row.id} /\ Open(old) = Ids(old) BY <1>2, <1>4 DEF Open, Storing
    <2>4. Open(m) = Open(old) BY <2>2, <2>3
    <2> QED BY <1>2, <1>4, <2>1, <2>2, <2>4 DEF PassFits, Storing
<1>20. ItemFits(m) BY <1>2, <1>4, <1>5 DEF RefreshFits, ItemFits, Storing
<1>8. RefreshFits(r, m) BY <1>2, <1>4, <1>7, <1>20, SameRun
<1>9. Rows(m) \subseteq Rows(old) BY <1>2, <1>4 DEF Rows, Storing
<1>10. UNCHANGED <<now, published, pulled, edition, linked, histories, runs, failures, crashes, target>>
    BY DEF List, tables
<1>11. Clocks' BY <1>10 DEF Inv, Typed, Clocks, histories
<1>12. \A u \in Target : /\ target[u].lastSync <= target'[u].lastSync
                         /\ target[u].lastSync \in Nat /\ target'[u].lastSync \in Nat
    BY <1>10 DEF Inv, Typed, Clocks, histories
<1>13. r = Scheduled => Counted'
    <2> SUFFICES ASSUME r = Scheduled PROVE Counted' OBVIOUS
    <2>1. refresh'[Scheduled] = m /\ Syncing(Scheduled) BY <1>2, <1>3, <1>4 DEF Inv, Typed, Refreshes
    <2> QED BY <1>2, <1>4, <1>7, <1>10, <2>1 DEF Inv, Counted
<1> QED BY <1>2, <1>3, <1>4, <1>6, <1>8, <1>9, <1>10, <1>11, <1>12, <1>13, QuietMove, PhaseFacts DEF Inv

\* A task that is over counts nothing any more.
LEMMA CountedIdle ==
    ASSUME Sensible, Typed, refresh' = [refresh EXCEPT ![Scheduled] = Idle]
    PROVE  Counted'
<1>1. refresh'[Scheduled] = Idle BY DEF Sensible, Typed, Refreshes
<1> QED BY <1>1 DEF Counted, Syncing, Idle

LEMMA SucceedStep ==
    ASSUME Sensible, Inv, NEW r \in Runner, Succeed(r)
    PROVE  Inv'
<1> DEFINE old == refresh[r]
           m == [old EXCEPT !.pc = "next"]
<1>1. PICK t : t = old.row.id OBVIOUS
<1>2. /\ old \in Refresh /\ Syncing(r) /\ Busy(r) /\ RefreshFits(r, old) /\ PassFits(old)
      /\ old.pc = "store" /\ t \in Target
    <2>1. old.pc = "store" BY DEF Succeed
    <2> QED BY <1>1, <2>1, UnderWay DEF Inv, PassFits, Phases, Storing
<1>3. refresh' = [refresh EXCEPT ![r] = m]
    <2>1. refresh \in [Runner -> {Idle} \cup Refresh \cup Reported] BY DEF Inv, Typed, Refreshes
    <2> QED BY <2>1 DEF Succeed
<1>4. /\ m \in Refresh /\ m.pc = "next" /\ m.trigger = old.trigger /\ m.run = old.run
      /\ m.since = old.since /\ m.todo = old.todo /\ m.items = old.items
      /\ m.item = old.item /\ m.found = old.found /\ m.failed = old.failed /\ m.deferred = old.deferred
      /\ m.checked = old.checked /\ m.earlier = old.earlier /\ m.alone = old.alone
    BY <1>2 DEF Refresh, Phases
<1> HIDE DEF m
<1>5. Ids(m) = Ids(old) /\ Open(m) = Ids(m) /\ Open(old) = Open(m) \cup {t}
    BY <1>1, <1>2, <1>4 DEF Open, Storing, Ids
<1>6. PassFits(m) BY <1>2, <1>4, <1>5 DEF PassFits, Storing
<1>20. ItemFits(m) BY <1>2, <1>4 DEF RefreshFits, ItemFits, Storing
<1>7. RefreshFits(r, m) BY <1>2, <1>4, <1>6, <1>20, SameRun
<1>8. Rows(m) \subseteq Rows(old) BY <1>2, <1>4 DEF Rows, Storing
<1>9. UNCHANGED <<now, published, pulled, edition, linked, histories, runs, crashes>>
      /\ MarkTargetSync(t) /\ failures' = Resolved(t)
    BY <1>1 DEF Succeed
<1>10. failures \in Seq(Entry) /\ \A i \in DOMAIN failures : failures[i].target \in Target
    BY LogFacts DEF Inv
<1>11. DOMAIN failures' = DOMAIN failures /\ \A i \in DOMAIN failures :
          failures'[i] = IF failures[i].target = t THEN [failures[i] EXCEPT !.retryable = FALSE]
                         ELSE failures[i]
    BY <1>9 DEF Resolved
<1>12. \A i \in DOMAIN failures :
          /\ failures[i] \in Entry /\ failures'[i] \in Entry
          /\ failures'[i].target = failures[i].target
          /\ failures'[i].retryable => failures[i].retryable /\ failures[i].target # t
    <2>1. \A i \in DOMAIN failures : failures[i] \in Entry BY <1>10
    <2> QED BY <1>11, <2>1 DEF Entry
<1>13. failures' \in Failures
    <2>1. DOMAIN failures = 1..Len(failures) /\ Len(failures) \in Nat BY <1>10
    <2>2. failures' = [i \in 1..Len(failures) |-> failures'[i]] BY <1>9, <2>1 DEF Resolved
    <2>3. \A i \in 1..Len(failures) : failures'[i] \in Entry BY <1>12, <2>1
    <2>4. failures' \in [1..Len(failures) -> Entry] BY <2>2, <2>3
    <2> QED BY <2>1, <2>4 DEF Failures
<1>14. /\ Clocks'
       /\ \A u \in Target : /\ target[u].lastSync <= target'[u].lastSync
                            /\ target[u].lastSync \in Nat /\ target'[u].lastSync \in Nat
                            /\ target'[u].enabled = target[u].enabled
       /\ target'[t].lastSync = now
    BY <1>2, <1>9, <1>13, ClocksNote DEF Inv, Typed, Clocks, histories
<1>15. r = Scheduled => Counted'
    <2> SUFFICES ASSUME r = Scheduled PROVE Counted' OBVIOUS
    <2>1. refresh'[Scheduled] = m /\ Syncing(Scheduled) BY <1>2, <1>3, <1>4 DEF Inv, Typed, Refreshes
    <2> QED BY <1>2, <1>4, <1>5, <1>10, <1>11, <1>12, <1>14, <2>1 DEF Inv, Counted
<1> QED BY <1>1, <1>2, <1>3, <1>4, <1>7, <1>8, <1>9, <1>14, <1>15, QuietMove DEF Inv

\* The row of a run notes how it ended.
LEMMA RunEnds ==
    ASSUME Typed, NEW k \in 1..Len(runs), NEW status \in Statuses,
           runs' = [runs EXCEPT ![k] = status]
    PROVE  runs' \in Seq(Statuses) /\ Len(runs') = Len(runs)
<1>1. runs \in Seq(Statuses) BY DEF Typed, Clocks
<1> QED BY <1>1

LEMMA ReadSettingsStep ==
    ASSUME Sensible, Inv, NEW r \in Runner, ReadSettings(r)
    PROVE  Inv'
<1> DEFINE old == refresh[r]
           next == [old EXCEPT !.pc = "next"]
<1>1. /\ old \in Refresh /\ Syncing(r) /\ Busy(r) /\ RefreshFits(r, old) /\ PassFits(old)
      /\ old.pc = "settings"
    BY UnderWay DEF ReadSettings, Inv, Phases
<1>2. UNCHANGED <<now, published, pulled, edition, linked, histories, crashes, target, failures>>
    BY DEF ReadSettings
<1>3. \A u \in Target : /\ target[u].lastSync <= target'[u].lastSync
                        /\ target[u].lastSync \in Nat /\ target'[u].lastSync \in Nat
    BY <1>2 DEF Inv, Typed, Clocks, histories
<1>4. CASE refresh' = [refresh EXCEPT ![r].pc = "next"] /\ runs' = runs
    <2>1. refresh' = [refresh EXCEPT ![r] = next]
        <3>1. refresh \in [Runner -> {Idle} \cup Refresh \cup Reported] BY DEF Inv, Typed, Refreshes
        <3> QED BY <1>4, <3>1
    <2>2. /\ next \in Refresh /\ next.pc = "next" /\ next.trigger = old.trigger /\ next.run = old.run
          /\ next.since = old.since /\ next.todo = old.todo /\ next.items = old.items
          /\ next.item = old.item /\ next.found = old.found /\ next.failed = old.failed /\ next.deferred = old.deferred
          /\ next.checked = old.checked /\ next.earlier = old.earlier /\ next.alone = old.alone
        BY <1>1 DEF Refresh, Phases
    <2> HIDE DEF next
    <2>3. Ids(next) = Ids(old) /\ Open(next) = Open(old) BY <1>1, <2>2 DEF Open, Storing, Ids
    <2>4. PassFits(next) BY <1>1, <2>2, <2>3 DEF PassFits, Storing
    <2>9. ItemFits(next) BY <1>1, <2>2 DEF RefreshFits, ItemFits, Storing
    <2>5. RefreshFits(r, next) BY <1>1, <2>2, <2>4, <2>9, SameRun
    <2>6. Rows(next) \subseteq Rows(old) BY <1>1, <2>2 DEF Rows, Storing
    <2>7. Clocks' BY <1>2, <1>4 DEF Inv, Typed, Clocks, histories
    <2>8. r = Scheduled => Counted'
        <3> SUFFICES ASSUME r = Scheduled PROVE Counted' OBVIOUS
        <3>1. refresh'[Scheduled] = next /\ Syncing(Scheduled)
            BY <1>1, <2>1, <2>2 DEF Inv, Typed, Refreshes
        <3> QED BY <1>1, <1>2, <2>2, <2>3, <3>1 DEF Inv, Counted
    <2> QED BY <1>1, <1>2, <1>3, <1>4, <2>1, <2>2, <2>5, <2>6, <2>7, <2>8, QuietMove DEF Inv
<1>5. CASE refresh' = [refresh EXCEPT ![r] = Idle] /\ runs' = [runs EXCEPT ![old.run] = "failed"]
    <2>1. PICK m : m = Idle OBVIOUS
    <2>3. "failed" \in Statuses BY DEF Statuses
    <2>4. runs' \in Seq(Statuses) /\ Len(runs') = Len(runs)
        <3>1. old.run \in 1..Len(runs) BY <1>1 DEF RefreshFits
        <3> QED BY <1>5, <2>3, <3>1, RunEnds DEF Inv
    <2>5. Clocks' BY <1>2, <2>4 DEF Inv, Typed, Clocks, histories
    <2>6. old.found = {} BY <1>1 DEF PassFits, Storing
    <2>7. r = Scheduled => Counted' BY <1>5, CountedIdle DEF Inv
    <2> QED BY <1>1, <1>2, <1>3, <1>5, <2>1, <2>3, <2>5, <2>6, <2>7, QuietMove
<1> QED BY <1>4, <1>5 DEF ReadSettings, EndRun

LEMMA RestStep ==
    ASSUME Sensible, Inv, NEW r \in Runner, Rest(r)
    PROVE  Inv'
<1>1. PICK m : m = Idle OBVIOUS
<1>2. refresh' = [refresh EXCEPT ![r] = m] BY <1>1 DEF Rest
<1>3. UNCHANGED <<now, published, pulled, edition, linked, histories, crashes, target, failures, runs>>
    BY DEF Rest, tables
<1>4. \A u \in Target : /\ target[u].lastSync <= target'[u].lastSync
                        /\ target[u].lastSync \in Nat /\ target'[u].lastSync \in Nat
    BY <1>3 DEF Inv, Typed, Clocks, histories
<1>5. Clocks' BY <1>3 DEF Inv, Typed, Clocks, histories
<1>6. ~ Syncing(r) /\ Busy(r) BY DEF Rest, Syncing, Busy
<1>7. r = Scheduled => Counted' BY <1>1, <1>2, CountedIdle DEF Inv
<1> QED BY <1>1, <1>2, <1>3, <1>4, <1>5, <1>6, <1>7, QuietMove

LEMMA DeferFailsStep ==
    ASSUME Sensible, Inv, NEW r \in Runner, DeferFails(r)
    PROVE  Inv'
<1> DEFINE old == refresh[r]
<1>1. /\ old \in Refresh /\ Syncing(r) /\ Busy(r) /\ RefreshFits(r, old) /\ old.pc = "next"
    BY UnderWay DEF DeferFails, Working, Inv, Phases
<1>2. PICK m : m = Idle OBVIOUS
<1>3. UNCHANGED <<now, published, target, pulled, edition, linked, failures, histories>>
      /\ refresh' = [refresh EXCEPT ![r] = m] /\ runs' = [runs EXCEPT ![old.run] = "failed"]
      /\ crashes' = crashes + 1
    BY <1>2 DEF DeferFails, EndRun
<1>4. runs' \in Seq(Statuses) /\ Len(runs') = Len(runs) /\ "failed" \in Statuses
    <2>1. old.run \in 1..Len(runs) /\ "failed" \in Statuses BY <1>1 DEF RefreshFits, Statuses
    <2> QED BY <1>3, <2>1, RunEnds DEF Inv
<1>5. crashes \in Nat /\ crashes' > 0 BY <1>3 DEF Inv, Typed, Clocks
<1>6. Clocks' BY <1>3, <1>4, <1>5 DEF Inv, Typed, Clocks, histories
<1>7. \A u \in Target : target[u].lastSync <= target'[u].lastSync
    BY <1>3 DEF Inv, Typed, Clocks
<1>8. r = Scheduled => Counted' BY <1>2, <1>3, CountedIdle DEF Inv
<1> QED BY <1>1, <1>2, <1>3, <1>4, <1>5, <1>6, <1>7, <1>8, QuietMove

-----------------------------------------------------------------------------
(* A filing is stored, statement by statement                              *)

\* A statement of a refresh that goes on with the item: the runs, the targets and the
\* histories stay.
LEMMA ItemMove ==
    ASSUME Sensible, Inv, NEW r \in Runner, refresh[r].pc \in Storing,
           NEW m \in Refresh, refresh' = [refresh EXCEPT ![r] = m],
           UNCHANGED <<now, published, target, linked, failures, runs, crashes, histories>>,
           pulled' \in [Filing -> 0..now], edition' \in [Filing -> Nat],
           \A f \in Filing : pulled'[f] # 0 => edition'[f] # 0,
           \A f \in Filing : /\ edition[f] <= edition'[f]
                             /\ pulled[f] # 0 => pulled'[f] # 0 /\ edition'[f] = edition[f],
           m.pc \in Storing, m.trigger = refresh[r].trigger, m.run = refresh[r].run,
           m.since = refresh[r].since, m.row = refresh[r].row, m.todo = refresh[r].todo,
           m.found = refresh[r].found, m.failed = refresh[r].failed,
           m.deferred = refresh[r].deferred, m.checked = refresh[r].checked,
           m.earlier = refresh[r].earlier, m.alone = refresh[r].alone, ItemFits(m),
           m.pc = "link" => pulled[m.item.filing] # 0 /\ m.item.edition = edition[m.item.filing]
    PROVE  Inv'
<1> DEFINE old == refresh[r]
<1>1. /\ old \in Refresh /\ Syncing(r) /\ Busy(r) /\ RefreshFits(r, old) /\ PassFits(old)
      /\ old.pc \notin {"settings", "next", "done"} /\ m.pc \notin {"settings", "next", "done"}
    BY UnderWay DEF Inv, Phases, Storing
<1>2. Ids(m) = Ids(old) /\ Open(m) = Open(old) /\ Rows(m) = Rows(old)
    BY <1>1 DEF Open, Ids, Rows
<1>3. PassFits(m) BY <1>1, <1>2 DEF PassFits
<1>4. RefreshFits(r, m) BY <1>1, <1>3, SameRun
<1>5. Clocks'
    <2>1. \A f \in Filing : edition[f] \in Nat /\ edition'[f] \in Nat BY DEF Inv, Typed, Clocks
    <2>2. ASSUME NEW l \in linked PROVE l[3] \in 1..edition'[l[2]]
        <3>1. l[2] \in Filing /\ l[3] \in 1..edition[l[2]] BY DEF Inv, Typed, Clocks
        <3> QED BY <2>1, <3>1
    <2> QED BY <2>2 DEF Inv, Typed, Clocks, histories
<1>6. r = Scheduled => Counted'
    <2> SUFFICES ASSUME r = Scheduled PROVE Counted' OBVIOUS
    <2>1. refresh'[Scheduled] = m /\ Syncing(Scheduled) BY <1>1 DEF Inv, Typed, Refreshes
    <2>2. m.pc # "reported" BY <1>1, <2>1 DEF Storing
    <2>3. Counted BY DEF Inv
    <2> QED BY <1>1, <1>2, <2>1, <2>2, <2>3 DEF Counted
<1>7. m.pc = "link" => pulled'[m.item.filing] # 0 /\ m.item.edition = edition'[m.item.filing]
    BY DEF ItemFits
<1>8. UNCHANGED <<associated, early, decided, lost, queued>> BY DEF histories
<1>9. \A u \in Target : target[u].lastSync <= target'[u].lastSync BY DEF Inv, Typed, Clocks
<1>10. Syncing(r) => \A c \in refresh[r].found :
          \/ <<refresh[r].run, c[1], c[2]>> \in decided'
          \/ m \in Refresh /\ c \in m.found
          \/ m \notin Refresh /\ (refresh[r].run \in lost' \/ crashes' > 0)
    OBVIOUS
<1>11. /\ linked \subseteq linked' /\ decided \subseteq decided' /\ lost \subseteq lost'
       /\ m.found \subseteq old.found /\ Rows(m) \subseteq Rows(old)
    BY <1>2, <1>8
<1>12. \A t \in Target, f \in Filing : queued'[<<t, f>>] = queued[<<t, f>>] BY <1>8
<1> QED BY <1>1, <1>4, <1>5, <1>6, <1>7, <1>8, <1>9, <1>10, <1>11, <1>12, AnyMove

LEMMA InsertStep ==
    ASSUME Sensible, Inv, NEW r \in Runner, Insert(r)
    PROVE  Inv'
<1> DEFINE old == refresh[r]
<1>1. old \in Refresh /\ old.pc = "store" /\ ItemFits(old)
    BY UnderWay DEF Insert, Inv, Phases
<1>2. PICK f \in old.items :
         /\ refresh' = [refresh EXCEPT ![r].items = @ \ {f},
                ![r].item = [filing |-> f, at |-> now, edition |-> 0],
                ![r].pc = IF pulled[f] # 0 /\ f \in WithItems THEN "renew" ELSE "find"]
         /\ \/ pulled[f] # 0 /\ UNCHANGED <<pulled, edition>>
            \/ /\ pulled[f] = 0
               /\ pulled' = [pulled EXCEPT ![f] = now]
               /\ edition' = [edition EXCEPT ![f] = @ + 1]
    BY DEF Insert
<1>3. UNCHANGED <<now, published, target, linked, failures, runs, crashes, histories>> BY DEF Insert
<1>4. f \in Filing /\ published[f] # 0 BY <1>1 DEF Refresh, ItemFits, Storing
<1>5. PICK pc : pc = IF pulled[f] # 0 /\ f \in WithItems THEN "renew" ELSE "find" OBVIOUS
<1>6. PICK item : item = [filing |-> f, at |-> now, edition |-> 0] OBVIOUS
<1>7. /\ now \in Nat /\ now # 0 /\ pulled \in [Filing -> 0..now] /\ edition \in [Filing -> Nat]
      /\ \A g \in Filing : pulled[g] # 0 => edition[g] # 0
    BY DEF Inv, Typed, Clocks, Sensible
<1>8. pc \in {"renew", "find"} /\ item \in ItemOf /\ item.filing = f /\ item.at = now
    BY <1>4, <1>5, <1>6, <1>7 DEF ItemOf
<1> DEFINE m == [old EXCEPT !.items = @ \ {f}, !.item = item, !.pc = pc]
<1>9. refresh' = [refresh EXCEPT ![r] = m]
    <2>1. refresh \in [Runner -> {Idle} \cup Refresh \cup Reported] BY DEF Inv, Typed, Refreshes
    <2> QED BY <1>2, <1>5, <1>6, <2>1
<1>10. /\ m \in Refresh /\ m.pc = pc /\ m.trigger = old.trigger /\ m.run = old.run
       /\ m.since = old.since /\ m.row = old.row /\ m.todo = old.todo /\ m.items = old.items \ {f}
       /\ m.item = item /\ m.found = old.found /\ m.failed = old.failed /\ m.deferred = old.deferred
       /\ m.checked = old.checked /\ m.earlier = old.earlier /\ m.alone = old.alone
    BY <1>1, <1>8 DEF Refresh, Phases
<1> HIDE DEF m
<1>11. ItemFits(m) BY <1>1, <1>4, <1>7, <1>8, <1>10 DEF ItemFits, Storing
<1>12. /\ pulled' \in [Filing -> 0..now] /\ edition' \in [Filing -> Nat]
       /\ \A g \in Filing : pulled'[g] # 0 => edition'[g] # 0
       /\ \A g \in Filing : /\ edition[g] <= edition'[g]
                            /\ pulled[g] # 0 => pulled'[g] # 0 /\ edition'[g] = edition[g]
    <2>1. CASE pulled[f] # 0 /\ UNCHANGED <<pulled, edition>> BY <1>7, <2>1
    <2>2. CASE /\ pulled[f] = 0 /\ pulled' = [pulled EXCEPT ![f] = now]
               /\ edition' = [edition EXCEPT ![f] = @ + 1]
        <3>1. pulled' \in [Filing -> 0..now] BY <1>4, <1>7, <2>2
        <3>2. edition' \in [Filing -> Nat] BY <1>4, <1>7, <2>2
        <3>3. \A g \in Filing : /\ pulled'[g] = IF g = f THEN now ELSE pulled[g]
                                /\ edition'[g] = IF g = f THEN edition[g] + 1 ELSE edition[g]
            BY <1>4, <1>7, <2>2
        <3>4. \A g \in Filing : edition[g] \in Nat BY <1>7
        <3> QED BY <1>7, <2>2, <3>1, <3>2, <3>3, <3>4
    <2> QED BY <1>2, <2>1, <2>2
<1>13. m.pc \in Storing /\ old.pc \in Storing /\ m.pc # "link" BY <1>1, <1>8, <1>10 DEF Storing
<1> QED BY <1>3, <1>9, <1>10, <1>11, <1>12, <1>13, ItemMove

LEMMA RenewStep ==
    ASSUME Sensible, Inv, NEW r \in Runner, Renew(r)
    PROVE  Inv'
<1> DEFINE old == refresh[r]
           m == [old EXCEPT !.pc = "find"]
<1>1. old \in Refresh /\ old.pc = "renew" /\ ItemFits(old)
    BY UnderWay DEF Renew, Inv, Phases
<1>2. UNCHANGED <<now, published, target, edition, linked, failures, runs, crashes, histories>>
    BY DEF Renew
<1>3. PICK f, at : f = old.item.filing /\ at = old.item.at OBVIOUS
<1>4. f \in Filing /\ at \in 1..now BY <1>1, <1>3 DEF ItemFits
<1>5. pulled' = [pulled EXCEPT ![f] = IF @ = 0 THEN 0 ELSE at] BY <1>3 DEF Renew
<1>6. refresh' = [refresh EXCEPT ![r] = m]
    <2>1. refresh \in [Runner -> {Idle} \cup Refresh \cup Reported] BY DEF Inv, Typed, Refreshes
    <2> QED BY <2>1 DEF Renew
<1>7. /\ m \in Refresh /\ m.pc = "find" /\ m.trigger = old.trigger /\ m.run = old.run
      /\ m.since = old.since /\ m.row = old.row /\ m.todo = old.todo /\ m.items = old.items
      /\ m.item = old.item /\ m.found = old.found /\ m.failed = old.failed /\ m.deferred = old.deferred
      /\ m.checked = old.checked /\ m.earlier = old.earlier /\ m.alone = old.alone
    BY <1>1 DEF Refresh, Phases
<1> HIDE DEF m
<1>8. ItemFits(m) BY <1>1, <1>7 DEF ItemFits, Storing
<1>9. /\ now \in Nat /\ pulled \in [Filing -> 0..now] /\ edition \in [Filing -> Nat]
      /\ \A g \in Filing : pulled[g] # 0 => edition[g] # 0
    BY DEF Inv, Typed, Clocks
<1>10. \A g \in Filing : pulled'[g] = IF g = f THEN IF pulled[g] = 0 THEN 0 ELSE at ELSE pulled[g]
    BY <1>4, <1>5, <1>9
<1>11. pulled' \in [Filing -> 0..now]
    <2>1. \A g \in Filing : pulled'[g] \in 0..now BY <1>4, <1>9, <1>10
    <2>2. pulled' = [g \in Filing |-> pulled'[g]] BY <1>5, <1>9
    <2> QED BY <2>1, <2>2
<1>12. \A g \in Filing : pulled'[g] # 0 <=> pulled[g] # 0 BY <1>4, <1>9, <1>10
<1>13. /\ \A g \in Filing : edition[g] \in Nat /\ edition[g] <= edition'[g]
       /\ edition' \in [Filing -> Nat]
    BY <1>2, <1>9
<1>14. m.pc \in Storing /\ old.pc \in Storing BY <1>1, <1>7 DEF Storing
<1> QED BY <1>2, <1>6, <1>7, <1>8, <1>9, <1>11, <1>12, <1>13, <1>14, ItemMove

LEMMA FindStep ==
    ASSUME Sensible, Inv, NEW r \in Runner, Find(r)
    PROVE  Inv'
<1> DEFINE old == refresh[r]
<1>1. old \in Refresh /\ old.pc = "find" /\ ItemFits(old)
    BY UnderWay DEF Find, Inv, Phases
<1>2. PICK f : f = old.item.filing OBVIOUS
<1>3. UNCHANGED <<now, published, target, pulled, edition, linked, failures, runs, crashes, histories>>
      /\ pulled[f] # 0
      /\ refresh' = [refresh EXCEPT ![r].pc = "link", ![r].item.edition = edition[f]]
    BY <1>2 DEF Find, tables
<1>4. /\ pulled \in [Filing -> 0..now] /\ edition \in [Filing -> Nat]
      /\ \A g \in Filing : pulled[g] # 0 => edition[g] # 0
    BY DEF Inv, Typed, Clocks
<1>5. f \in Filing BY <1>1, <1>2 DEF ItemFits
<1>6. PICK id : id = edition[f] OBVIOUS
<1>7. id \in 1..edition[f] /\ id \in Nat BY <1>3, <1>4, <1>5, <1>6
<1>8. PICK item : item = [old.item EXCEPT !.edition = id] OBVIOUS
<1>9. item \in ItemOf /\ item.filing = f /\ item.at = old.item.at /\ item.edition = id
    <2>1. old.item \in ItemOf BY <1>1 DEF Refresh
    <2> QED BY <1>2, <1>7, <1>8, <2>1 DEF ItemOf
<1> DEFINE m == [old EXCEPT !.pc = "link", !.item = item]
<1>10. refresh' = [refresh EXCEPT ![r] = m]
    <2>1. refresh \in [Runner -> {Idle} \cup Refresh \cup Reported] BY DEF Inv, Typed, Refreshes
    <2> QED BY <1>3, <1>6, <1>8, <2>1
<1>11. /\ m \in Refresh /\ m.pc = "link" /\ m.trigger = old.trigger /\ m.run = old.run
       /\ m.since = old.since /\ m.row = old.row /\ m.todo = old.todo /\ m.items = old.items
       /\ m.item = item /\ m.found = old.found /\ m.failed = old.failed /\ m.deferred = old.deferred
       /\ m.checked = old.checked /\ m.earlier = old.earlier /\ m.alone = old.alone
    BY <1>1, <1>9 DEF Refresh, Phases
<1> HIDE DEF m
<1>12. ItemFits(m) BY <1>1, <1>2, <1>7, <1>9, <1>11 DEF ItemFits, Storing
<1>13. \A g \in Filing : edition[g] \in Nat /\ edition[g] <= edition'[g] BY <1>3, <1>4
<1>14. m.pc \in Storing /\ old.pc \in Storing BY <1>1, <1>11 DEF Storing
<1>15. pulled[m.item.filing] # 0 /\ m.item.edition = edition[m.item.filing]
    BY <1>3, <1>6, <1>9, <1>11
<1> QED BY <1>3, <1>4, <1>10, <1>11, <1>12, <1>13, <1>14, <1>15, ItemMove

\* The refresh returns, and what it held is dropped.
LEMMA AbandonStep ==
    ASSUME Sensible, Inv, NEW r \in Runner, refresh[r].pc \in Storing, Abandon(r),
           UNCHANGED <<now, published, target, pulled, edition, linked, runs,
                       queued, associated, decided, early>>,
           crashes' \in Nat, crashes > 0 => crashes' > 0, lost \subseteq lost',
           refresh[r].run \in lost' \/ crashes' > 0
    PROVE  Inv'
<1> DEFINE old == refresh[r]
<1>1. /\ old \in Refresh /\ Syncing(r) /\ Busy(r) /\ PassFits(old)
    BY UnderWay DEF Inv, Phases, Storing
<1>2. PICK m : m = Idle OBVIOUS
<1>3. refresh' = [refresh EXCEPT ![r] = m] BY <1>2 DEF Abandon
<1>4. PICK e : e = Failure(old.row.id, "unknown") OBVIOUS
<1>5. e \in Entry BY <1>1, <1>4 DEF Entry, Failure, Inv, Typed, Clocks, PassFits
<1>6. failures' = Append(failures, e) BY <1>4 DEF Abandon
<1>7. failures \in Seq(Entry) BY LogFacts DEF Inv
<1>8. failures' \in Failures BY <1>5, <1>6, <1>7 DEF Failures
<1>9. Clocks' BY <1>8 DEF Inv, Typed, Clocks
<1>10. \A f \in Filing : edition[f] \in Nat BY DEF Inv, Typed, Clocks
<1>11. \A u \in Target : target[u].lastSync <= target'[u].lastSync BY DEF Inv, Typed, Clocks
<1>12. r = Scheduled => Counted' BY <1>2, <1>3, CountedIdle DEF Inv
<1>13. m \notin Refresh
    <2>1. \A n \in Refresh : n.pc \in Phases BY DEF Refresh
    <2> QED BY <1>2, <2>1 DEF Idle, Phases
<1>14. Syncing(r) => \A c \in refresh[r].found :
          \/ <<refresh[r].run, c[1], c[2]>> \in decided'
          \/ m \in Refresh /\ c \in m.found
          \/ m \notin Refresh /\ (refresh[r].run \in lost' \/ crashes' > 0)
    BY <1>13
<1>15. \A f \in Filing : /\ edition[f] <= edition'[f]
                         /\ pulled[f] # 0 => pulled'[f] # 0 /\ edition'[f] = edition[f]
    BY <1>10
<1> QED BY <1>1, <1>2, <1>3, <1>9, <1>11, <1>12, <1>14, <1>15, AnyMove

LEMMA LoseStep ==
    ASSUME Sensible, Inv, NEW r \in Runner, Lose(r)
    PROVE  Inv'
<1>1. /\ UNCHANGED <<now, published, target, pulled, edition, linked, runs, crashes,
                     queued, associated, decided, early>>
      /\ Abandon(r) /\ lost' = lost \cup {refresh[r].run} /\ refresh[r].pc \in Storing
    BY DEF Lose, Storing
<1>2. crashes \in Nat BY DEF Inv, Typed, Clocks
<1> QED BY <1>1, <1>2, AbandonStep

LEMMA StoreFailsStep ==
    ASSUME Sensible, Inv, NEW r \in Runner, StoreFails(r)
    PROVE  Inv'
<1>1. /\ UNCHANGED <<now, published, target, pulled, edition, linked, runs,
                     queued, associated, decided, lost, early>>
      /\ Abandon(r) /\ refresh[r].pc \in Storing /\ crashes' = crashes + 1
    BY DEF StoreFails, histories
<1>2. crashes \in Nat BY DEF Inv, Typed, Clocks
<1> QED BY <1>1, <1>2, AbandonStep

\* The association: what was not linked becomes a candidate, and it becomes news only of a
\* target that was not told.
LEMMA LinkStep ==
    ASSUME Sensible, Inv, NEW r \in Runner, Link(r)
    PROVE  Inv'
<1> DEFINE old == refresh[r]
<1>1. PICK t, f, id, k : t = old.row.id /\ f = old.item.filing /\ id = old.item.edition /\ k = old.run
    OBVIOUS
<1>2. PICK l : l = <<t, f, id>> OBVIOUS
<1>3. /\ old \in Refresh /\ Syncing(r) /\ Busy(r) /\ RefreshFits(r, old) /\ PassFits(old)
      /\ ItemFits(old) /\ old.pc = "link" /\ t \in Target
    <2>1. old.pc = "link" BY DEF Link
    <2> QED BY <1>1, <2>1, UnderWay DEF Inv, PassFits, Phases, Storing
<1>4. PICK reason : reason = Reason(f, old.row.previous) OBVIOUS
<1>5. /\ UNCHANGED <<now, published, target, pulled, edition, failures, runs, crashes,
                     queued, decided, lost, early>>
      /\ linked' = linked \cup {l}
      /\ associated' = IF l \notin linked THEN associated \cup {<<k, t, f>>} ELSE associated
      /\ refresh' = [refresh EXCEPT ![r].pc = "store", ![r].item = NoItem,
             ![r].found = IF l \notin linked THEN @ \cup {<<t, f, reason>>} ELSE @]
    BY <1>1, <1>2, <1>4 DEF Link
<1>6. /\ f \in Filing /\ published[f] # 0 /\ id \in 1..edition[f] /\ reason \in Reasons
      /\ k \in 1..Len(runs) /\ k \in Nat
    BY <1>1, <1>3, <1>4 DEF ItemFits, Reason, Reasons, RefreshFits, Refresh
<1>7. PICK found : found = IF l \notin linked THEN old.found \cup {<<t, f, reason>>} ELSE old.found
    OBVIOUS
<1>8. found \in SUBSET Candidate /\ old.found \subseteq found
      /\ (\A c \in found : c \in old.found \/ (c = <<t, f, reason>> /\ l \notin linked))
      /\ (l \notin linked => <<t, f, reason>> \in found)
    BY <1>3, <1>6, <1>7 DEF Refresh, Candidate
<1>9. PICK item : item = NoItem OBVIOUS
<1>10. item \in ItemOf BY <1>9 DEF NoItem, ItemOf
<1> DEFINE m == [old EXCEPT !.pc = "store", !.item = item, !.found = found]
<1>11. refresh' = [refresh EXCEPT ![r] = m]
    <2>1. refresh \in [Runner -> {Idle} \cup Refresh \cup Reported] BY DEF Inv, Typed, Refreshes
    <2> QED BY <1>5, <1>7, <1>9, <2>1
<1>12. /\ m \in Refresh /\ m.pc = "store" /\ m.trigger = old.trigger /\ m.run = old.run
       /\ m.since = old.since /\ m.row = old.row /\ m.todo = old.todo /\ m.items = old.items
       /\ m.item = item /\ m.found = found /\ m.failed = old.failed /\ m.deferred = old.deferred
       /\ m.checked = old.checked /\ m.earlier = old.earlier /\ m.alone = old.alone
    BY <1>3, <1>8, <1>10 DEF Refresh, Phases
<1> HIDE DEF m
<1>13. Ids(m) = Ids(old) /\ Open(m) = Open(old) /\ Rows(m) = Rows(old)
    BY <1>3, <1>12 DEF Open, Ids, Rows, Storing
<1>14. PassFits(m) BY <1>3, <1>12, <1>13 DEF PassFits, Storing
<1>15. ItemFits(m)
    <2>1. \A c \in m.found : published[c[2]] # 0 BY <1>3, <1>6, <1>8, <1>12 DEF ItemFits
    <2> QED BY <1>3, <1>12, <2>1 DEF ItemFits, Storing
<1>16. RefreshFits(r, m) BY <1>3, <1>12, <1>14, <1>15, SameRun
<1>17. Moves(r, m) BY <1>11, <1>12 DEF Moves
<1>18. Typed /\ Kept /\ Counted BY DEF Inv
<1>19. Clocks'
    <2>1. ASSUME NEW h \in linked' PROVE h[1] \in Target /\ h[2] \in Filing /\ h[3] \in 1..edition[h[2]]
        <3>1. CASE h \in linked BY <1>18, <3>1 DEF Typed, Clocks
        <3>2. CASE h = l BY <1>2, <1>3, <1>6, <3>2
        <3> QED BY <1>5, <3>1, <3>2
    <2>2. associated \subseteq Nat \X Target \X Filing /\ \A a \in associated : a[1] \in 1..Len(runs)
        BY <1>18 DEF Typed, Clocks
    <2>3. associated' \subseteq Nat \X Target \X Filing /\ \A a \in associated' : a[1] \in 1..Len(runs)
        BY <1>3, <1>5, <1>6, <2>2
    <2> QED BY <1>5, <1>18, <2>1, <2>3 DEF Typed, Clocks
<1>20. Refreshes'
    <2>1. \A g \in Filing : edition[g] \in Nat /\ edition[g] <= edition'[g]
        BY <1>5, <1>18 DEF Typed, Clocks
    <2>2. edition' \in [Filing -> Nat] BY <1>5, <1>18 DEF Typed, Clocks
    <2>3. r = Scheduled \/ r # Scheduled OBVIOUS
    <2> QED BY <1>3, <1>5, <1>11, <1>12, <1>16, <1>18, <2>1, <2>2, RunnerMoves
<1>21. Kept'
    <2>1. \A a \in associated' : \/ a \in associated
                                 \/ /\ m \in Refresh /\ m.pc # "done" /\ a[1] = m.run
                                    /\ \E c \in m.found : c[1] = a[2] /\ c[2] = a[3]
        <3> SUFFICES ASSUME NEW a \in associated', a \notin associated
                     PROVE  /\ m \in Refresh /\ m.pc # "done" /\ a[1] = m.run
                            /\ \E c \in m.found : c[1] = a[2] /\ c[2] = a[3]
            OBVIOUS
        <3>1. l \notin linked /\ a = <<k, t, f>> BY <1>5
        <3>2. PICK c : c = <<t, f, reason>> OBVIOUS
        <3>3. c \in m.found /\ c[1] = a[2] /\ c[2] = a[3] BY <1>8, <1>12, <3>1, <3>2
        <3> QED BY <1>1, <1>12, <3>1, <3>3
    <2>2. Syncing(r) => \A c \in refresh[r].found :
             \/ <<refresh[r].run, c[1], c[2]>> \in decided'
             \/ m \in Refresh /\ c \in m.found
             \/ m \notin Refresh /\ (refresh[r].run \in lost' \/ crashes' > 0)
        BY <1>8, <1>12
    <2>3. decided \subseteq decided' /\ lost \subseteq lost' /\ (crashes > 0 => crashes' > 0)
        BY <1>5
    <2> QED BY <1>3, <1>5, <1>12, <1>17, <1>18, <2>1, <2>2, <2>3, KeptMove
<1>22. Counted'
    <2>1. CASE r # Scheduled BY <1>3, <1>17, <1>18, <2>1, CountedBeside
    <2>2. CASE r = Scheduled
        <3>1. refresh'[Scheduled] = m /\ Syncing(Scheduled)
            BY <1>3, <1>11, <1>18, <2>2 DEF Typed, Refreshes
        <3>2. m.pc # "reported" BY <1>12
        <3>3. failures' = failures /\ target' = target BY <1>5
        <3> QED BY <1>3, <1>12, <1>13, <1>18, <2>2, <3>1, <3>2, <3>3 DEF Counted
    <2> QED BY <2>1, <2>2
<1>23. ASSUME NEW u \in Target, NEW g \in Filing, <<u, g>> \notin early' PROVE Single(u, g)'
    <2>1. Single(u, g) /\ <<u, g>> \notin early BY <1>5, <1>23 DEF Inv, Announced
    <2>2. /\ \A s \in Runner : refresh'[s] = IF s = r THEN m ELSE refresh[s]
          /\ \A s \in Runner : Syncing(s)' <=> Syncing(s)
        BY <1>3, <1>12, <1>17, <1>18, MoveFacts
    <2>3. CASE u = t /\ g = f /\ l \notin linked /\ reason = "eligible"
        <3>1. published[f] \in Nat /\ old.row.previous \in Nat BY <1>3, <1>6, <1>18 DEF Typed, Clocks, Refresh
        <3>2. ~(published[f] <= old.row.previous) BY <1>4, <2>3, <3>1 DEF Reason
        \* The row read was still there, and it was not linked.
        <3>3. pulled[f] # 0 /\ id = edition[f] BY <1>1, <1>3, <2>1, <2>3, <3>2 DEF Single, Links
        <3>4. ~ There(t, f) BY <1>2, <2>3, <3>3 DEF There
        <3>5. ~ Current(t, f)
            <4>1. old.row \in Rows(old) /\ old.row.id = t BY <1>1, <1>3 DEF Rows, Storing
            <4> QED BY <1>3, <3>2, <4>1 DEF Current
        <3>6. ~ Told(t, f) BY <2>1, <2>3, <3>4, <3>5 DEF Single
        <3>7. queued[<<t, f>>] = 0 /\ \A s \in Runner : ~ Holds(s, t, f) BY <3>6 DEF Told
        <3>8. \A s \in Runner : Holds(s, t, f)' => s = r
            BY <2>2, <3>7 DEF Holds
        <3>9. There(t, f)' BY <1>2, <1>5, <3>3 DEF There
        <3>10. \A s \in Runner : Links(s, t, f)' => s # r /\ Links(s, t, f)
            BY <1>12, <2>2 DEF Links
        <3>11. ASSUME NEW s \in Runner, Links(s, t, f)'
               PROVE  \/ pulled'[f] # 0 /\ refresh'[s].item.edition = edition'[f]
                      \/ published'[f] <= refresh'[s].row.previous
            <4>1. s # r /\ Links(s, t, f) /\ refresh'[s] = refresh[s] BY <2>2, <3>10, <3>11
            <4> QED BY <1>5, <2>1, <2>3, <4>1 DEF Single
        <3>12. queued'[<<t, f>>] = 0 BY <1>5, <3>7
        <3>13. \A s, h \in Runner : Holds(s, t, f)' =>
                  queued'[<<t, f>>] = 0 /\ (Holds(h, t, f)' => s = h)
            BY <3>8, <3>12
        <3>14. queued'[<<t, f>>] <= 1 /\ published'[f] # 0 BY <1>5, <1>6, <3>12
        <3>16. Told(t, f)' => published'[f] # 0 /\ (There(t, f)' \/ Current(t, f)') BY <3>9, <3>14
        <3>17. \A s \in Runner : Links(s, t, f)' =>
                  \/ pulled'[f] # 0 /\ refresh'[s].item.edition = edition'[f]
                  \/ published'[f] <= refresh'[s].row.previous
            BY <3>11
        <3>15. Single(t, f)' BY <3>13, <3>14, <3>16, <3>17 DEF Single
        <3> QED BY <2>3, <3>15
    <2>4. CASE ~(u = t /\ g = f /\ l \notin linked /\ reason = "eligible")
        <3>1. <<u, g, "eligible">> \in m.found => <<u, g, "eligible">> \in old.found
            BY <1>8, <1>12, <2>4
        <3>2. target[u].lastSync \in Nat /\ target'[u] = target[u] /\ edition[g] \in Nat
            BY <1>5, <1>18 DEF Typed, Clocks
        <3>3. linked \subseteq linked' /\ queued'[<<u, g>>] = queued[<<u, g>>] /\ m.pc # "link"
              /\ Rows(m) \subseteq Rows(old) /\ published'[g] = published[g] /\ pulled'[g] = pulled[g]
              /\ edition'[g] = edition[g]
            BY <1>5, <1>12, <1>13
        <3> QED BY <1>3, <1>17, <1>18, <2>1, <3>1, <3>2, <3>3, SingleMove
    <2> QED BY <2>3, <2>4
<1> QED BY <1>18, <1>19, <1>20, <1>21, <1>22, <1>23 DEF Inv, Typed, Announced

-----------------------------------------------------------------------------
(* The candidates are handed over                                          *)

LEMMA HandOverFacts ==
    ASSUME Typed, NEW r \in Runner, NEW S \in SUBSET Candidate, HandOver(r, S)
    PROVE  /\ queued' \in [Pairs -> Nat] /\ UNCHANGED <<associated, lost, early>>
           /\ decided \subseteq decided'
           /\ \A c \in S : <<refresh[r].run, c[1], c[2]>> \in decided'
           /\ \A t \in Target, f \in Filing : queued'[<<t, f>>] =
                 IF <<t, f, "eligible">> \in S THEN queued[<<t, f>>] + 1 ELSE queued[<<t, f>>]
<1>1. queued \in [Pairs -> Nat] BY DEF Typed, Clocks
<1>2. \A p \in Pairs : queued'[p] = queued[p] + (IF <<p[1], p[2], "eligible">> \in S THEN 1 ELSE 0)
    BY DEF HandOver
<1>3. \A p \in Pairs : queued[p] \in Nat BY <1>1
<1>4. ASSUME NEW p \in Pairs
      PROVE  queued'[p] = IF <<p[1], p[2], "eligible">> \in S THEN queued[p] + 1 ELSE queued[p]
    <2>1. PICK n : n = queued[p] OBVIOUS
    <2>2. n \in Nat BY <1>3, <2>1
    <2>3. CASE <<p[1], p[2], "eligible">> \in S BY <1>2, <2>1, <2>3
    <2>4. CASE <<p[1], p[2], "eligible">> \notin S
        <3>1. queued'[p] = n + 0 BY <1>2, <2>1, <2>4
        <3> QED BY <2>1, <2>2, <2>4, <3>1
    <2> QED BY <2>3, <2>4
<1>5. queued' \in [Pairs -> Nat]
    <2>1. queued' = [p \in Pairs |-> queued'[p]] BY DEF HandOver
    <2>2. \A p \in Pairs : queued'[p] \in Nat
        <3> SUFFICES ASSUME NEW p \in Pairs PROVE queued'[p] \in Nat OBVIOUS
        <3>1. queued[p] \in Nat /\ queued[p] + 1 \in Nat BY <1>3
        <3>2. queued'[p] = queued[p] \/ queued'[p] = queued[p] + 1 BY <1>4
        <3> QED BY <3>1, <3>2
    <2> QED BY <2>1, <2>2
<1>6. ASSUME NEW t \in Target, NEW f \in Filing
      PROVE  queued'[<<t, f>>] =
                IF <<t, f, "eligible">> \in S THEN queued[<<t, f>>] + 1 ELSE queued[<<t, f>>]
    <2>1. PICK p : p = <<t, f>> OBVIOUS
    <2>2. p \in Pairs /\ p[1] = t /\ p[2] = f BY <2>1 DEF Pairs
    <2> QED BY <1>4, <2>1, <2>2
<1>7. decided' = decided \cup {<<refresh[r].run, c[1], c[2]>> : c \in S} BY DEF HandOver
<1>8. \A c \in S : <<refresh[r].run, c[1], c[2]>> \in decided' BY <1>7
<1> QED BY <1>5, <1>6, <1>7, <1>8 DEF HandOver

\* A batch is stored, and the refresh goes on without it, or the run is over.
LEMMA HandOverMove ==
    ASSUME Sensible, Inv, NEW r \in Runner, Delivering(r),
           NEW S \in SUBSET refresh[r].found, HandOver(r, S),
           NEW m, refresh' = [refresh EXCEPT ![r] = m],
           UNCHANGED <<now, published, target, pulled, edition, linked, failures>>,
           \/ /\ m = Idle /\ crashes' = crashes + 1
              /\ runs' = [runs EXCEPT ![refresh[r].run] = "failed"]
           \/ m = [refresh[r] EXCEPT !.found = @ \ S] /\ UNCHANGED <<runs, crashes>>
    PROVE  Inv'
<1> DEFINE old == refresh[r]
<1>1. /\ old \in Refresh /\ Syncing(r) /\ Busy(r) /\ RefreshFits(r, old) /\ PassFits(old)
      /\ ItemFits(old) /\ old.pc = "next" /\ old.todo = {}
    BY UnderWay DEF Inv, Delivering, Phases
<1>2. S \in SUBSET Candidate BY <1>1 DEF Refresh
<1>3. /\ queued' \in [Pairs -> Nat] /\ UNCHANGED <<associated, lost, early>>
      /\ decided \subseteq decided'
      /\ \A c \in S : <<refresh[r].run, c[1], c[2]>> \in decided'
      /\ \A t \in Target, f \in Filing : queued'[<<t, f>>] =
            IF <<t, f, "eligible">> \in S THEN queued[<<t, f>>] + 1 ELSE queued[<<t, f>>]
    BY <1>2, HandOverFacts DEF Inv
<1>4. crashes \in Nat /\ now \in Nat BY DEF Inv, Typed, Clocks
<1>5. \A f \in Filing : /\ edition[f] <= edition'[f]
                        /\ pulled[f] # 0 => pulled'[f] # 0 /\ edition'[f] = edition[f]
    BY DEF Inv, Typed, Clocks
<1>6. \A u \in Target : target[u].lastSync <= target'[u].lastSync BY DEF Inv, Typed, Clocks
<1>7. CASE /\ m = Idle /\ crashes' = crashes + 1
           /\ runs' = [runs EXCEPT ![refresh[r].run] = "failed"]
    <2>1. runs' \in Seq(Statuses) /\ Len(runs') = Len(runs) /\ "failed" \in Statuses
        <3>1. old.run \in 1..Len(runs) /\ "failed" \in Statuses BY <1>1 DEF RefreshFits, Statuses
        <3> QED BY <1>7, <3>1, RunEnds DEF Inv
    <2>2. crashes' \in Nat /\ crashes' > 0 BY <1>4, <1>7
    <2>3. Clocks' BY <1>3, <2>1, <2>2 DEF Inv, Typed, Clocks
    <2>4. r = Scheduled => Counted' BY <1>7, CountedIdle DEF Inv
    <2>5. m \notin Refresh
        <3>1. \A n \in Refresh : n.pc \in Phases BY DEF Refresh
        <3> QED BY <1>7, <3>1 DEF Idle, Phases
    <2>6. Syncing(r) => \A c \in refresh[r].found :
             \/ <<refresh[r].run, c[1], c[2]>> \in decided'
             \/ m \in Refresh /\ c \in m.found
             \/ m \notin Refresh /\ (refresh[r].run \in lost' \/ crashes' > 0)
        BY <2>2, <2>5
    <2>7. \A t \in Target, f \in Filing :
             \/ queued'[<<t, f>>] = queued[<<t, f>>]
             \/ /\ queued'[<<t, f>>] = queued[<<t, f>>] + 1
                /\ Syncing(r) /\ <<t, f, "eligible">> \in refresh[r].found
                /\ m \in Refresh => <<t, f, "eligible">> \notin m.found
        BY <1>1, <1>3, <2>5
    <2> QED BY <1>1, <1>3, <1>5, <1>6, <1>7, <2>1, <2>2, <2>3, <2>4, <2>6, <2>7, AnyMove
<1>8. CASE m = [refresh[r] EXCEPT !.found = @ \ S] /\ UNCHANGED <<runs, crashes>>
    <2>1. /\ m \in Refresh /\ m.pc = "next" /\ m.trigger = old.trigger /\ m.run = old.run
          /\ m.since = old.since /\ m.row = old.row /\ m.todo = old.todo /\ m.items = old.items
          /\ m.item = old.item /\ m.found = old.found \ S /\ m.failed = old.failed
          /\ m.deferred = old.deferred /\ m.checked = old.checked /\ m.earlier = old.earlier
          /\ m.alone = old.alone
        BY <1>1, <1>8 DEF Refresh, Phases
    <2>2. Ids(m) = Ids(old) /\ Open(m) = Open(old) /\ Rows(m) \subseteq Rows(old)
        BY <1>1, <2>1 DEF Open, Ids, Rows, Storing
    <2>3. PassFits(m) BY <1>1, <2>1, <2>2 DEF PassFits, Storing
    <2>4. ItemFits(m) BY <1>1, <2>1 DEF ItemFits, Storing
    <2>5. RefreshFits(r, m) BY <1>1, <2>1, <2>3, <2>4, SameRun
    <2>6. Clocks' BY <1>3, <1>8 DEF Inv, Typed, Clocks
    <2>7. r = Scheduled => Counted'
        <3> SUFFICES ASSUME r = Scheduled PROVE Counted' OBVIOUS
        <3>1. refresh'[Scheduled] = m /\ Syncing(Scheduled) BY <1>1 DEF Inv, Typed, Refreshes
        <3>2. Counted BY DEF Inv
        <3> QED BY <1>1, <2>1, <2>2, <3>1, <3>2 DEF Counted
    <2>8. Syncing(r) => \A c \in refresh[r].found :
             \/ <<refresh[r].run, c[1], c[2]>> \in decided'
             \/ m \in Refresh /\ c \in m.found
             \/ m \notin Refresh /\ (refresh[r].run \in lost' \/ crashes' > 0)
        BY <1>3, <2>1
    <2>9. \A t \in Target, f \in Filing :
             \/ queued'[<<t, f>>] = queued[<<t, f>>]
             \/ /\ queued'[<<t, f>>] = queued[<<t, f>>] + 1
                /\ Syncing(r) /\ <<t, f, "eligible">> \in refresh[r].found
                /\ m \in Refresh => <<t, f, "eligible">> \notin m.found
        BY <1>1, <1>3, <2>1
    <2>10. m.found \subseteq old.found /\ m.pc # "link" /\ old.pc # "done" BY <1>1, <2>1
    <2>11. /\ Syncing(r) /\ RefreshFits(r, m) /\ m.run = refresh[r].run
           /\ m.since = refresh[r].since /\ m.alone = refresh[r].alone
           /\ m.found \subseteq refresh[r].found /\ Rows(m) \subseteq Rows(refresh[r])
           /\ refresh[r].pc # "done"
           /\ m.pc = "link" => \/ /\ pulled'[m.item.filing] # 0
                                  /\ m.item.edition = edition'[m.item.filing]
                               \/ published[m.item.filing] <= m.row.previous
        BY <1>1, <2>1, <2>2, <2>5, <2>10
    <2> QED BY <1>1, <1>3, <1>5, <1>6, <1>8, <2>6, <2>7, <2>8, <2>9, <2>11, AnyMove
<1> QED BY <1>7, <1>8

LEMMA DeliverStep ==
    ASSUME Sensible, Inv, NEW r \in Runner, Deliver(r)
    PROVE  Inv'
<1>1. Delivering(r) /\ UNCHANGED <<now, published, target, pulled, edition, linked, failures, runs, crashes>>
    BY DEF Deliver, tables
<1>2. PICK S \in Batches(r) : HandOver(r, S) /\ refresh' = [refresh EXCEPT ![r].found = @ \ S]
    BY DEF Deliver
<1>3. S \in SUBSET refresh[r].found BY <1>2 DEF Batches
<1>4. PICK m : m = [refresh[r] EXCEPT !.found = @ \ S] OBVIOUS
<1>5. refresh' = [refresh EXCEPT ![r] = m]
    <2>1. refresh \in [Runner -> {Idle} \cup Refresh \cup Reported] BY DEF Inv, Typed, Refreshes
    <2> QED BY <1>2, <1>4, <2>1
<1> QED BY <1>1, <1>2, <1>3, <1>4, <1>5, HandOverMove

LEMMA DeliverFailsStep ==
    ASSUME Sensible, Inv, NEW r \in Runner, DeliverFails(r)
    PROVE  Inv'
<1>1. PICK S \in Batches(r) : HandOver(r, S) BY DEF DeliverFails
<1>2. S \in SUBSET refresh[r].found BY <1>1 DEF Batches
<1>3. PICK m : m = Idle OBVIOUS
<1>4. /\ Delivering(r) /\ UNCHANGED <<now, published, target, pulled, edition, linked, failures>>
      /\ refresh' = [refresh EXCEPT ![r] = m] /\ crashes' = crashes + 1
      /\ runs' = [runs EXCEPT ![refresh[r].run] = "failed"]
    BY <1>3 DEF DeliverFails, EndRun
<1> QED BY <1>1, <1>2, <1>3, <1>4, HandOverMove

LEMMA ConcludeStep ==
    ASSUME Sensible, Inv, NEW r \in Runner, Conclude(r)
    PROVE  Inv'
<1> DEFINE old == refresh[r]
           m == [old EXCEPT !.pc = "done"]
<1>1. /\ old \in Refresh /\ Syncing(r) /\ Busy(r) /\ RefreshFits(r, old) /\ PassFits(old)
      /\ ItemFits(old) /\ old.pc = "next" /\ old.todo = {} /\ old.found = {}
    BY UnderWay DEF Conclude, Delivering, Inv, Phases
<1>2. refresh' = [refresh EXCEPT ![r] = m] BY DEF Conclude, EndRun
<1>3. /\ m \in Refresh /\ m.pc = "done" /\ m.trigger = old.trigger /\ m.run = old.run
      /\ m.since = old.since /\ m.row = old.row /\ m.todo = old.todo /\ m.items = old.items
      /\ m.item = old.item /\ m.found = old.found /\ m.failed = old.failed
      /\ m.deferred = old.deferred /\ m.checked = old.checked /\ m.earlier = old.earlier
      /\ m.alone = old.alone
    BY <1>1 DEF Refresh, Phases
<1>4. PICK status : status = RunStatus(r) OBVIOUS
<1>5. status \in Statuses /\ runs' = [runs EXCEPT ![old.run] = status]
      /\ UNCHANGED <<now, published, target, pulled, edition, linked, failures, crashes, histories>>
    BY <1>4 DEF RunStatus, Statuses, Conclude, EndRun
<1> HIDE DEF m
<1>6. Ids(m) = Ids(old) /\ Open(m) = Open(old) /\ Rows(m) \subseteq Rows(old)
    BY <1>1, <1>3 DEF Open, Ids, Rows, Storing
<1>7. PassFits(m) BY <1>1, <1>3, <1>6 DEF PassFits, Storing
<1>8. ItemFits(m) BY <1>1, <1>3 DEF ItemFits, Storing
<1>9. RefreshFits(r, m) BY <1>1, <1>3, <1>7, <1>8, SameRun
<1>10. runs' \in Seq(Statuses) /\ Len(runs') = Len(runs)
    <2>1. old.run \in 1..Len(runs) BY <1>1 DEF RefreshFits
    <2> QED BY <1>5, <2>1, RunEnds DEF Inv
<1>11. Clocks' BY <1>5, <1>10 DEF Inv, Typed, Clocks, histories
<1>12. \A u \in Target : target[u].lastSync <= target'[u].lastSync BY <1>5 DEF Inv, Typed, Clocks
<1>13. r = Scheduled => Counted'
    <2> SUFFICES ASSUME r = Scheduled PROVE Counted' OBVIOUS
    <2>1. refresh'[Scheduled] = m /\ Syncing(Scheduled) BY <1>1, <1>2 DEF Inv, Typed, Refreshes
    <2>2. Counted BY DEF Inv
    <2> QED BY <1>1, <1>3, <1>5, <1>6, <2>1, <2>2 DEF Counted
<1> QED BY <1>1, <1>2, <1>3, <1>5, <1>6, <1>9, <1>11, <1>12, <1>13, QuietMove

-----------------------------------------------------------------------------
(* Targets are edited; the surroundings                                    *)

\* A refresh that goes on, whether or not it knows that it is alone.
Alike(a, b) ==
    /\ b \in {Idle} \cup Refresh \cup Reported /\ b.pc = a.pc /\ (a = Idle <=> b = Idle)
    /\ a # Idle => b.since = a.since /\ (b.alone => a.alone)
    /\ a \in Reported => b.unresolved = a.unresolved /\ b.left = a.left
    /\ a \in Refresh =>
          /\ b \in Refresh /\ b.trigger = a.trigger /\ b.run = a.run /\ b.row = a.row
          /\ b.todo = a.todo /\ b.items = a.items /\ b.item = a.item /\ b.found = a.found
          /\ b.failed = a.failed /\ b.deferred = a.deferred /\ b.checked = a.checked
          /\ b.earlier = a.earlier

LEMMA Disturbed ==
    ASSUME Typed, NEW others \in BOOLEAN, NEW d, d = Disturb(others)
    PROVE  /\ d \in [Runner -> {Idle} \cup Refresh \cup Reported]
           /\ \A s \in Runner : Alike(refresh[s], d[s])
           /\ \A s \in Runner : s = Scheduled /\ Busy(s) /\ others => ~ d[s].alone
<1>1. ASSUME NEW s \in Runner
      PROVE  /\ d[s] \in {Idle} \cup Refresh \cup Reported /\ Alike(refresh[s], d[s])
             /\ s = Scheduled /\ Busy(s) /\ others => ~ d[s].alone
    <2>1. refresh[s] \in {Idle} \cup Refresh \cup Reported BY DEF Typed, Refreshes
    <2>2. Busy(s) <=> refresh[s] # Idle BY PhaseFacts
    <2>3. d[s] = IF s = Scheduled /\ Busy(s) /\ others THEN [refresh[s] EXCEPT !.alone = FALSE]
                 ELSE refresh[s]
        BY DEF Disturb
    <2>4. CASE d[s] = refresh[s] /\ ~(s = Scheduled /\ Busy(s) /\ others)
        BY <2>1, <2>4 DEF Alike
    <2>5. CASE s = Scheduled /\ Busy(s) /\ others
        <3>1. PICK m : m = refresh[s] OBVIOUS
        <3>2. d[s] = [m EXCEPT !.alone = FALSE] BY <2>3, <2>5, <3>1
        <3>3. m \in Refresh => m.pc \in Phases BY DEF Refresh
        <3>4. m \in Reported => m.pc = "reported" BY DEF Reported
        <3>5. Idle.pc = "idle" BY DEF Idle
        <3>6. CASE m \in Refresh
            <4>1. m \notin Reported BY <3>3, <3>4, <3>6 DEF Phases
            <4>2. /\ d[s] \in Refresh /\ d[s].pc = m.pc /\ d[s].since = m.since /\ d[s].alone = FALSE
                  /\ d[s].trigger = m.trigger /\ d[s].run = m.run /\ d[s].row = m.row
                  /\ d[s].todo = m.todo /\ d[s].items = m.items /\ d[s].item = m.item
                  /\ d[s].found = m.found /\ d[s].failed = m.failed /\ d[s].deferred = m.deferred
                  /\ d[s].checked = m.checked /\ d[s].earlier = m.earlier
                BY <3>2, <3>6 DEF Refresh
            <4>3. m.pc # "idle" /\ m # Idle /\ d[s] # Idle BY <3>3, <3>5, <3>6, <4>2 DEF Phases
            <4> QED BY <3>1, <3>6, <4>1, <4>2, <4>3 DEF Alike
        <3>7. CASE m \in Reported
            <4>1. m \notin Refresh BY <3>3, <3>4, <3>7 DEF Phases
            <4>2. /\ d[s] \in Reported /\ d[s].pc = m.pc /\ d[s].since = m.since
                  /\ d[s].alone = FALSE /\ d[s].unresolved = m.unresolved /\ d[s].left = m.left
                BY <3>2, <3>7 DEF Reported
            <4> QED BY <3>1, <3>4, <3>5, <3>7, <4>1, <4>2 DEF Alike
        <3> QED BY <2>1, <2>2, <2>5, <3>1, <3>6, <3>7
    <2> QED BY <2>3, <2>4, <2>5
<1>2. d = [s \in Runner |-> d[s]] BY DEF Disturb
<1>3. d \in [Runner -> {Idle} \cup Refresh \cup Reported] BY <1>1, <1>2
<1> QED BY <1>1, <1>3

\* What goes on stands as it did.
LEMMA AlikeFacts ==
    ASSUME Typed, NEW s \in Runner, Alike(refresh[s], refresh'[s])
    PROVE  /\ Syncing(s)' <=> Syncing(s)
           /\ Busy(s)' <=> Busy(s)
           /\ \A t \in Target, f \in Filing : Holds(s, t, f)' <=> Holds(s, t, f)
           /\ Syncing(s) => /\ Rows(refresh'[s]) = Rows(refresh[s])
                            /\ refresh'[s].row = refresh[s].row /\ refresh'[s].item = refresh[s].item
                            /\ refresh'[s].pc = refresh[s].pc
<1>1. Syncing(s)' <=> Syncing(s) BY DEF Syncing, Alike
<1>2. Busy(s)' <=> Busy(s) BY DEF Busy, Alike
<1>3. Syncing(s) => refresh[s] \in Refresh BY PhaseFacts
<1>4. Syncing(s) => /\ Rows(refresh'[s]) = Rows(refresh[s])
                    /\ refresh'[s].row = refresh[s].row /\ refresh'[s].item = refresh[s].item
                    /\ refresh'[s].pc = refresh[s].pc
    BY <1>3 DEF Rows, Alike
<1>5. \A t \in Target, f \in Filing : Holds(s, t, f)' <=> Holds(s, t, f)
    BY <1>1, <1>3 DEF Holds, Alike
<1> QED BY <1>1, <1>2, <1>4, <1>5

LEMMA AlikeFits ==
    ASSUME NEW r, NEW old, NEW m, RefreshFits(r, old), Alike(old, m)
    PROVE  RefreshFits(r, m)
<1>1. old \in Refresh /\ m \in Refresh BY DEF RefreshFits, Alike
<1>2. old # Idle
    <2>1. old.pc # "idle" BY <1>1 DEF Refresh, Phases
    <2> QED BY <2>1 DEF Idle
<1>3. Ids(m) = Ids(old) /\ Open(m) = Open(old) BY <1>1 DEF Ids, Open, Alike
<1>4. PassFits(m) BY <1>1, <1>3 DEF RefreshFits, PassFits, Alike
<1>5. ItemFits(m) BY <1>1 DEF RefreshFits, ItemFits, Alike
<1> QED BY <1>1, <1>2, <1>4, <1>5 DEF RefreshFits, Alike

\* A step that tells nothing and links nothing.
LEMMA SingleStays ==
    ASSUME NEW t \in Target, NEW f \in Filing, Single(t, f),
           UNCHANGED <<queued, pulled, edition, linked>>,
           published[f] # 0 => published'[f] = published[f],
           \A s \in Runner : Holds(s, t, f)' => Holds(s, t, f),
           \A s \in Runner : Links(s, t, f)' =>
              /\ Links(s, t, f) /\ published[f] # 0
              /\ refresh'[s].row = refresh[s].row /\ refresh'[s].item = refresh[s].item,
           published[f] # 0 /\ Current(t, f) => Current(t, f)'
    PROVE  Single(t, f)'
<1>1. Told(t, f)' => Told(t, f) BY DEF Told
<1>2. Told(t, f)' => published'[f] # 0 /\ (There(t, f)' \/ Current(t, f)') BY <1>1 DEF Single, There
<1>3. \A r, s \in Runner : Holds(r, t, f)' => queued'[<<t, f>>] = 0 /\ (Holds(s, t, f)' => r = s)
    BY DEF Single
<1>4. ASSUME NEW s \in Runner, Links(s, t, f)'
      PROVE  \/ pulled'[f] # 0 /\ refresh'[s].item.edition = edition'[f]
             \/ published'[f] <= refresh'[s].row.previous
    BY <1>4 DEF Single
<1>5. queued'[<<t, f>>] <= 1 BY DEF Single
<1> QED BY <1>2, <1>3, <1>4, <1>5 DEF Single

LEMMA SetStatusStep ==
    ASSUME Sensible, Inv, NEW t \in Target, SetStatus(t)
    PROVE  Inv'
<1>1. PICK d : d = Disturb(TRUE) OBVIOUS
<1>2. UNCHANGED <<now, published, pulled, edition, linked, failures, runs, crashes, histories>>
      /\ refresh' = d /\ target' = [target EXCEPT ![t].enabled = ~@]
    BY <1>1 DEF SetStatus
<1>3. Typed /\ Kept /\ Counted BY DEF Inv
<1>4. /\ refresh' \in [Runner -> {Idle} \cup Refresh \cup Reported]
      /\ \A s \in Runner : Alike(refresh[s], refresh'[s])
      /\ \A s \in Runner : s = Scheduled /\ Busy(s) => ~ refresh'[s].alone
    BY <1>1, <1>2, <1>3, Disturbed
<1>5. /\ \A s \in Runner : (Syncing(s)' <=> Syncing(s)) /\ (Busy(s)' <=> Busy(s))
      /\ \A s \in Runner, u \in Target, f \in Filing : Holds(s, u, f)' <=> Holds(s, u, f)
      /\ \A s \in Runner : Syncing(s) =>
            /\ Rows(refresh'[s]) = Rows(refresh[s])
            /\ refresh'[s].row = refresh[s].row /\ refresh'[s].item = refresh[s].item
            /\ refresh'[s].pc = refresh[s].pc
    BY <1>3, <1>4, AlikeFacts
<1>6. \A s \in Runner : Syncing(s) => refresh[s] \in Refresh /\ RefreshFits(s, refresh[s])
    BY <1>3 DEF Typed, Refreshes, RefreshFits
<1>7. target' \in [Target -> [enabled : BOOLEAN, lastSync : 0..now]]
      /\ \A u \in Target : target'[u].lastSync = target[u].lastSync
    BY <1>2, <1>3 DEF Typed, Clocks
<1>8. Clocks' BY <1>2, <1>3, <1>7 DEF Typed, Clocks, histories
<1>9. \A s \in Runner : Busy(s) => /\ refresh'[s].since = refresh[s].since
                                   /\ refresh'[s].alone => refresh[s].alone
    BY <1>3, <1>4, PhaseFacts DEF Alike
<1>10. Refreshes'
    <2>1. ASSUME NEW s \in Runner, Syncing(s)' PROVE RefreshFits(s, refresh[s])'
        <3>1. RefreshFits(s, refresh'[s]) BY <1>4, <1>5, <1>6, <2>1, AlikeFits
        <3> QED BY <1>2, <3>1 DEF RefreshFits, ItemFits
    <2>2. \A s \in Runner : Busy(s)' => refresh'[s].since \in {now' - 1, now'}
        BY <1>2, <1>3, <1>5, <1>9 DEF Typed, Refreshes
    <2>3. \A s, h \in Runner :
             /\ s # h /\ Syncing(s)' /\ Syncing(h)'
             /\ refresh'[s].pc # "done" /\ refresh'[h].pc # "done"
             => refresh'[s].run # refresh'[h].run
        BY <1>3, <1>4, <1>5, <1>6 DEF Typed, Refreshes, Alike
    <2>4. \A s \in Runner : s # Scheduled /\ Busy(s)' /\ Busy(Scheduled)' => ~ refresh'[Scheduled].alone
        BY <1>4, <1>5 DEF Sensible
    <2>5. \A s \in Runner : refresh'[s].pc = "reported" => s = Scheduled
        BY <1>3, <1>4 DEF Typed, Refreshes, Alike
    <2> QED BY <1>4, <2>1, <2>2, <2>3, <2>4, <2>5 DEF Refreshes
<1>11. Kept'
    <2>1. \A s \in Runner : Syncing(s) => refresh'[s].found = refresh[s].found
                                          /\ refresh'[s].pc = refresh[s].pc
                                          /\ refresh'[s].run = refresh[s].run
        BY <1>4, <1>6 DEF Alike
    <2>2. \A a \in associated : Held(a)' <=> Held(a) BY <1>5, <2>1 DEF Held
    <2>3. \A s \in Runner, a \in associated : Syncing(s) => (Has(s, a)' <=> Has(s, a))
        BY <2>1 DEF Has
    <2> QED BY <1>2, <1>3, <1>5, <2>1, <2>2, <2>3 DEF Kept, NothingDropped, histories
<1>12. Counted'
    <2>1. Syncing(Scheduled)' => refresh'[Scheduled] \in Refresh /\ Syncing(Scheduled) /\ Busy(Scheduled)
        BY <1>4, <1>5, <1>6, PhaseFacts DEF Alike, Sensible, Inv
    <2>2. refresh'[Scheduled].pc = "reported" => Busy(Scheduled)
        BY <1>4 DEF Alike, Sensible, Busy
    <2>3. Busy(Scheduled) => ~ refresh'[Scheduled].alone BY <1>4 DEF Sensible
    <2>4. Syncing(Scheduled)' => refresh'[Scheduled].earlier = refresh[Scheduled].earlier
                                 /\ refresh'[Scheduled].trigger = refresh[Scheduled].trigger
        BY <1>4, <1>5, <1>6 DEF Alike, Sensible
    <2> QED BY <1>2, <1>3, <2>1, <2>2, <2>3, <2>4 DEF Counted
<1>13. ASSUME NEW u \in Target, NEW f \in Filing, <<u, f>> \notin early' PROVE Single(u, f)'
    <2>1. Single(u, f) BY <1>2, <1>13 DEF Inv, Announced, histories
    <2>2. \A s \in Runner : Links(s, u, f)' =>
             /\ Links(s, u, f) /\ published[f] # 0
             /\ refresh'[s].row = refresh[s].row /\ refresh'[s].item = refresh[s].item
        BY <1>5, <1>6 DEF Links, RefreshFits, ItemFits
    <2>3. Current(u, f) => Current(u, f)' BY <1>2, <1>5, <1>7 DEF Current
    <2> QED BY <1>2, <1>5, <2>1, <2>2, <2>3, SingleStays DEF histories
<1> QED BY <1>8, <1>10, <1>11, <1>12, <1>13 DEF Inv, Typed, Announced

\* What the refreshes are at, when only the clock or the store has changed.
LEMMA SameRefreshes ==
    ASSUME Typed, UNCHANGED <<refresh, runs, edition>>, now' \in Nat, now <= now',
           \A f \in Filing : published[f] # 0 => published'[f] # 0,
           \A s \in Runner : Busy(s) => refresh[s].since \in {now' - 1, now'}
    PROVE  /\ Refreshes'
           /\ \A s \in Runner : (Syncing(s)' <=> Syncing(s)) /\ (Busy(s)' <=> Busy(s))
           /\ \A s \in Runner, t \in Target, f \in Filing : Holds(s, t, f)' <=> Holds(s, t, f)
<1>1. \A s \in Runner : (Syncing(s)' <=> Syncing(s)) /\ (Busy(s)' <=> Busy(s)) BY DEF Syncing, Busy
<1>2. \A s \in Runner, t \in Target, f \in Filing : Holds(s, t, f)' <=> Holds(s, t, f)
    BY <1>1 DEF Holds
<1>3. ASSUME NEW s \in Runner, Syncing(s) PROVE RefreshFits(s, refresh[s])'
    <2>1. RefreshFits(s, refresh[s]) /\ refresh[s] \in Refresh /\ Busy(s)
        BY <1>3, PhaseFacts DEF Typed, Refreshes
    <2>2. \A c \in refresh[s].found : c[2] \in Filing BY <2>1 DEF Refresh, Candidate
    <2>3. \A f \in refresh[s].items : f \in Filing BY <2>1 DEF Refresh
    <2>4. now \in Nat BY DEF Typed, Clocks
    <2>5. ItemFits(refresh[s])' BY <2>1, <2>2, <2>3, <2>4 DEF RefreshFits, ItemFits
    <2> QED BY <2>1, <2>5 DEF RefreshFits
<1>4. Refreshes'
    <2>1. \A s \in Runner : Syncing(s)' => RefreshFits(s, refresh[s])' BY <1>1, <1>3
    <2>2. \A s \in Runner : Busy(s)' => refresh'[s].since \in {now' - 1, now'} BY <1>1
    <2>3. \A s, h \in Runner :
             /\ s # h /\ Syncing(s)' /\ Syncing(h)'
             /\ refresh'[s].pc # "done" /\ refresh'[h].pc # "done"
             => refresh'[s].run # refresh'[h].run
        BY <1>1 DEF Typed, Refreshes
    <2>4. \A s \in Runner : s # Scheduled /\ Busy(s)' /\ Busy(Scheduled)' => ~ refresh'[Scheduled].alone
        BY <1>1 DEF Typed, Refreshes, Busy
    <2> QED BY <2>1, <2>2, <2>3, <2>4 DEF Typed, Refreshes
<1> QED BY <1>1, <1>2, <1>4

\* Nothing happened to the runs and what they linked.
LEMMA SameKept ==
    ASSUME Kept, UNCHANGED <<runs, refresh, crashes, associated, decided, lost>>
    PROVE  Kept'
<1>1. \A s \in Runner : Syncing(s)' <=> Syncing(s) BY DEF Syncing
<1> QED BY <1>1 DEF Kept, NothingDropped, Held, Has

LEMMA TickStep ==
    ASSUME Sensible, Inv, NEW F, Tick(F)
    PROVE  Inv'
<1>1. /\ UNCHANGED <<target, pulled, edition, linked, failures, runs, refresh, crashes, histories>>
      /\ now' = now + 1 /\ now < MaxTime
      /\ published' = [f \in Filing |-> IF f \in F THEN now + 1 ELSE published[f]]
      /\ \A f \in F : published[f] = 0
      /\ \A r \in Runner : Busy(r) => refresh[r].since = now
    BY DEF Tick
<1>2. Typed /\ Kept /\ Counted BY DEF Inv
<1>3. now \in Nat /\ now' \in 1..MaxTime /\ published \in [Filing -> 0..now]
    BY <1>1, <1>2 DEF Typed, Clocks, Sensible
<1>4. \A f \in Filing : published[f] # 0 => published'[f] = published[f] BY <1>1
<1>5. Clocks'
    <2>1. published' \in [Filing -> 0..now'] BY <1>1, <1>3
    <2>2. pulled' \in [Filing -> 0..now'] BY <1>1, <1>2, <1>3 DEF Typed, Clocks
    <2>3. target' \in [Target -> [enabled : BOOLEAN, lastSync : 0..now']]
        <3>1. \A t \in Target : target[t] \in [enabled : BOOLEAN, lastSync : 0..now']
            BY <1>1, <1>2, <1>3 DEF Typed, Clocks
        <3> QED BY <1>1, <1>2, <3>1 DEF Typed, Clocks
    <2> QED BY <1>1, <1>2, <1>3, <2>1, <2>2, <2>3 DEF Typed, Clocks, histories
<1>6. /\ Refreshes'
      /\ \A s \in Runner : (Syncing(s)' <=> Syncing(s)) /\ (Busy(s)' <=> Busy(s))
      /\ \A s \in Runner, t \in Target, f \in Filing : Holds(s, t, f)' <=> Holds(s, t, f)
    <2>1. \A s \in Runner : Busy(s) => refresh[s].since \in {now' - 1, now'} BY <1>1, <1>3
    <2>2. now' \in Nat /\ now <= now' BY <1>1, <1>3
    <2> QED BY <1>1, <1>2, <1>4, <2>1, <2>2, SameRefreshes
<1>7. Kept' BY <1>1, <1>2, SameKept DEF histories
<1>8. Counted' BY <1>1, <1>2, <1>6 DEF Counted, Syncing
<1>9. ASSUME NEW u \in Target, NEW f \in Filing, <<u, f>> \notin early' PROVE Single(u, f)'
    <2>1. Single(u, f) BY <1>1, <1>9 DEF Inv, Announced, histories
    <2>2. \A s \in Runner : Links(s, u, f)' =>
             /\ Links(s, u, f) /\ published[f] # 0
             /\ refresh'[s].row = refresh[s].row /\ refresh'[s].item = refresh[s].item
        BY <1>1, <1>2, <1>6 DEF Links, Typed, Refreshes, RefreshFits, ItemFits
    <2>3. published[f] # 0 /\ Current(u, f) => Current(u, f)' BY <1>1, <1>4, <1>6 DEF Current
    <2> QED BY <1>1, <1>4, <1>6, <2>1, <2>2, <2>3, SingleStays DEF histories
<1> QED BY <1>5, <1>6, <1>7, <1>8, <1>9 DEF Inv, Typed, Announced

\* Rows are dropped with their associations: who was told of one that is gone is past it,
\* or it was dropped too early.
LEMMA CleanupStep ==
    ASSUME Sensible, Inv, Cleanup
    PROVE  Inv'
<1>1. PICK due : due = {f \in Filing : pulled[f] # 0 /\ pulled[f] + Retention <= now} OBVIOUS
<1>2. /\ UNCHANGED <<now, published, target, edition, failures, runs, refresh, crashes,
                     queued, associated, decided, lost>>
      /\ pulled' = [f \in Filing |-> IF f \in due THEN 0 ELSE pulled[f]]
      /\ linked' = {l \in linked : l[2] \in due => l[3] # edition[l[2]]}
      /\ early' = early \cup {p \in Pairs : p[2] \in due /\ ~ Current(p[1], p[2])}
    BY <1>1 DEF Cleanup
<1>3. Typed /\ Kept /\ Counted BY DEF Inv
<1>4. now \in Nat /\ pulled \in [Filing -> 0..now] BY <1>3 DEF Typed, Clocks
<1>5. Clocks'
    <2>1. pulled' \in [Filing -> 0..now'] BY <1>2, <1>4
    <2>2. \A f \in Filing : pulled'[f] # 0 => edition'[f] # 0 BY <1>2, <1>3 DEF Typed, Clocks
    <2>3. \A l \in linked' : l[1] \in Target /\ l[2] \in Filing /\ l[3] \in 1..edition'[l[2]]
        BY <1>2, <1>3 DEF Typed, Clocks
    <2> QED BY <1>2, <1>3, <2>1, <2>2, <2>3 DEF Typed, Clocks
<1>6. /\ Refreshes'
      /\ \A s \in Runner : (Syncing(s)' <=> Syncing(s)) /\ (Busy(s)' <=> Busy(s))
      /\ \A s \in Runner, t \in Target, f \in Filing : Holds(s, t, f)' <=> Holds(s, t, f)
    <2>1. \A s \in Runner : Busy(s) => refresh[s].since \in {now' - 1, now'}
        BY <1>2, <1>3 DEF Typed, Refreshes
    <2>2. now' \in Nat /\ now <= now' BY <1>2, <1>4
    <2> QED BY <1>2, <1>3, <2>1, <2>2, SameRefreshes
<1>7. Kept' BY <1>2, <1>3, SameKept
<1>8. Counted' BY <1>2, <1>3, <1>6 DEF Counted, Syncing
<1>9. ASSUME NEW u \in Target, NEW f \in Filing, <<u, f>> \notin early' PROVE Single(u, f)'
    <2>1. Single(u, f) BY <1>2, <1>9 DEF Inv, Announced
    <2>2. f \in due => Current(u, f)
        <3>1. PICK p : p = <<u, f>> OBVIOUS
        <3>2. p \in Pairs /\ p[1] = u /\ p[2] = f BY <3>1 DEF Pairs
        <3> QED BY <1>2, <1>9, <3>1, <3>2
    <2>3. Current(u, f) => Current(u, f)' BY <1>2, <1>6 DEF Current
    <2>4. f \notin due => pulled'[f] = pulled[f] /\ (There(u, f) => There(u, f)')
        BY <1>2 DEF There
    <2>5. Told(u, f)' => Told(u, f) BY <1>2, <1>6 DEF Told
    <2>6. Told(u, f)' => published'[f] # 0 /\ (There(u, f)' \/ Current(u, f)')
        BY <1>2, <2>1, <2>2, <2>3, <2>4, <2>5 DEF Single
    <2>7. ASSUME NEW s \in Runner, Links(s, u, f)'
          PROVE  \/ pulled'[f] # 0 /\ refresh'[s].item.edition = edition'[f]
                 \/ published'[f] <= refresh'[s].row.previous
        <3>1. Links(s, u, f) /\ Syncing(s) BY <1>2, <1>6, <2>7 DEF Links
        <3>2. CASE f \notin due BY <1>2, <2>1, <2>4, <3>1, <3>2 DEF Single
        <3>3. CASE f \in due
            <4>1. refresh[s].row \in Rows(refresh[s]) /\ refresh[s].row.id = u
                BY <3>1 DEF Links, Rows, Storing
            <4>2. published[f] <= refresh[s].row.previous BY <2>2, <3>1, <3>3, <4>1 DEF Current
            <4> QED BY <1>2, <4>2
        <3> QED BY <3>2, <3>3
    <2>8. \A r, s \in Runner : Holds(r, u, f)' => queued'[<<u, f>>] = 0 /\ (Holds(s, u, f)' => r = s)
        BY <1>2, <1>6, <2>1 DEF Single
    <2>9. queued'[<<u, f>>] <= 1 BY <1>2, <2>1 DEF Single
    <2> QED BY <2>6, <2>7, <2>8, <2>9 DEF Single
<1> QED BY <1>5, <1>6, <1>7, <1>8, <1>9 DEF Inv, Typed, Announced

LEMMA CrashStep ==
    ASSUME Sensible, Inv, Crash
    PROVE  Inv'
<1>1. /\ UNCHANGED <<now, published, target, pulled, edition, linked, failures, runs, histories>>
      /\ crashes' = crashes + 1 /\ refresh' = [r \in Runner |-> Idle]
    BY DEF Crash, tables
<1>2. crashes \in Nat /\ crashes' > 0 /\ Typed BY <1>1 DEF Inv, Typed, Clocks
<1>3. \A r \in Runner : ~ Syncing(r)' /\ ~ Busy(r)' /\ refresh'[r] = Idle
    BY <1>1 DEF Syncing, Busy, Idle
<1>4. Clocks' BY <1>1, <1>2 DEF Typed, Clocks, histories
<1>5. Refreshes'
    <2>1. Idle.pc # "reported" BY DEF Idle
    <2> QED BY <1>1, <1>3, <2>1 DEF Refreshes
<1>6. Kept' BY <1>1, <1>2, <1>3 DEF Inv, Kept, NothingDropped, histories
<1>7. Counted' BY <1>3 DEF Counted, Sensible, Idle
<1>8. ASSUME NEW t \in Target, NEW f \in Filing, <<t, f>> \notin early' PROVE Single(t, f)'
    <2>1. Single(t, f) BY <1>1, <1>8 DEF Inv, Announced, histories
    <2>2. \A r \in Runner : ~ Holds(r, t, f)' /\ ~ Links(r, t, f)' BY <1>3 DEF Holds, Links
    <2>3. Current(t, f) => Current(t, f)' BY <1>1, <1>3 DEF Current
    <2> QED BY <1>1, <2>1, <2>2, <2>3, SingleStays DEF histories
<1> QED BY <1>4, <1>5, <1>6, <1>7, <1>8 DEF Inv, Typed, Announced

-----------------------------------------------------------------------------
(* A refresh begins                                                        *)

\* What the record of a new refresh holds.
LEMMA BeginStep ==
    ASSUME Sensible, Inv, NEW r \in Runner, NEW S \in SUBSET Target, NEW earlier,
           NEW trigger \in {"scheduler", "manual", "recovery"},
           \/ ~ Busy(r)
           \/ r = Scheduled /\ Syncing(r) /\ refresh[r].pc = "done",
           trigger \in {"scheduler", "recovery"} <=> r = Scheduled,
           earlier.failed \subseteq Target, earlier.deferred \subseteq Target,
           Begin(r, trigger, S, earlier),
           UNCHANGED <<now, published, target, pulled, edition, linked, failures, crashes, histories>>,
           trigger = "scheduler" => Enabled \subseteq S,
           trigger = "recovery" =>
              /\ earlier.failed \cap earlier.deferred = {}
              /\ Busy(r) /\ (refresh[r].alone => S \subseteq earlier.failed \cup earlier.deferred)
    PROVE  Inv'
<1> DEFINE alone == IF r = Scheduled /\ Busy(r) THEN refresh[r].alone
                    ELSE \A other \in Runner : ~Busy(other)
           new == [pc |-> "settings", trigger |-> trigger, run |-> Len(runs) + 1, since |-> now,
                 row |-> [id |-> 0, previous |-> 0], todo |-> Loaded(S), items |-> {},
                 item |-> NoItem, found |-> {}, failed |-> {}, deferred |-> {}, checked |-> S,
                 earlier |-> [failed |-> earlier.failed, deferred |-> earlier.deferred],
                 alone |-> alone]
<1>1. PICK d : d = Disturb(r # Scheduled) OBVIOUS
<1>29. PICK m : m = new OBVIOUS
<1>2. refresh' = [d EXCEPT ![r] = m] /\ runs' = Append(runs, "running") BY <1>1, <1>29 DEF Begin
<1>3. Typed /\ Kept /\ Counted BY DEF Inv
<1>4. /\ d \in [Runner -> {Idle} \cup Refresh \cup Reported]
      /\ \A s \in Runner : Alike(refresh[s], d[s])
      /\ \A s \in Runner : s = Scheduled /\ Busy(s) /\ r # Scheduled => ~ d[s].alone
    BY <1>1, <1>3, Disturbed
<1>5. PICK al : al = alone OBVIOUS
<1>6. al \in BOOLEAN
    <2>1. CASE r = Scheduled /\ Busy(r)
        <3>1. refresh[r] \in Refresh BY <1>3, <2>1, PhaseFacts
        <3> QED BY <1>5, <2>1, <3>1 DEF Refresh
    <2>2. CASE ~(r = Scheduled /\ Busy(r)) BY <1>5, <2>2
    <2> QED BY <2>1, <2>2
<1>7. runs \in Seq(Statuses) /\ now \in 1..MaxTime /\ now \in Nat
    BY <1>3 DEF Typed, Clocks, Sensible
<1>8. PICK todo : todo = Loaded(S) OBVIOUS
<1>9. todo \in SUBSET RowOf /\ \A row \in todo : row.id \in S /\ row.previous = target[row.id].lastSync
    BY <1>3, <1>8 DEF Loaded, RowOf, Typed, Clocks
<1>10. \A t \in S : \E row \in todo : row.id = t
    <2>1. \A t \in S : [id |-> t, previous |-> target[t].lastSync] \in todo BY <1>8 DEF Loaded
    <2> QED BY <2>1
<1>11. /\ \A x, y \in todo : x.id = y.id => x = y
       /\ {row.id : row \in todo} = S
    BY <1>8, <1>9, <1>10 DEF Loaded
<1>12. /\ m \in Refresh /\ m.pc = "settings" /\ m.trigger = trigger /\ m.run = Len(runs) + 1
       /\ m.since = now /\ m.todo = todo /\ m.items = {} /\ m.found = {} /\ m.failed = {}
       /\ m.deferred = {} /\ m.checked = S /\ m.alone = al
       /\ m.earlier.failed = earlier.failed /\ m.earlier.deferred = earlier.deferred
    <2>1. PICK row : row = [id |-> 0, previous |-> 0] OBVIOUS
    <2>2. row \in [id : Target \cup {0}, previous : Nat] BY <2>1
    <2>3. PICK pass : pass = [failed |-> earlier.failed, deferred |-> earlier.deferred] OBVIOUS
    <2>4. pass \in [failed : SUBSET Target, deferred : SUBSET Target]
          /\ pass.failed = earlier.failed /\ pass.deferred = earlier.deferred
        BY <2>3
    <2>5. PICK k : k = Len(runs) + 1 OBVIOUS
    <2>6. k \in Nat BY <1>7, <2>5
    <2>9. PICK item : item = NoItem OBVIOUS
    <2>10. item \in ItemOf BY <2>9 DEF NoItem, ItemOf
    <2>7. m = [pc |-> "settings", trigger |-> trigger, run |-> k, since |-> now,
               row |-> row, todo |-> todo, items |-> {},
               item |-> item, found |-> {}, failed |-> {}, deferred |-> {}, checked |-> S,
               earlier |-> pass, alone |-> al]
        BY <1>5, <1>8, <1>29, <2>1, <2>3, <2>5, <2>9
    <2>8. m \in Refresh BY <1>6, <1>7, <1>9, <2>2, <2>4, <2>6, <2>7, <2>10 DEF Refresh, Phases
    <2> HIDE DEF new
    <2> QED BY <2>4, <2>5, <2>7, <2>8
<1>13. \A s \in Runner : refresh'[s] = IF s = r THEN m ELSE d[s] BY <1>2, <1>4
<1>14. refresh' \in [Runner -> {Idle} \cup Refresh \cup Reported] BY <1>2, <1>4, <1>12
<1>15. \A s \in Runner : s # r => Alike(refresh[s], refresh'[s]) BY <1>4, <1>13
<1>16. /\ \A s \in Runner : s # r => (Syncing(s)' <=> Syncing(s)) /\ (Busy(s)' <=> Busy(s))
       /\ \A s \in Runner, t \in Target, f \in Filing : s # r => (Holds(s, t, f)' <=> Holds(s, t, f))
       /\ \A s \in Runner : s # r /\ Syncing(s) =>
             /\ Rows(refresh'[s]) = Rows(refresh[s])
             /\ refresh'[s].row = refresh[s].row /\ refresh'[s].item = refresh[s].item
    BY <1>3, <1>15, AlikeFacts
<1>17. Syncing(r)' /\ Busy(r)' BY <1>12, <1>13 DEF Syncing, Busy
<1>18. /\ \A s \in Runner : Syncing(s) => refresh[s] \in Refresh /\ RefreshFits(s, refresh[s]) /\ Busy(s)
       /\ \A s \in Runner : Busy(s) <=> refresh[s] # Idle
    BY <1>3, PhaseFacts DEF Typed, Refreshes, RefreshFits
<1>19. \A s \in Runner : s # r /\ Busy(s) => /\ refresh'[s].since = refresh[s].since
                                             /\ refresh'[s].alone => refresh[s].alone
    BY <1>15, <1>18 DEF Alike
<1>20. runs' \in Seq(Statuses) /\ Len(runs') = Len(runs) + 1
       /\ (\A i \in 1..Len(runs) : runs'[i] = runs[i]) /\ runs'[Len(runs) + 1] = "running"
    BY <1>2, <1>7 DEF Statuses
<1>21. Clocks'
    <2>1. \A k \in 1..Len(runs) : k \in 1..Len(runs') BY <1>7, <1>20
    <2> QED BY <1>3, <1>20, <2>1 DEF Typed, Clocks, histories
<1>22. Ids(m) = S /\ Open(m) = S /\ Rows(m) = todo
    BY <1>11, <1>12 DEF Ids, Open, Rows, Storing
<1>23. RefreshFits(r, m)'
    <2>1. PassFits(m) BY <1>11, <1>12, <1>22 DEF PassFits, Storing
    <2>3. ItemFits(m)' BY <1>12 DEF ItemFits, Storing
    <2>2. m.run \in 1..Len(runs') /\ runs'[m.run] = "running" BY <1>7, <1>12, <1>20
    <2> QED BY <1>12, <2>1, <2>2, <2>3 DEF RefreshFits, ItemFits
<1>24. ASSUME NEW s \in Runner, s # r, Syncing(s)
       PROVE  RefreshFits(s, refresh[s])' /\ refresh'[s].run = refresh[s].run
              /\ refresh'[s].run \in 1..Len(runs) /\ refresh'[s].found = refresh[s].found
              /\ refresh'[s].pc = refresh[s].pc
    <2>1. PICK n : n = refresh'[s] OBVIOUS
    <2>2. RefreshFits(s, n) /\ n.run = refresh[s].run /\ n.found = refresh[s].found
          /\ n.pc = refresh[s].pc
        BY <1>15, <1>18, <1>24, <2>1, AlikeFits DEF Alike
    <2>3. n.run \in 1..Len(runs) /\ n.run \in 1..Len(runs') BY <1>7, <1>20, <2>2 DEF RefreshFits
    <2>4. RefreshFits(s, n)' BY <1>20, <2>2, <2>3 DEF RefreshFits, ItemFits
    <2> QED BY <2>1, <2>2, <2>3, <2>4 DEF RefreshFits, ItemFits
<1>25. Refreshes'
    <2>1. \A s \in Runner : Syncing(s)' => RefreshFits(s, refresh[s])'
        <3>1. refresh'[r] = m BY <1>13
        <3>2. RefreshFits(r, refresh[r])' BY <1>23, <3>1 DEF RefreshFits, ItemFits
        <3> QED BY <1>16, <1>24, <3>2
    <2>2. \A s \in Runner : Busy(s)' => refresh'[s].since \in {now' - 1, now'}
        BY <1>3, <1>7, <1>12, <1>13, <1>16, <1>19 DEF Typed, Refreshes
    <2>3. ASSUME NEW s \in Runner, NEW h \in Runner, s # h, Syncing(s)', Syncing(h)',
                 refresh'[s].pc # "done", refresh'[h].pc # "done"
          PROVE  refresh'[s].run # refresh'[h].run
        <3>1. \A x \in Runner : x # r /\ Syncing(x)' => refresh'[x].run # Len(runs) + 1
            BY <1>7, <1>16, <1>24
        <3>2. CASE s = r BY <1>12, <1>13, <2>3, <3>1, <3>2
        <3>3. CASE h = r BY <1>12, <1>13, <2>3, <3>1, <3>3
        <3>4. CASE s # r /\ h # r BY <1>3, <1>16, <1>24, <2>3, <3>4 DEF Typed, Refreshes
        <3> QED BY <3>2, <3>3, <3>4
    <2>4. ASSUME NEW s \in Runner, s # Scheduled, Busy(s)', Busy(Scheduled)'
          PROVE  ~ refresh'[Scheduled].alone
        <3>1. CASE r # Scheduled
            <4>1. Busy(Scheduled) BY <1>16, <2>4, <3>1 DEF Sensible
            <4> QED BY <1>4, <1>13, <3>1, <4>1 DEF Sensible
        <3>2. CASE r = Scheduled
            <4>1. Busy(s) BY <1>16, <2>4, <3>2
            <4>2. refresh'[Scheduled].alone = al BY <1>12, <1>13, <3>2
            <4>3. CASE Busy(r)
                <5>1. ~ refresh[Scheduled].alone BY <1>3, <2>4, <3>2, <4>1, <4>3 DEF Typed, Refreshes
                <5> QED BY <1>5, <3>2, <4>2, <4>3, <5>1
            <4>4. CASE ~ Busy(r) BY <1>5, <4>1, <4>2, <4>4
            <4> QED BY <4>3, <4>4
        <3> QED BY <3>1, <3>2
    <2>5. \A s \in Runner : refresh'[s].pc = "reported" => s = Scheduled
        BY <1>3, <1>12, <1>13, <1>15 DEF Typed, Refreshes, Alike
    <2> QED BY <1>14, <2>1, <2>2, <2>3, <2>4, <2>5 DEF Refreshes
<1>26. Kept'
    <2>1. UNCHANGED <<associated, decided, lost>> BY DEF histories
    <2>2. \A a \in associated : a[1] \in 1..Len(runs) BY <1>3 DEF Typed, Clocks
    <2>3. \A a \in associated : runs'[a[1]] \in {"success", "partial"} => a \in decided
        BY <1>3, <1>20, <2>2 DEF Kept, NothingDropped
    <2>4. ASSUME NEW a \in associated, Held(a) PROVE Held(a)'
        <3>1. PICK s \in Runner : Syncing(s) /\ refresh[s].run = a[1] /\ Has(s, a)
            BY <2>4 DEF Held, Has
        <3>2. s # r
            <4>1. s = r => refresh[r].found = {} BY <1>18, <3>1 DEF RefreshFits, PassFits
            <4> QED BY <3>1, <4>1 DEF Has
        <3> QED BY <1>16, <1>24, <3>1, <3>2 DEF Held, Has
    <2>5. \A a \in associated : a \in decided \/ Held(a)' \/ a[1] \in lost \/ crashes > 0
        BY <1>3, <2>4 DEF Kept, NothingDropped
    <2>6. ASSUME NEW s \in Runner, Syncing(s)', refresh'[s].pc # "done",
                 NEW a \in associated, a[1] = refresh'[s].run
          PROVE  a \in decided \/ Has(s, a)'
        <3>1. CASE s = r BY <1>7, <1>12, <1>13, <2>2, <2>6, <3>1
        <3>2. CASE s # r
            <4>1. Syncing(s) /\ refresh[s].pc # "done" /\ a[1] = refresh[s].run
                  /\ refresh'[s].found = refresh[s].found
                BY <1>16, <1>24, <2>6, <3>2
            <4> QED BY <1>3, <4>1 DEF Kept, Has
        <3> QED BY <3>1, <3>2
    <2> QED BY <2>1, <2>3, <2>5, <2>6 DEF Kept, NothingDropped
<1>27. Counted'
    <2>1. CASE r # Scheduled
        <3>1. Syncing(Scheduled)' => Syncing(Scheduled) /\ Busy(Scheduled)
                                     /\ refresh[Scheduled] \in Refresh
            BY <1>16, <1>18, <2>1 DEF Sensible
        <3>2. refresh'[Scheduled].pc = "reported" => Busy(Scheduled)
            BY <1>15, <2>1 DEF Alike, Sensible, Busy
        <3>3. Busy(Scheduled) => ~ refresh'[Scheduled].alone BY <1>4, <1>13, <2>1 DEF Sensible
        <3>4. Syncing(Scheduled)' => refresh'[Scheduled].earlier = refresh[Scheduled].earlier
                                     /\ refresh'[Scheduled].trigger = refresh[Scheduled].trigger
            BY <1>15, <2>1, <3>1 DEF Alike, Sensible
        <3> QED BY <1>3, <3>1, <3>2, <3>3, <3>4 DEF Counted
    <2>2. CASE r = Scheduled
        <3>1. refresh'[Scheduled] = m BY <1>13, <2>2
        <3>2. \A i \in DOMAIN failures : failures[i].target \in Target BY <1>3, LogFacts
        <3>3. trigger = "scheduler" =>
                 \A i \in DOMAIN failures' :
                    failures'[i].retryable /\ target'[failures'[i].target].enabled =>
                       failures'[i].target \in Open(m) \cup m.failed \cup m.deferred
            BY <1>22, <3>2 DEF Enabled
        <3>4. Busy(r) => al = refresh[r].alone BY <1>5, <2>2
        <3>5. trigger = "recovery" =>
                 /\ m.earlier.failed \cap m.earlier.deferred = {}
                 /\ m.alone => m.checked \subseteq m.earlier.failed \cup m.earlier.deferred
            BY <1>12, <3>4
        <3> QED BY <1>12, <3>1, <3>3, <3>5 DEF Counted
    <2> QED BY <2>1, <2>2
<1>28. ASSUME NEW t \in Target, NEW f \in Filing, <<t, f>> \notin early' PROVE Single(t, f)'
    <2>1. Single(t, f) BY <1>28 DEF Inv, Announced, histories
    <2>2. ~ Holds(r, t, f)' /\ ~ Links(r, t, f)' BY <1>12, <1>13 DEF Holds, Links
    <2>3. \A s \in Runner : Holds(s, t, f)' => Holds(s, t, f) BY <1>16, <2>2
    <2>4. ASSUME NEW s \in Runner, Links(s, t, f)'
          PROVE  /\ Links(s, t, f) /\ published[f] # 0
                 /\ refresh'[s].row = refresh[s].row /\ refresh'[s].item = refresh[s].item
        <3>1. s # r BY <2>2, <2>4
        <3>2. Syncing(s) /\ Links(s, t, f)
            BY <1>16, <1>24, <2>4, <3>1 DEF Links
        <3> QED BY <1>16, <1>18, <3>1, <3>2 DEF Links, RefreshFits, ItemFits
    \* A new row compares with the last_sync_at of now.
    <2>5. ASSUME Current(t, f) PROVE Current(t, f)'
        <3>1. published'[f] <= target'[t].lastSync BY <2>5 DEF Current
        <3>2. ASSUME NEW s \in Runner, Syncing(s)', NEW row \in Rows(refresh'[s]), row.id = t
              PROVE  published'[f] <= row.previous
            <4>1. CASE s = r BY <1>9, <1>13, <1>22, <2>5, <3>2, <4>1 DEF Current
            <4>2. CASE s # r BY <1>16, <2>5, <3>2, <4>2 DEF Current
            <4> QED BY <4>1, <4>2
        <3> QED BY <3>1, <3>2 DEF Current
    <2> QED BY <2>1, <2>3, <2>4, <2>5, SingleStays DEF histories
<1> QED BY <1>21, <1>25, <1>26, <1>27, <1>28 DEF Inv, Typed, Announced

LEMMA StartStep ==
    ASSUME Sensible, Inv, NEW r \in Runner, Start(r)
    PROVE  Inv'
<1>1. Enabled \in SUBSET Target BY DEF Enabled
<1>2. UNCHANGED <<now, published, target, pulled, edition, linked, failures, crashes, histories>> /\ ~ Busy(r)
    BY DEF Start
<1>3. PICK earlier : earlier = NoPass OBVIOUS
<1>4. earlier.failed = {} /\ earlier.deferred = {} BY <1>3 DEF NoPass
<1>5. CASE r = Scheduled /\ Begin(r, "scheduler", Enabled, NoPass)
    <2>1. PICK S \in SUBSET Target : S = Enabled BY <1>1
    <2> QED BY <1>2, <1>3, <1>4, <1>5, <2>1, BeginStep
<1>6. CASE r # Scheduled /\ \E S \in {Enabled} \cup {{t} : t \in Target} : Begin(r, "manual", S, NoPass)
    <2>1. PICK S \in SUBSET Target : Begin(r, "manual", S, NoPass) BY <1>1, <1>6
    <2> QED BY <1>2, <1>3, <1>4, <1>6, <2>1, BeginStep
<1> QED BY <1>5, <1>6 DEF Start

\* What is left after two passes: the second goes through targets of the first.
LEMMA LeftCount ==
    ASSUME NEW F, NEW D, NEW C, NEW A, IsFiniteSet(F), IsFiniteSet(D), F \cap D = {},
           C \subseteq F \cup D, A \subseteq C
    PROVE  Cardinality(((F \cup D) \ C) \cup A) =
              Cardinality(F) - Cardinality(C) + Cardinality(A) + Cardinality(D)
<1>1. /\ IsFiniteSet(F \cup D)
      /\ Cardinality(F \cup D) = Cardinality(F) + Cardinality(D) - Cardinality(F \cap D)
    BY FS_Union
<1>2. IsFiniteSet(C) /\ IsFiniteSet(A)
    <2>1. IsFiniteSet(C) BY <1>1, FS_Subset
    <2> QED BY <2>1, FS_Subset
<1>3. Cardinality(F \cap D) = 0 BY FS_EmptySet
<1>4. /\ IsFiniteSet((F \cup D) \ C)
      /\ Cardinality((F \cup D) \ C) = Cardinality(F \cup D) - Cardinality((F \cup D) \cap C)
    BY <1>1, FS_Difference
<1>5. (F \cup D) \cap C = C OBVIOUS
<1>6. Cardinality(((F \cup D) \ C) \cup A) = Cardinality((F \cup D) \ C) + Cardinality(A)
                                              - Cardinality(((F \cup D) \ C) \cap A)
    BY <1>2, <1>4, FS_Union
<1>7. ((F \cup D) \ C) \cap A = {} OBVIOUS
<1>8. Cardinality({}) = 0 BY FS_EmptySet
<1>9. /\ Cardinality(F) \in Nat /\ Cardinality(D) \in Nat /\ Cardinality(C) \in Nat
      /\ Cardinality(A) \in Nat
    BY <1>2, FS_CardinalityType
<1>10. Cardinality(F \cup D) = Cardinality(F) + Cardinality(D) BY <1>1, <1>3, <1>9
<1>11. Cardinality((F \cup D) \ C) = Cardinality(F \cup D) - Cardinality(C) BY <1>4, <1>5
<1>12. Cardinality((F \cup D) \ C) \in Nat BY <1>4, FS_CardinalityType
<1>13. Cardinality(((F \cup D) \ C) \cup A) = Cardinality((F \cup D) \ C) + Cardinality(A)
    BY <1>6, <1>7, <1>8, <1>9, <1>12
<1> QED BY <1>9, <1>10, <1>11, <1>13

\* The task reports.
LEMMA ReportStep ==
    ASSUME Sensible, Inv, Syncing(Scheduled), refresh[Scheduled].pc = "done",
           NEW first, NEW again, Report(Scheduled, first, again),
           UNCHANGED <<now, published, target, pulled, edition, linked, failures, runs, crashes, histories>>,
           first.failed \subseteq Target, first.deferred \subseteq Target,
           again.checked \subseteq Target, again.failed \subseteq again.checked,
           first.failed \cap first.deferred = {},
           refresh[Scheduled].alone => again.checked \subseteq first.failed \cup first.deferred
    PROVE  Inv'
<1> DEFINE old == refresh[Scheduled]
           left == ((first.failed \cup first.deferred) \ again.checked) \cup again.failed
<1>1. Scheduled \in Runner BY DEF Sensible
<1>2. old \in Refresh /\ Busy(Scheduled) /\ RefreshFits(Scheduled, old)
    BY <1>1, UnderWay DEF Inv, Phases
<1>3. PICK n : n = Unresolved(first, again) OBVIOUS
<1>4. PICK m : m = [pc |-> "reported", since |-> old.since, alone |-> old.alone,
                    unresolved |-> n, left |-> left]
    OBVIOUS
<1>5. refresh' = [refresh EXCEPT ![Scheduled] = m] BY <1>3, <1>4 DEF Report
<1>6. /\ IsFiniteSet(first.failed) /\ IsFiniteSet(first.deferred) /\ IsFiniteSet(again.checked)
      /\ IsFiniteSet(again.failed)
    <2>1. \A S \in SUBSET Target : IsFiniteSet(S) BY FS_Subset DEF Sensible
    <2> QED BY <2>1
<1>7. n \in Int BY <1>3, <1>6, FS_CardinalityType DEF Unresolved
<1>8. old.alone => n = Cardinality(left)
    BY <1>3, <1>6, LeftCount DEF Unresolved
<1>9. m \in Reported /\ m.since = old.since /\ m.alone = old.alone /\ m.unresolved = n
      /\ m.left = left /\ m.pc = "reported"
    <2>1. left \in SUBSET Target OBVIOUS
    <2>2. old.since \in Nat /\ old.alone \in BOOLEAN BY <1>2 DEF Refresh
    <2> HIDE DEF left
    <2> QED BY <1>4, <1>7, <2>1, <2>2 DEF Reported
<1> HIDE DEF left
<1>10. Counted'
    <2>1. refresh'[Scheduled] = m BY <1>1, <1>5 DEF Inv, Typed, Refreshes
    <2> QED BY <1>8, <1>9, <2>1 DEF Counted, Syncing
<1>11. old.found = {} BY <1>2 DEF RefreshFits, PassFits
<1>12. Clocks' BY DEF Inv, Typed, Clocks, histories
<1>13. \A u \in Target : /\ target[u].lastSync <= target'[u].lastSync
                         /\ target[u].lastSync \in Nat /\ target'[u].lastSync \in Nat
    BY DEF Inv, Typed, Clocks
<1> QED BY <1>1, <1>2, <1>5, <1>9, <1>10, <1>11, <1>12, <1>13, QuietMove

LEMMA FinishStep ==
    ASSUME Sensible, Inv, NEW r \in Runner, Finish(r)
    PROVE  Inv'
<1> DEFINE me == refresh[r]
<1>1. /\ me \in Refresh /\ Syncing(r) /\ Busy(r) /\ RefreshFits(r, me) /\ PassFits(me)
      /\ me.pc = "done"
    BY UnderWay DEF Finish, Inv, Phases
<1>2. UNCHANGED <<now, published, target, pulled, edition, linked, failures, crashes, histories>>
    BY DEF Finish
<1>3. /\ me.failed \subseteq Target /\ me.deferred \subseteq Target /\ me.checked \subseteq Target
      /\ me.earlier.failed \subseteq Target /\ me.earlier.deferred \subseteq Target
      /\ me.failed \cap me.deferred = {} /\ me.failed \subseteq me.checked
    BY <1>1 DEF Refresh, PassFits
<1>4. CASE r # Scheduled /\ refresh' = [refresh EXCEPT ![r] = Idle] /\ runs' = runs
    <2>1. PICK m : m = Idle OBVIOUS
    <2>2. me.found = {} BY <1>1 DEF PassFits
    <2>3. Clocks' BY <1>2, <1>4 DEF Inv, Typed, Clocks, histories
    <2>4. \A u \in Target : /\ target[u].lastSync <= target'[u].lastSync
                            /\ target[u].lastSync \in Nat /\ target'[u].lastSync \in Nat
        BY <1>2 DEF Inv, Typed, Clocks
    <2> QED BY <1>1, <1>2, <1>4, <2>1, <2>2, <2>3, <2>4, QuietMove
<1>5. CASE r = Scheduled /\ me.trigger = "scheduler" /\ Begin(r, "recovery", Recoverable, me)
    <2>1. Recoverable \subseteq {t \in Target : target[t].enabled /\ \E i \in DOMAIN failures :
                                     failures[i].target = t /\ failures[i].retryable}
        <3>1. \A t \in Target : First(t) \subseteq Due BY DEF First
        <3>2. \A i \in DOMAIN failures : failures[i].target \in Target BY LogFacts DEF Inv
        <3> QED BY <3>1, <3>2 DEF Recoverable, Due
    <2>2. PICK S \in SUBSET Target : S = Recoverable BY <2>1
    <2>3. Open(me) = {} BY <1>1 DEF Open, Ids, PassFits, Storing
    <2>4. me.alone => S \subseteq me.failed \cup me.deferred
        BY <1>1, <1>5, <2>1, <2>2, <2>3 DEF Inv, Counted
    <2>5. Begin(r, "recovery", S, me) BY <1>5, <2>2
    <2>6. PICK earlier : earlier = me OBVIOUS
    <2> HIDE DEF me
    <2>7. Begin(r, "recovery", S, earlier) BY <2>5, <2>6
    <2> QED BY <1>1, <1>2, <1>3, <1>5, <2>4, <2>6, <2>7, BeginStep DEF me
<1>6. CASE r = Scheduled /\ Report(r, me, NoPass) /\ runs' = runs
    <2>1. PICK again : again = NoPass OBVIOUS
    <2>2. again.checked = {} /\ again.failed = {} BY <2>1 DEF NoPass
    <2>3. PICK first : first = me OBVIOUS
    <2> QED BY <1>1, <1>2, <1>3, <1>6, <2>1, <2>2, <2>3, ReportStep
<1>7. CASE me.trigger = "recovery" /\ Report(r, me.earlier, me) /\ runs' = runs
    <2>1. r = Scheduled BY <1>1, <1>7 DEF RefreshFits
    <2>2. PICK first, again : first = me.earlier /\ again = me OBVIOUS
    <2>3. /\ me.earlier.failed \cap me.earlier.deferred = {}
          /\ me.alone => me.checked \subseteq me.earlier.failed \cup me.earlier.deferred
        BY <1>1, <1>7, <2>1 DEF Inv, Counted
    <2> QED BY <1>1, <1>2, <1>3, <1>7, <2>1, <2>2, <2>3, ReportStep
<1> QED BY <1>4, <1>5, <1>6, <1>7 DEF Finish

-----------------------------------------------------------------------------
(* Every step                                                              *)

LEMMA Initially ==
    ASSUME Sensible, Init
    PROVE  Inv
<1>1. \A r \in Runner : refresh[r] = Idle /\ ~ Syncing(r) /\ ~ Busy(r) BY DEF Init, Syncing, Busy, Idle
<1>2. Clocks BY DEF Init, Clocks, Sensible, Failures, Pairs
<1>7. Idle.pc # "reported" BY DEF Idle
<1>3. Refreshes BY <1>1, <1>7 DEF Init, Refreshes
<1>4. Kept BY <1>1 DEF Init, Kept, NothingDropped
<1>5. Counted BY <1>1 DEF Counted, Sensible, Idle
<1>6. ASSUME NEW t \in Target, NEW f \in Filing PROVE Single(t, f)
    <2>1. \A r \in Runner : ~ Holds(r, t, f) /\ ~ Links(r, t, f) BY <1>1 DEF Holds, Links
    <2>2. queued[<<t, f>>] = 0 BY DEF Init, Pairs
    <2> QED BY <2>1, <2>2 DEF Single, Told
<1> QED BY <1>2, <1>3, <1>4, <1>5, <1>6 DEF Inv, Typed, Announced

LEMMA Stays ==
    ASSUME Sensible, Inv, [Next]_vars
    PROVE  Inv'
<1>1. CASE \E F \in SUBSET Filing : Tick(F) BY <1>1, TickStep
<1>2. CASE \E t \in Target : SetStatus(t) BY <1>2, SetStatusStep
<1>3. CASE Cleanup BY <1>3, CleanupStep
<1>4. CASE Crash BY <1>4, CrashStep
<1>5. ASSUME NEW r \in Runner,
             \/ Start(r) \/ ReadSettings(r)
             \/ Defer(r) \/ DeferFails(r) \/ Fail(r) \/ List(r)
             \/ Insert(r) \/ Renew(r) \/ Find(r) \/ Link(r)
             \/ Lose(r) \/ StoreFails(r) \/ Succeed(r)
             \/ Deliver(r) \/ DeliverFails(r) \/ Conclude(r) \/ Finish(r) \/ Rest(r)
      PROVE  Inv'
    <2>1. CASE Start(r) \/ ReadSettings(r) \/ Finish(r) \/ Rest(r)
        BY <2>1, StartStep, ReadSettingsStep, FinishStep, RestStep
    <2>2. CASE Defer(r) \/ DeferFails(r) \/ Fail(r) \/ List(r) \/ Succeed(r)
        BY <2>2, DeferStep, DeferFailsStep, FailStep, ListStep, SucceedStep
    <2>3. CASE Insert(r) \/ Renew(r) \/ Find(r) \/ Link(r) \/ Lose(r) \/ StoreFails(r)
        BY <2>3, InsertStep, RenewStep, FindStep, LinkStep, LoseStep, StoreFailsStep
    <2>4. CASE Deliver(r) \/ DeliverFails(r) \/ Conclude(r)
        BY <2>4, DeliverStep, DeliverFailsStep, ConcludeStep
    <2> QED BY <1>5, <2>1, <2>2, <2>3, <2>4
<1>6. CASE UNCHANGED vars
    <2>1. UNCHANGED <<now, published, target, pulled, edition, linked, failures, runs, refresh,
                      crashes, queued, associated, decided, lost, early>>
        BY <1>6 DEF vars, tables, histories
    <2>2. Clocks' BY <2>1 DEF Inv, Typed, Clocks
    <2>3. /\ \A s \in Runner : (Syncing(s)' <=> Syncing(s)) /\ (Busy(s)' <=> Busy(s))
          /\ \A s \in Runner, t \in Target, f \in Filing : Holds(s, t, f)' <=> Holds(s, t, f)
          /\ Refreshes'
        <3>1. now \in Nat /\ \A s \in Runner : Busy(s) => refresh[s].since \in {now - 1, now}
            BY DEF Inv, Typed, Clocks, Refreshes
        <3> QED BY <2>1, <3>1, SameRefreshes DEF Inv
    <2>4. Kept' BY <2>1, SameKept DEF Inv
    <2>5. Counted' BY <2>1, <2>3 DEF Inv, Counted, Syncing
    <2>6. ASSUME NEW t \in Target, NEW f \in Filing, <<t, f>> \notin early' PROVE Single(t, f)'
        <3>1. Single(t, f) BY <2>1, <2>6 DEF Inv, Announced
        <3>2. \A s \in Runner : Links(s, t, f)' => Links(s, t, f) /\ published[f] # 0
            BY <2>1, <2>3 DEF Links, Inv, Typed, Refreshes, RefreshFits, ItemFits
        <3>3. Current(t, f) => Current(t, f)' BY <2>1, <2>3 DEF Current
        <3> QED BY <2>1, <2>3, <3>1, <3>2, <3>3, SingleStays
    <2> QED BY <2>2, <2>3, <2>4, <2>5, <2>6 DEF Inv, Typed, Announced
<1> QED BY <1>1, <1>2, <1>3, <1>4, <1>5, <1>6 DEF Next

LEMMA Invariance ==
    ASSUME Sensible
    PROVE  Spec => []Inv
<1>1. Init => Inv BY Initially
<1>2. Inv /\ [Next]_vars => Inv' BY Stays
<1> QED BY <1>1, <1>2, PTL DEF Spec

LEMMA Consequences ==
    ASSUME Sensible, Inv
    PROVE  TypeOK /\ NothingDropped /\ UnresolvedExact /\ AnnouncedOnce
<1>1. Typed /\ Kept /\ Counted BY DEF Inv
<1>2. TypeOK
    <2>1. now \in Nat /\ now \in 1..MaxTime BY <1>1 DEF Typed, Clocks, Sensible
    <2>2. published \in [Filing -> 0..MaxTime] BY <1>1, <2>1 DEF Typed, Clocks, Sensible
    <2>3. \A i \in DOMAIN runs : runs[i] \in {"running", "success", "partial", "failed"}
        BY <1>1 DEF Typed, Clocks, Statuses
    <2>4. ASSUME NEW r \in Runner, Syncing(r)
          PROVE  /\ refresh[r].since \in {now - 1, now}
                 /\ refresh[r].trigger = "recovery" => r = Scheduled
                 /\ refresh[r].todo # {} => runs[refresh[r].run] = "running"
        BY <1>1, <2>4 DEF Typed, Refreshes, RefreshFits, PassFits
    <2> QED BY <1>1, <2>1, <2>2, <2>3, <2>4 DEF Typed, Clocks, TypeOK
<1>3. NothingDropped BY <1>1 DEF Kept
<1>4. UnresolvedExact
    <2>1. ASSUME NEW r \in Runner, refresh[r].pc = "reported", refresh[r].alone
          PROVE  refresh[r].unresolved = Cardinality(refresh[r].left)
        <3>1. r = Scheduled BY <1>1, <2>1 DEF Typed, Refreshes
        <3> QED BY <1>1, <2>1, <3>1 DEF Counted
    <2> QED BY <2>1 DEF UnresolvedExact
<1>5. AnnouncedOnce
    <2>1. ASSUME NEW p \in Pairs \ early PROVE queued[p] <= 1
        <3>1. p = <<p[1], p[2]>> /\ p[1] \in Target /\ p[2] \in Filing BY DEF Pairs
        <3>2. Single(p[1], p[2]) BY <2>1, <3>1 DEF Inv, Announced
        <3> QED BY <3>1, <3>2 DEF Single
    <2> QED BY <2>1 DEF AnnouncedOnce
<1> QED BY <1>2, <1>3, <1>4, <1>5

-----------------------------------------------------------------------------
(* Theorems                                                                *)

\* Times lie in the past, an association is to a row that was there once, a recovery is
\* the scheduled task's, and while a refresh has targets left its run says "running"
\* (createFilingAndAssociate, refreshTargets).
THEOREM TypeCorrect ==
    ASSUME Sensible
    PROVE  Spec => []TypeOK
<1>1. Inv => TypeOK BY Consequences
<1> QED BY <1>1, Invariance, PTL

\* "A filing is notified once": however refreshes and recoveries overlap, whatever the
\* cleanup drops between their statements, and however often a filing is listed, stored
\* and linked anew, it is handed over as news of a target at most once
\* (createFilingAndAssociate, filingNotificationReason), unless the cleanup dropped it
\* before the target's last_sync_at had passed it.
THEOREM SentOnce ==
    ASSUME Sensible
    PROVE  Spec => []AnnouncedOnce
<1>1. Inv => AnnouncedOnce BY Consequences
<1> QED BY <1>1, Invariance, PTL

\* A run that ended well decided on all it had newly associated; of any other run what
\* is not decided on is held by its refresh, unless a filing was cleaned up between two
\* statements of the run, a statement failed or the process died (refreshTargets).
THEOREM NoneDropped ==
    ASSUME Sensible
    PROVE  Spec => []NothingDropped
<1>1. Inv => NothingDropped BY Consequences
<1> QED BY <1>1, Invariance, PTL

\* The number the task reports (runTask) is that of the targets it left, when it was
\* alone: the recovery goes through targets of the first pass only.
THEOREM UnresolvedCounted ==
    ASSUME Sensible
    PROVE  Spec => []UnresolvedExact
<1>1. Inv => UnresolvedExact BY Consequences
<1> QED BY <1>1, Invariance, PTL
=============================================================================
