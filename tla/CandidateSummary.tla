-------------------------- MODULE CandidateSummary --------------------------
(***************************************************************************)
(* The candidate summary shared by the read handlers                       *)
(* (api/handler/candidate_summary.go).  A request builds it from several   *)
(* reads under one mutex and keeps it for 15 seconds; a counter that gorm  *)
(* callbacks raise after each statement tells that rows have changed.  The *)
(* database is a version number that every commit raises.                  *)
(***************************************************************************)
EXTENDS Naturals

CONSTANTS
    Reader,      \* requests
    Writer,      \* goroutines that change candidate rows
    Lifetime,    \* bound: ticks that stand for the 15 seconds
    MaxWrites    \* bound: commits

VARIABLES version, returned, revision, cache, lock, reader, writer,
          plain    \* history: every write so far was a statement of its own
vars == <<version, returned, revision, cache, lock, reader, writer, plain>>

None == [value |-> 0, revision |-> 0, age |-> Lifetime]
Idle == [pc |-> "idle", needs |-> 0, revision |-> 0, value |-> 0]

Init ==
    /\ version = 0                     \* what has been committed
    /\ returned = 0                    \* the latest commit whose writer has returned
    /\ revision = 0 /\ cache = None
    /\ lock = FALSE
    /\ reader = [r \in Reader |-> Idle]
    /\ writer = [w \in Writer |-> "idle"]
    /\ plain = TRUE

(***************************************************************************)
(* Writers: gorm commits a statement of its own and then runs the callback; *)
(* inside an explicit transaction the callback runs before the commit.     *)
(***************************************************************************)
Statement(w) ==
    /\ writer[w] = "idle" /\ version < MaxWrites
    /\ version' = version + 1
    /\ writer' = [writer EXCEPT ![w] = "committed"]
    /\ UNCHANGED <<returned, revision, cache, lock, reader, plain>>

\* The registered callback, and the return to the caller.
Invalidate_Skipped(w) ==
    /\ writer[w] = "committed"
    /\ revision' = revision
    /\ returned' = version
    /\ writer' = [writer EXCEPT ![w] = "idle"]
    /\ UNCHANGED <<version, cache, lock, reader, plain>>

Invalidate(w) ==
    /\ writer[w] = "committed"
    /\ revision' = revision + 1
    /\ returned' = version
    /\ writer' = [writer EXCEPT ![w] = "idle"]
    /\ UNCHANGED <<version, cache, lock, reader, plain>>

InTransaction(w) ==
    /\ writer[w] = "idle" /\ version < MaxWrites
    /\ revision' = revision + 1
    /\ writer' = [writer EXCEPT ![w] = "open"]
    /\ plain' = FALSE
    /\ UNCHANGED <<version, returned, cache, lock, reader>>

Commit(w) ==
    /\ writer[w] = "open" /\ version < MaxWrites
    /\ version' = version + 1
    /\ returned' = version + 1
    /\ writer' = [writer EXCEPT ![w] = "idle"]
    /\ UNCHANGED <<revision, cache, lock, reader, plain>>

(***************************************************************************)
(* Readers                                                                 *)
(***************************************************************************)
\* A request must see what had been written when it came in.
Arrive(r) ==
    /\ reader[r].pc = "idle"
    /\ reader' = [reader EXCEPT ![r] = [Idle EXCEPT !.pc = "wait", !.needs = returned]]
    /\ UNCHANGED <<version, returned, revision, cache, lock, writer, plain>>

Valid == cache.age < Lifetime /\ cache.revision = revision

\* Under the mutex: the kept value if it is valid, or a new build.
Enter(r) ==
    /\ reader[r].pc = "wait" /\ ~lock
    /\ \/ /\ Valid
          /\ reader' = [reader EXCEPT ![r].pc = "served", ![r].value = cache.value]
          /\ UNCHANGED lock
       \/ /\ ~Valid
          /\ lock' = TRUE
          /\ reader' = [reader EXCEPT ![r].pc = "first", ![r].revision = revision]
    /\ UNCHANGED <<version, returned, revision, cache, writer, plain>>

\* The candidates, the health, the overview and the effectiveness report are
\* separate reads; the oldest of them is as old as the first.
ReadFirst(r) ==
    /\ reader[r].pc = "first"
    /\ reader' = [reader EXCEPT ![r].pc = "store", ![r].value = version]
    /\ UNCHANGED <<version, returned, revision, cache, lock, writer, plain>>

\* A read fails, or the request is cancelled.
BuildFails(r) ==
    /\ reader[r].pc \in {"first", "store"}
    /\ lock' = FALSE
    /\ reader' = [reader EXCEPT ![r] = Idle]
    /\ UNCHANGED <<version, returned, revision, cache, writer, plain>>

\* The value is kept if nothing was invalidated while it was built.
Store_Always(r) ==
    /\ reader[r].pc = "store"
    /\ cache' = [value |-> reader[r].value, revision |-> revision, age |-> 0]
    /\ lock' = FALSE
    /\ reader' = [reader EXCEPT ![r].pc = "served"]
    /\ UNCHANGED <<version, returned, revision, writer, plain>>

Store(r) ==
    /\ reader[r].pc = "store"
    /\ cache' = IF revision = reader[r].revision
                  THEN [value |-> reader[r].value, revision |-> revision, age |-> 0]
                  ELSE cache
    /\ lock' = FALSE
    /\ reader' = [reader EXCEPT ![r].pc = "served"]
    /\ UNCHANGED <<version, returned, revision, writer, plain>>

Answer(r) ==
    /\ reader[r].pc = "served"
    /\ reader' = [reader EXCEPT ![r] = Idle]
    /\ UNCHANGED <<version, returned, revision, cache, lock, writer, plain>>

Tick ==
    /\ cache.age < Lifetime
    /\ cache' = [cache EXCEPT !.age = @ + 1]
    /\ UNCHANGED <<version, returned, revision, lock, reader, writer, plain>>

Next == \/ \E w \in Writer : Statement(w) \/ Invalidate(w) \/ InTransaction(w) \/ Commit(w)
        \/ \E r \in Reader : Arrive(r) \/ Enter(r) \/ ReadFirst(r) \/ BuildFails(r) \/ Store(r) \/ Answer(r)
        \/ Tick

Spec == Init /\ [][Next]_vars

(***************************************************************************)
(* Properties                                                              *)
(***************************************************************************)
\* "Any ORM/SQL mutation invalidates shared evidence after its commit": a
\* request that comes in after a write has returned is not served a summary
\* from before it, whatever was built or kept meanwhile.
SeesEarlierWrites ==
    \A r \in Reader : reader[r].pc = "served" => reader[r].value >= reader[r].needs

\* That holds as long as every write is a statement of its own: builds that
\* overlap writes and invalidations are dropped, or never kept.
SeesEarlierStatements == plain => SeesEarlierWrites
=============================================================================
