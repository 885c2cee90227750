--------------------------- MODULE DownloadCache ---------------------------
(***************************************************************************)
(* The cached downloads of one Downloader (discovery/download.go): a lock  *)
(* per cache path that exists while somebody refers to it, conditional     *)
(* requests, and the replacement of a cached file by a rename.  A file is  *)
(* the number of the source's edition it holds.                            *)
(***************************************************************************)
EXTENDS Naturals, FiniteSets

CONSTANTS
    Caller,      \* goroutines of the process
    Path,        \* cache paths
    Lock,        \* bound: lock objects ever created
    None,
    MaxEdition,  \* bound: editions of a source
    MaxCrashes   \* bound: restarts

VARIABLES locks, object, caller, file, temp, edition, crashes
vars == <<locks, object, caller, file, temp, edition, crashes>>

\* d.locks maps a path to its lock; a lock has a semaphore and a reference count.
Unused == [references |-> 0, free |-> TRUE, born |-> FALSE]
Idle == [pc |-> "idle", path |-> None, lock |-> None, prior |-> 0, ttl |-> FALSE, result |-> 0]

Init ==
    /\ locks = [p \in Path |-> None]
    /\ object = [l \in Lock |-> Unused]
    /\ caller = [c \in Caller |-> Idle]
    /\ file = [p \in Path |-> 0]         \* 0: nothing cached
    /\ temp = {}
    /\ edition = 1
    /\ crashes = 0

\* The check of the arguments, and lockCachePath up to the wait: the lock of the
\* path is found or made, and referred to, under locksMu.  A caller may have the
\* metadata of an earlier download, which the database keeps however the cache
\* fares, and may accept a fresh file as it is.
Call(c) ==
    /\ caller[c] = Idle
    /\ \E p \in Path, l \in Lock, prior \in 0..edition, ttl \in BOOLEAN :
         /\ IF locks[p] # None THEN l = locks[p] ELSE ~object[l].born
         /\ locks' = [locks EXCEPT ![p] = l]
         /\ object' = [object EXCEPT ![l].references = @ + 1, ![l].born = TRUE]
         /\ caller' = [caller EXCEPT ![c] =
              [pc |-> "wait", path |-> p, lock |-> l, prior |-> prior, ttl |-> ttl, result |-> 0]]
    /\ UNCHANGED <<file, temp, edition, crashes>>

\* releaseCachePathLockReference, after the semaphore when it was held: the path
\* forgets its lock with the last reference.
Forget_Early(c, held) ==
    LET l == caller[c].lock  p == caller[c].path
    IN /\ object' = [object EXCEPT ![l].references = @ - 1, ![l].free = @ \/ held]
       /\ locks' = [locks EXCEPT ![p] = None]

Forget(c, held) ==
    LET l == caller[c].lock  p == caller[c].path
    IN /\ object' = [object EXCEPT ![l].references = @ - 1, ![l].free = @ \/ held]
       /\ locks' = [locks EXCEPT ![p] = IF object[l].references = 1 /\ locks[p] = l THEN None ELSE @]

\* The context ends while the caller waits.
GiveUp(c) ==
    /\ caller[c].pc = "wait"
    /\ Forget(c, FALSE)
    /\ caller' = [caller EXCEPT ![c] = Idle]
    /\ UNCHANGED <<file, temp, edition, crashes>>

Enter(c) ==
    /\ caller[c].pc = "wait"
    /\ object[caller[c].lock].free
    /\ object' = [object EXCEPT ![caller[c].lock].free = FALSE]
    /\ caller' = [caller EXCEPT ![c].pc = "look"]
    /\ UNCHANGED <<locks, file, temp, edition, crashes>>

Holds(c) == caller[c].pc \in {"look", "body", "rename"}

Return(c, result) ==
    /\ caller' = [caller EXCEPT ![c] = [@ EXCEPT !.pc = "return", !.result = result]]
    /\ UNCHANGED locks

\* freshCachedDownloadResult: with a lifetime, a file that is there is taken.
TakeFresh(c) ==
    /\ caller[c].pc = "look"
    /\ caller[c].ttl /\ file[caller[c].path] # 0
    /\ Return(c, file[caller[c].path])
    /\ UNCHANGED <<object, file, temp, edition, crashes>>

\* The server answers 304 to the caller's metadata.  They count only for the
\* file they were written for.
NotModified_Trusted(c) ==
    /\ caller[c].pc = "look"
    /\ caller[c].prior = edition
    /\ Return(c, caller[c].prior)
    /\ UNCHANGED <<object, file, temp, edition, crashes>>

NotModified(c) ==
    /\ caller[c].pc = "look"
    /\ caller[c].prior = edition
    /\ Return(c, IF file[caller[c].path] = caller[c].prior THEN caller[c].prior ELSE 0)
    /\ UNCHANGED <<object, file, temp, edition, crashes>>

\* The server answers 200: the body goes to a temporary file.
Respond(c) ==
    /\ caller[c].pc = "look"
    /\ caller[c].prior # edition
    /\ temp' = temp \cup {c}
    /\ caller' = [caller EXCEPT ![c] = [@ EXCEPT !.pc = "body", !.result = edition]]
    /\ UNCHANGED <<locks, object, file, edition, crashes>>

\* The request or its body fails; an earlier file, whole as it is, serves instead.
FallBack(c) ==
    /\ caller[c].pc \in {"look", "body"}
    /\ temp' = temp \ {c}
    /\ Return(c, file[caller[c].path])
    /\ UNCHANGED <<object, file, edition, crashes>>

\* Another status, a body over MaxBytes, or a failing file operation.
Refuse(c) ==
    /\ caller[c].pc \in {"look", "body", "rename"}
    /\ temp' = temp \ {c}
    /\ Return(c, 0)
    /\ UNCHANGED <<object, file, edition, crashes>>

\* The body is complete and within its limit, synced and closed.
Complete(c) ==
    /\ caller[c].pc = "body"
    /\ caller' = [caller EXCEPT ![c].pc = "rename"]
    /\ UNCHANGED <<locks, object, file, temp, edition, crashes>>

\* The rename publishes it; a failing sync of the directory afterwards returns
\* an error although the file is there.
Replace(c) ==
    /\ caller[c].pc = "rename"
    /\ file' = [file EXCEPT ![caller[c].path] = caller[c].result]
    /\ temp' = temp \ {c}
    /\ \E synced \in BOOLEAN : Return(c, IF synced THEN caller[c].result ELSE 0)
    /\ UNCHANGED <<object, edition, crashes>>

Unlock(c) ==
    /\ caller[c].pc = "return"
    /\ Forget(c, TRUE)
    /\ caller' = [caller EXCEPT ![c] = Idle]
    /\ UNCHANGED <<file, temp, edition, crashes>>

\* The source publishes a new edition.
NewEdition ==
    /\ edition < MaxEdition
    /\ edition' = edition + 1
    /\ UNCHANGED <<locks, object, caller, file, temp, crashes>>

\* The cache directory is cleared while nobody downloads.
Clear ==
    /\ \A c \in Caller : caller[c] = Idle
    /\ file' = [p \in Path |-> 0] /\ temp' = {}
    /\ UNCHANGED <<locks, object, caller, edition, crashes>>

\* The process dies: files survive, temporary ones included.
Crash ==
    /\ crashes < MaxCrashes
    /\ crashes' = crashes + 1
    /\ locks' = [p \in Path |-> None]
    /\ object' = [l \in Lock |-> Unused]
    /\ caller' = [c \in Caller |-> Idle]
    /\ UNCHANGED <<file, temp, edition>>

Next == \/ \E c \in Caller : \/ Call(c) \/ GiveUp(c) \/ Enter(c) \/ TakeFresh(c) \/ NotModified(c)
                             \/ Respond(c) \/ FallBack(c) \/ Refuse(c) \/ Complete(c)
                             \/ Replace(c) \/ Unlock(c)
        \/ NewEdition \/ Clear \/ Crash

Spec == Init /\ [][Next]_vars

(***************************************************************************)
(* Properties                                                              *)
(***************************************************************************)
\* A path has at most one caller past its lock, also when its lock has been
\* forgotten and made again, and no lock outlives the last caller that needs it.
OnePerPath ==
    /\ \A c, d \in Caller : Holds(c) /\ Holds(d) /\ caller[c].path = caller[d].path => c = d
    /\ \A p \in Path : locks[p] # None <=> \E c \in Caller : caller[c].path = p

\* What a caller is told it has is what the file holds while the caller still
\* has the path to itself, whether downloaded, kept or confirmed by a 304.
ResultIsFile ==
    \A c \in Caller : caller[c].pc = "return" /\ caller[c].result # 0
                        => file[caller[c].path] = caller[c].result
=============================================================================
