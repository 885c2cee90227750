------------------------ MODULE DownloadCacheProofs ------------------------
(***************************************************************************)
(* Theorems about DownloadCache, for every set of callers, paths and locks *)
(* and every number of editions and restarts: a path has one caller past   *)
(* its lock at a time, and what a caller is told it has is in the file.    *)
(***************************************************************************)
EXTENDS DownloadCache, Integers, FiniteSetTheorems, TLAPS

-----------------------------------------------------------------------------
(* Types                                                                   *)

Object == [references : Int, free : BOOLEAN, born : BOOLEAN]
Active == [pc : {"wait", "look", "body", "rename", "return"}, path : Path,
           lock : Lock, prior : Nat, ttl : BOOLEAN, result : Nat]

Typed ==
    /\ locks \in [Path -> Lock \cup {None}]
    /\ object \in [Lock -> Object]
    /\ caller \in [Caller -> Active \cup {Idle}]
    /\ file \in [Path -> Nat]
    /\ edition \in Nat

LEMMA IdleFacts ==
    /\ Idle.pc = "idle" /\ Idle.path = None /\ Idle.lock = None
    /\ Unused.references = 0 /\ Unused.free /\ ~ Unused.born
    /\ Unused \in Object
    /\ \A a \in Active : a # Idle /\ a.pc # "idle" /\ a.lock \in Lock /\ a.path \in Path
BY DEF Idle, Unused, Object, Active

\* A caller that has called and not returned yet.
Inside(c) == caller[c].pc # "idle"

LEMMA InsideFacts ==
    ASSUME Typed, NEW c \in Caller
    PROVE  /\ Inside(c) <=> caller[c] \in Active
           /\ Inside(c) => caller[c].lock \in Lock /\ caller[c].path \in Path
           /\ ~ Inside(c) => caller[c] = Idle
BY IdleFacts DEF Typed, Inside

-----------------------------------------------------------------------------
(* What the steps do                                                       *)

\* The steps of a caller between its call and its return.
Inner(c) ==
    \/ Enter(c) \/ TakeFresh(c) \/ NotModified(c) \/ Respond(c) \/ FallBack(c)
    \/ Refuse(c) \/ Complete(c) \/ Replace(c)

LEMMA InnerFacts ==
    ASSUME Typed, NEW c \in Caller, Inner(c)
    PROVE  /\ Inside(c) /\ caller' = [caller EXCEPT ![c] = caller'[c]]
           /\ caller'[c] \in Active
           /\ caller'[c].path = caller[c].path /\ caller'[c].lock = caller[c].lock
           /\ caller[c].pc = "wait" => Enter(c)
           /\ caller'[c].pc # "wait"
           /\ \/ Enter(c)
              \/ UNCHANGED object
           /\ UNCHANGED <<locks, edition, crashes>>
<1>1. caller[c] \in Active
  BY InsideFacts DEF Inner, Inside, Enter, TakeFresh, NotModified, Respond, FallBack,
                     Refuse, Complete, Replace
<1>2. /\ caller[c].prior \in Nat /\ caller[c].result \in Nat /\ caller[c].path \in Path
      /\ file[caller[c].path] \in Nat /\ edition \in Nat
  BY <1>1 DEF Active, Typed
<1>3. PICK a : /\ caller' = [caller EXCEPT ![c] = a] /\ a \in Active
               /\ a.path = caller[c].path /\ a.lock = caller[c].lock /\ a.pc # "wait"
  <2>1. ASSUME NEW result \in Nat, Return(c, result)
        PROVE  \E a : /\ caller' = [caller EXCEPT ![c] = a] /\ a \in Active
                      /\ a.path = caller[c].path /\ a.lock = caller[c].lock /\ a.pc # "wait"
    <3> DEFINE a == [caller[c] EXCEPT !.pc = "return", !.result = result]
    <3>1. caller' = [caller EXCEPT ![c] = a]
      BY <2>1 DEF Return, Typed
    <3>2. a \in Active /\ a.path = caller[c].path /\ a.lock = caller[c].lock /\ a.pc # "wait"
      BY <1>1 DEF Active
    <3> QED BY <3>1, <3>2
  <2>2. ASSUME NEW pc \in {"look", "rename"}, caller' = [caller EXCEPT ![c].pc = pc]
        PROVE  \E a : /\ caller' = [caller EXCEPT ![c] = a] /\ a \in Active
                      /\ a.path = caller[c].path /\ a.lock = caller[c].lock /\ a.pc # "wait"
    <3> DEFINE a == [caller[c] EXCEPT !.pc = pc]
    <3>1. caller' = [caller EXCEPT ![c] = a]
      BY <2>2 DEF Typed
    <3>2. a \in Active /\ a.path = caller[c].path /\ a.lock = caller[c].lock /\ a.pc # "wait"
      BY <1>1 DEF Active
    <3> QED BY <3>1, <3>2
  <2>3. CASE Respond(c)
    <3> DEFINE a == [caller[c] EXCEPT !.pc = "body", !.result = edition]
    <3>1. caller' = [caller EXCEPT ![c] = a]
      BY <2>3 DEF Respond, Typed
    <3>2. a \in Active /\ a.path = caller[c].path /\ a.lock = caller[c].lock /\ a.pc # "wait"
      BY <1>1, <1>2 DEF Active
    <3> QED BY <3>1, <3>2
  <2>4. CASE Enter(c) \/ Complete(c)
    BY <2>2, <2>4 DEF Enter, Complete
  <2>5. CASE TakeFresh(c) \/ NotModified(c) \/ FallBack(c) \/ Refuse(c) \/ Replace(c)
    <3>1. \E result \in Nat : Return(c, result)
      BY <1>2, <2>5 DEF TakeFresh, NotModified, FallBack, Refuse, Replace
    <3> QED BY <2>1, <3>1
  <2> QED BY <2>3, <2>4, <2>5 DEF Inner
<1>4. caller'[c] = a
  BY <1>3 DEF Typed
<1>5. UNCHANGED <<locks, edition, crashes>> /\ (Enter(c) \/ UNCHANGED object)
  BY DEF Inner, Enter, TakeFresh, NotModified, Respond, FallBack, Refuse, Complete, Replace,
         Return
<1>6. caller[c].pc = "wait" => Enter(c)
  BY DEF Inner, TakeFresh, NotModified, Respond, FallBack, Refuse, Complete, Replace
<1> QED BY <1>1, <1>3, <1>4, <1>5, <1>6, InsideFacts

LEMMA EnterFacts ==
    ASSUME Typed, NEW c \in Caller, Enter(c)
    PROVE  LET l == caller[c].lock IN
           /\ l \in Lock /\ object[l].free
           /\ object' \in [Lock -> Object]
           /\ \A k \in Lock : k # l => object'[k] = object[k]
           /\ object'[l].references = object[l].references
           /\ object'[l].born = object[l].born /\ object'[l].free = FALSE
           /\ caller[c].pc = "wait" /\ caller'[c].pc = "look"
           /\ UNCHANGED file
<1>1. caller[c].lock \in Lock /\ caller[c].pc = "wait"
  BY InsideFacts DEF Enter, Inside
<1>2. caller[c] \in Active
  BY <1>1, InsideFacts DEF Inside
<1>3. \A k \in Lock : object[k] \in Object
  BY DEF Typed
<1> QED BY <1>1, <1>2, <1>3 DEF Enter, Typed, Object, Active

LEMMA CallFacts ==
    ASSUME Typed, NEW c \in Caller, Call(c)
    PROVE  \E p \in Path, l \in Lock :
           /\ ~ Inside(c)
           /\ IF locks[p] # None THEN l = locks[p] ELSE ~ object[l].born
           /\ locks' = [locks EXCEPT ![p] = l]
           /\ object' = [object EXCEPT ![l] = object'[l]] /\ object'[l] \in Object
           /\ object'[l].references = object[l].references + 1
           /\ object'[l].free = object[l].free /\ object'[l].born
           /\ caller' = [caller EXCEPT ![c] = caller'[c]] /\ caller'[c] \in Active
           /\ caller'[c].pc = "wait" /\ caller'[c].path = p /\ caller'[c].lock = l
           /\ UNCHANGED <<file, edition, crashes>>
<1>1. PICK p \in Path, l \in Lock, prior \in 0 .. edition, ttl \in BOOLEAN :
         /\ IF locks[p] # None THEN l = locks[p] ELSE ~ object[l].born
         /\ locks' = [locks EXCEPT ![p] = l]
         /\ object' = [object EXCEPT ![l].references = @ + 1, ![l].born = TRUE]
         /\ caller' = [caller EXCEPT ![c] =
              [pc |-> "wait", path |-> p, lock |-> l, prior |-> prior, ttl |-> ttl, result |-> 0]]
  BY DEF Call
<1> DEFINE a == [pc |-> "wait", path |-> p, lock |-> l, prior |-> prior, ttl |-> ttl,
                 result |-> 0]
<1>2. prior \in Nat
  BY DEF Typed
<1>3. a \in Active /\ a.pc = "wait" /\ a.path = p /\ a.lock = l
  BY <1>2 DEF Active
<1>4. object[l] \in Object /\ object[l].references + 1 \in Int
  <2>1. object[l] \in Object
    BY DEF Typed
  <2>2. object[l].references \in Int
    BY <2>1 DEF Object
  <2> QED BY <2>1, <2>2
<1> PICK n \in Int : n = object[l].references + 1
  BY <1>4
<1> DEFINE o == [object[l] EXCEPT !.references = n, !.born = TRUE]
<1>5. o \in Object /\ o.references = n /\ o.free = object[l].free /\ o.born
  BY <1>4 DEF Object
<1>6. object' = [object EXCEPT ![l] = o]
  <2>1. object' = [object EXCEPT ![l] = [object[l] EXCEPT
                     !.references = object[l].references + 1, !.born = TRUE]]
    BY <1>1, Zenon
  <2> QED BY <2>1, Zenon
<1>10. caller' = [caller EXCEPT ![c] = a]
  BY <1>1
<1> HIDE DEF a, o
<1>7. object'[l] = o /\ caller'[c] = a
  BY <1>6, <1>10 DEF Typed
<1> WITNESS p \in Path, l \in Lock
<1> QED BY <1>1, <1>3, <1>5, <1>6, <1>7, <1>10, IdleFacts DEF Call, Inside

Leave(c) == GiveUp(c) \/ Unlock(c)

LEMMA LeaveFacts ==
    ASSUME Typed, NEW c \in Caller, Leave(c)
    PROVE  LET l == caller[c].lock  p == caller[c].path IN
           /\ Inside(c) /\ l \in Lock /\ p \in Path
           /\ locks' = [locks EXCEPT
                           ![p] = IF object[l].references = 1 /\ locks[p] = l THEN None ELSE @]
           /\ object' = [object EXCEPT ![l] = object'[l]] /\ object'[l] \in Object
           /\ object'[l].references = object[l].references - 1
           /\ object'[l].born = object[l].born
           /\ caller[c].pc \in {"wait", "return"}
           /\ caller[c].pc = "wait" => object'[l].free = object[l].free
           /\ caller' = [caller EXCEPT ![c] = Idle]
           /\ UNCHANGED <<file, edition, crashes>>
<1> DEFINE l == caller[c].lock
           p == caller[c].path
<1>1. caller[c].pc \in {"wait", "return"}
  BY DEF Leave, GiveUp, Unlock
<1>2. Inside(c) /\ l \in Lock /\ p \in Path
  BY <1>1, InsideFacts DEF Inside
<1>3. PICK held \in BOOLEAN : Forget(c, held) /\ (caller[c].pc = "wait" => ~ held)
  BY DEF Leave, GiveUp, Unlock
<1>4. object[l] \in Object /\ object[l].references - 1 \in Int
  <2>1. object[l] \in Object
    BY <1>2 DEF Typed
  <2>2. object[l].references \in Int
    BY <2>1 DEF Object
  <2> QED BY <2>1, <2>2
<1> PICK n \in Int : n = object[l].references - 1
  BY <1>4
<1> DEFINE o == [object[l] EXCEPT !.references = n, !.free = object[l].free \/ held]
<1>5. /\ o \in Object /\ o.references = n
      /\ o.born = object[l].born /\ (~ held => o.free = object[l].free)
  BY <1>4 DEF Object
<1>6. object' = [object EXCEPT ![l] = o]
  <2>1. object' = [object EXCEPT ![l] = [object[l] EXCEPT
                     !.references = object[l].references - 1,
                     !.free = object[l].free \/ held]]
    BY <1>3, Zenon DEF Forget
  <2> QED BY <2>1, Zenon
<1>7. locks' = [locks EXCEPT
                   ![p] = IF object[l].references = 1 /\ locks[p] = l THEN None ELSE @]
  BY <1>3 DEF Forget
<1> HIDE DEF o
<1>8. object'[l] = o
  BY <1>2, <1>6 DEF Typed
<1>9. caller' = [caller EXCEPT ![c] = Idle] /\ UNCHANGED <<file, edition, crashes>>
  BY DEF Leave, GiveUp, Unlock
<1> QED BY <1>1, <1>2, <1>3, <1>5, <1>6, <1>7, <1>8, <1>9

-----------------------------------------------------------------------------
(* The locks of the paths                                                  *)

\* No lock or path is the value for none, and the callers can be counted.
Proper == None \notin Lock \cup Path /\ IsFiniteSet(Caller)

Users(l) == {c \in Caller : caller[c].lock = l}
Past(c) == caller[c].pc \in {"look", "body", "rename", "return"}

\* The reference count is exact.
Counted == \A l \in Lock : object[l].references = Cardinality(Users(l))
\* Who is inside refers to the lock its path has, and a lock serves one path.
Entered == \A c \in Caller : Inside(c) => /\ locks[caller[c].path] = caller[c].lock
                                          /\ object[caller[c].lock].born
OfPath == \A c, d \in Caller :
             Inside(c) /\ Inside(d) /\ caller[c].lock = caller[d].lock
                => caller[c].path = caller[d].path
\* A path has a lock only while somebody is inside with it.
Needed == \A p \in Path : locks[p] # None => \E c \in Caller : caller[c].path = p
\* The semaphore: one caller past it, which is then not free.
Alone == /\ \A c \in Caller : Past(c) => ~ object[caller[c].lock].free
         /\ \A c, d \in Caller : Past(c) /\ Past(d) /\ caller[c].lock = caller[d].lock => c = d

Locked == Typed /\ Counted /\ Entered /\ OfPath /\ Needed /\ Alone

LEMMA UsersFinite ==
    ASSUME Proper, NEW l PROVE IsFiniteSet(Users(l)) /\ Cardinality(Users(l)) \in Nat
<1>1. Users(l) \subseteq Caller
  BY DEF Users
<1> QED BY <1>1, FS_Subset, FS_CardinalityType DEF Proper

\* The last reference: whoever shares it is the same caller.
LEMMA LastReference ==
    ASSUME Proper, NEW l, Cardinality(Users(l)) = 1, NEW c \in Users(l), NEW d \in Users(l)
    PROVE  c = d
<1>1. PICK x : Users(l) = {x}
  BY UsersFinite, FS_Singleton
<1> QED BY <1>1

LEMMA LockedInit == ASSUME Proper, Init PROVE Locked
<1>1. Typed
  BY IdleFacts DEF Init, Typed
<1>2. \A c \in Caller : caller[c] = Idle /\ ~ Inside(c) /\ ~ Past(c)
  BY IdleFacts DEF Init, Inside, Past
<1>3. Counted
  <2> SUFFICES ASSUME NEW l \in Lock PROVE object[l].references = Cardinality(Users(l))
    BY DEF Counted
  <2>1. Users(l) = {}
    BY <1>2, IdleFacts DEF Users, Proper
  <2>2. object[l].references = 0
    BY IdleFacts DEF Init
  <2> QED BY <2>1, <2>2, FS_EmptySet
<1>4. Needed
  BY DEF Init, Needed
<1> QED BY <1>1, <1>2, <1>3, <1>4 DEF Locked, Entered, OfPath, Alone

\* A step past the call that keeps the caller's lock and path.
LEMMA LockedInner ==
    ASSUME Proper, Locked, NEW c \in Caller, Inner(c)
    PROVE  Locked'
<1>0. Typed
  BY DEF Locked
<1>1. /\ Inside(c) /\ caller[c] \in Active /\ caller'[c] \in Active
      /\ \A d \in Caller : /\ caller'[d].path = caller[d].path
                           /\ caller'[d].lock = caller[d].lock
                           /\ Inside(d)' <=> Inside(d)
                           /\ d # c => caller'[d] = caller[d]
  BY <1>0, InnerFacts, InsideFacts, IdleFacts DEF Typed, Inside
<1>2. \A l \in Lock : /\ object'[l].references = object[l].references
                      /\ object'[l].born = object[l].born
                      /\ object'[l] \in Object
                      /\ object'[l].free => object[l].free
  <2>1. CASE UNCHANGED object
    BY <1>0, <2>1 DEF Typed
  <2>2. CASE Enter(c)
    <3>1. PICK k \in Lock : k = caller[c].lock
      BY <1>0, <2>2, EnterFacts
    <3>2. /\ object'[k].references = object[k].references /\ object'[k].born = object[k].born
          /\ ~ object'[k].free /\ object'[k] \in Object
          /\ \A l \in Lock : l # k => object'[l] = object[l]
      BY <1>0, <2>2, <3>1, EnterFacts
    <3> QED BY <1>0, <3>2, Zenon DEF Typed
  <2> QED BY <1>0, <2>1, <2>2, InnerFacts
<1>3. Typed'
  <2>1. object' \in [Lock -> Object]
    BY <1>0, <1>2, InnerFacts, EnterFacts DEF Typed
  <2>2. caller' \in [Caller -> Active \cup {Idle}]
    BY <1>0, <1>1, InnerFacts DEF Typed
  <2>3. file' \in [Path -> Nat]
    <3>1. caller[c].result \in Nat
      BY <1>1 DEF Active
    <3> QED BY <1>0, <3>1 DEF Typed, Inner, Enter, TakeFresh, NotModified, Respond, FallBack,
                              Refuse, Complete, Replace
  <2> QED BY <1>0, <2>1, <2>2, <2>3, InnerFacts DEF Typed
<1>4. Counted'
  <2>1. \A l \in Lock : Users(l)' = Users(l)
    BY <1>1 DEF Users
  <2> QED BY <1>2, <2>1 DEF Locked, Counted
<1>5. Entered' /\ OfPath' /\ Needed'
  <2>1. UNCHANGED locks
    BY <1>0, InnerFacts
  <2>2. \A d \in Caller : Inside(d) => caller[d].lock \in Lock
    BY <1>0, InsideFacts
  <2>3. Entered'
    BY <1>1, <1>2, <2>1, <2>2 DEF Locked, Entered
  <2>4. OfPath' /\ Needed'
    BY <1>1, <2>1 DEF Locked, OfPath, Needed
  <2> QED BY <2>3, <2>4
<1>6. Alone'
  <2>1. \A d \in Caller : d # c => (Past(d)' <=> Past(d))
    BY <1>1 DEF Past
  <2>2. \A d \in Caller : Past(d) => caller[d].lock \in Lock
    BY <1>0, InsideFacts DEF Past, Inside
  <2>3. CASE Enter(c)
    <3>1. object[caller[c].lock].free /\ ~ object'[caller[c].lock].free
      BY <1>0, <2>3, EnterFacts
    <3>2. \A d \in Caller : Past(d) => caller[d].lock # caller[c].lock
      BY <3>1 DEF Locked, Alone
    <3> QED BY <1>1, <1>2, <2>1, <2>2, <3>1, <3>2 DEF Locked, Alone
  <2>4. CASE ~ Enter(c)
    <3>1. Past(c)
      BY <1>0, <1>1, <2>4, InnerFacts DEF Past, Active
    <3> QED BY <1>1, <1>2, <2>1, <2>2, <3>1 DEF Locked, Alone
  <2> QED BY <2>3, <2>4
<1> QED BY <1>3, <1>4, <1>5, <1>6 DEF Locked

\* The lock that a call finds or makes serves its path and nobody else's.
LEMMA LockedCall ==
    ASSUME Proper, Locked, NEW c \in Caller, Call(c)
    PROVE  Locked'
<1>0. Typed
  BY DEF Locked
<1>1. PICK p \in Path, l \in Lock :
           /\ ~ Inside(c)
           /\ IF locks[p] # None THEN l = locks[p] ELSE ~ object[l].born
           /\ locks' = [locks EXCEPT ![p] = l]
           /\ object' = [object EXCEPT ![l] = object'[l]] /\ object'[l] \in Object
           /\ object'[l].references = object[l].references + 1
           /\ object'[l].free = object[l].free /\ object'[l].born
           /\ caller' = [caller EXCEPT ![c] = caller'[c]] /\ caller'[c] \in Active
           /\ caller'[c].pc = "wait" /\ caller'[c].path = p /\ caller'[c].lock = l
           /\ UNCHANGED <<file, edition, crashes>>
  BY <1>0, CallFacts
<1>2. /\ caller[c].lock = None /\ caller[c].path = None
      /\ \A d \in Caller : d # c => caller'[d] = caller[d]
      /\ Inside(c)' /\ ~ Past(c)'
  BY <1>0, <1>1, InsideFacts, IdleFacts DEF Typed, Inside, Past
<1>3. /\ \A k \in Lock : k # l => object'[k] = object[k]
      /\ locks'[p] = l /\ \A q \in Path : q # p => locks'[q] = locks[q]
      /\ None # l /\ None # p
  BY <1>0, <1>1 DEF Typed, Proper
<1>4. \A d \in Caller : Inside(d) => /\ caller[d].lock \in Lock /\ caller[d].path \in Path
                                     /\ locks[caller[d].path] = caller[d].lock
                                     /\ object[caller[d].lock].born
  BY <1>0, InsideFacts DEF Locked, Entered
<1>5. \A d \in Caller : Inside(d) /\ caller[d].lock = l => caller[d].path = p
  <2>1. CASE locks[p] = None
    BY <1>1, <1>4, <2>1
  <2>2. CASE locks[p] # None
    <3>1. PICK e \in Caller : caller[e].path = p
      BY <2>2 DEF Locked, Needed
    <3>2. Inside(e)
      BY <1>0, <1>3, <3>1, InsideFacts, IdleFacts
    <3>3. caller[e].lock = l
      BY <1>1, <1>4, <2>2, <3>1, <3>2
    <3> QED BY <3>1, <3>2, <3>3 DEF Locked, OfPath
  <2> QED BY <2>1, <2>2
<1>6. \A d \in Caller : Inside(d) /\ caller[d].path = p => caller[d].lock = l
  BY <1>1, <1>3, <1>4, <1>0, InsideFacts DEF Proper
<1>7. Typed'
  BY <1>0, <1>1 DEF Typed
<1>8. Counted'
  <2> SUFFICES ASSUME NEW k \in Lock PROVE (object[k].references = Cardinality(Users(k)))'
    BY DEF Counted
  <2>1. CASE k # l
    <3>1. Users(k)' = Users(k)
      BY <1>1, <1>2, <2>1 DEF Users, Proper
    <3> QED BY <1>3, <2>1, <3>1 DEF Locked, Counted
  <2>2. CASE k = l
    <3>1. Users(l)' = Users(l) \cup {c} /\ c \notin Users(l)
      BY <1>1, <1>2, <1>3 DEF Users
    <3>2. Cardinality(Users(l))' = Cardinality(Users(l)) + 1
      BY <3>1, UsersFinite, FS_AddElement
    <3> QED BY <1>1, <2>2, <3>2 DEF Locked, Counted
  <2> QED BY <2>1, <2>2
<1>9. Entered'
  <2> SUFFICES ASSUME NEW d \in Caller, Inside(d)'
               PROVE  /\ locks'[caller'[d].path] = caller'[d].lock
                      /\ object'[caller'[d].lock].born
    BY DEF Entered
  <2>1. CASE d = c
    BY <1>1, <1>3, <2>1
  <2>2. CASE d # c
    <3>1. Inside(d) /\ caller'[d] = caller[d]
      BY <1>2, <2>2 DEF Inside
    <3> QED BY <1>1, <1>3, <1>4, <1>6, <3>1
  <2> QED BY <2>1, <2>2
<1>10. OfPath'
  <2>1. \A d \in Caller : d # c => (Inside(d)' <=> Inside(d))
    BY <1>2 DEF Inside
  <2> QED BY <1>1, <1>2, <1>5, <2>1 DEF Locked, OfPath
<1>11. Needed'
  <2> SUFFICES ASSUME NEW q \in Path, locks'[q] # None
               PROVE  \E d \in Caller : caller'[d].path = q
    BY DEF Needed
  <2>1. CASE q = p
    BY <1>1, <2>1
  <2>2. CASE q # p
    <3>1. PICK d \in Caller : caller[d].path = q
      BY <1>3, <2>2 DEF Locked, Needed
    <3>2. d # c
      BY <1>2, <3>1 DEF Proper
    <3> QED BY <1>2, <3>1, <3>2
  <2> QED BY <2>1, <2>2
<1>12. Alone'
  <2>1. \A d \in Caller : Past(d)' => d # c /\ Past(d) /\ caller'[d] = caller[d]
    BY <1>2 DEF Past
  <2>2. \A d \in Caller : Past(d) => caller[d].lock \in Lock
    BY <1>0, InsideFacts DEF Past, Inside
  <2> QED BY <1>1, <1>3, <2>1, <2>2 DEF Locked, Alone
<1> QED BY <1>7, <1>8, <1>9, <1>10, <1>11, <1>12 DEF Locked

\* The path forgets its lock with the last reference, and not before.
LEMMA LockedLeave ==
    ASSUME Proper, Locked, NEW c \in Caller, Leave(c)
    PROVE  Locked'
<1>0. Typed
  BY DEF Locked
<1> PICK l \in Lock, p \in Path : l = caller[c].lock /\ p = caller[c].path
  BY <1>0, LeaveFacts
<1>1. /\ Inside(c)
      /\ locks' = [locks EXCEPT
                      ![p] = IF object[l].references = 1 /\ locks[p] = l THEN None ELSE @]
      /\ object' = [object EXCEPT ![l] = object'[l]] /\ object'[l] \in Object
      /\ object'[l].references = object[l].references - 1
      /\ object'[l].born = object[l].born
      /\ caller[c].pc \in {"wait", "return"}
      /\ caller[c].pc = "wait" => object'[l].free = object[l].free
      /\ caller' = [caller EXCEPT ![c] = Idle]
      /\ UNCHANGED <<file, edition, crashes>>
  BY <1>0, LeaveFacts
<1>2. /\ caller'[c] = Idle /\ ~ Inside(c)' /\ ~ Past(c)'
      /\ \A d \in Caller : d # c => caller'[d] = caller[d]
  BY <1>0, <1>1, IdleFacts DEF Typed, Inside, Past
<1>3. /\ \A k \in Lock : k # l => object'[k] = object[k]
      /\ \A q \in Path : q # p => locks'[q] = locks[q]
      /\ None # l /\ None # p
  BY <1>0, <1>1 DEF Typed, Proper
<1>4. \A d \in Caller : Inside(d) => /\ caller[d].lock \in Lock /\ caller[d].path \in Path
                                     /\ locks[caller[d].path] = caller[d].lock
                                     /\ object[caller[d].lock].born
  BY <1>0, InsideFacts DEF Locked, Entered
<1>5. \A d \in Caller : Inside(d)' => d # c /\ Inside(d) /\ caller'[d] = caller[d]
  BY <1>2 DEF Inside
<1>6. object[l].references = Cardinality(Users(l)) /\ c \in Users(l)
  BY DEF Locked, Counted, Users
<1>7. Typed'
  <2>1. locks' \in [Path -> Lock \cup {None}]
    BY <1>0, <1>1 DEF Typed
  <2> QED BY <1>0, <1>1, <2>1 DEF Typed
<1>8. Counted'
  <2> SUFFICES ASSUME NEW k \in Lock PROVE (object[k].references = Cardinality(Users(k)))'
    BY DEF Counted
  <2>1. CASE k # l
    <3>1. Users(k)' = Users(k)
      BY <1>2, <2>1, IdleFacts DEF Users, Proper
    <3> QED BY <1>3, <2>1, <3>1 DEF Locked, Counted
  <2>2. CASE k = l
    <3>1. Users(l)' = Users(l) \ {c}
      BY <1>2, <1>3, IdleFacts DEF Users
    <3>2. Cardinality(Users(l))' = Cardinality(Users(l)) - 1
      BY <1>6, <3>1, UsersFinite, FS_RemoveElement
    <3> QED BY <1>1, <1>6, <2>2, <3>2
  <2> QED BY <2>1, <2>2
<1>9. \A d \in Caller : d # c /\ Inside(d) /\ caller[d].path = p =>
                           locks'[p] = locks[p]
  <2> SUFFICES ASSUME NEW d \in Caller, d # c, Inside(d), caller[d].path = p
               PROVE  object[l].references # 1
    BY <1>0, <1>1 DEF Typed
  <2>1. d \in Users(l)
    BY <1>1, <1>4 DEF Users
  <2> QED BY <1>6, <2>1, LastReference
<1>10. Entered'
  <2> SUFFICES ASSUME NEW d \in Caller, Inside(d)'
               PROVE  /\ locks'[caller'[d].path] = caller'[d].lock
                      /\ object'[caller'[d].lock].born
    BY DEF Entered
  <2>1. d # c /\ Inside(d) /\ caller'[d] = caller[d]
    BY <1>5
  <2>2. locks'[caller[d].path] = locks[caller[d].path]
    BY <1>3, <1>4, <1>9, <2>1
  <2>3. object'[caller[d].lock].born = object[caller[d].lock].born
    BY <1>1, <1>3, <1>4, <2>1
  <2> QED BY <1>4, <2>1, <2>2, <2>3
<1>11. OfPath'
  BY <1>5 DEF Locked, OfPath
<1>12. Needed'
  <2> SUFFICES ASSUME NEW q \in Path, locks'[q] # None
               PROVE  \E d \in Caller : caller'[d].path = q
    BY DEF Needed
  <2>1. CASE q # p
    <3>1. PICK d \in Caller : caller[d].path = q
      BY <1>3, <2>1 DEF Locked, Needed
    <3> QED BY <1>2, <2>1, <3>1
  <2>2. CASE q = p
    <3>1. locks[p] = l
      BY <1>1, <1>4
    <3>2. object[l].references # 1
      BY <1>0, <1>1, <2>2, <3>1 DEF Typed
    <3>3. PICK d \in Users(l) : d # c
      <4>1. Users(l) # {c}
        BY <1>6, <3>2, FS_Singleton
      <4> QED BY <1>6, <4>1
    <3>4. d \in Caller /\ caller[d].lock = l /\ Inside(d)
      BY <1>0, <1>3, <3>3, InsideFacts, IdleFacts DEF Users
    <3>5. caller[d].path = p
      BY <1>1, <3>4 DEF Locked, OfPath
    <3> QED BY <1>2, <2>2, <3>3, <3>4, <3>5
  <2> QED BY <2>1, <2>2
<1>13. Alone'
  <2>1. \A d \in Caller : Past(d)' => d # c /\ Past(d) /\ caller'[d] = caller[d]
    BY <1>2 DEF Past
  <2>2. \A d \in Caller : Past(d) => caller[d].lock \in Lock
    BY <1>0, InsideFacts DEF Past, Inside
  <2>3. CASE caller[c].pc = "wait"
    BY <1>1, <1>3, <2>1, <2>2, <2>3 DEF Locked, Alone
  <2>4. CASE caller[c].pc = "return"
    <3>1. Past(c)
      BY <2>4 DEF Past
    <3>2. \A d \in Caller : d # c /\ Past(d) => caller[d].lock # l
      BY <3>1 DEF Locked, Alone
    <3> QED BY <1>3, <2>1, <2>2, <3>2 DEF Locked, Alone
  <2> QED BY <1>1, <2>3, <2>4
<1> QED BY <1>7, <1>8, <1>10, <1>11, <1>12, <1>13 DEF Locked

LEMMA LockedNext == ASSUME Proper, Locked, [Next]_vars PROVE Locked'
<1>0. Typed
  BY DEF Locked
<1>1. CASE Crash
  <2>1. \A c \in Caller : caller'[c] = Idle /\ ~ Inside(c)' /\ ~ Past(c)'
    BY <1>1, IdleFacts DEF Crash, Inside, Past
  <2>2. Typed'
    BY <1>0, <1>1, IdleFacts DEF Crash, Typed
  <2>3. Counted'
    <3> SUFFICES ASSUME NEW l \in Lock PROVE (object[l].references = Cardinality(Users(l)))'
      BY DEF Counted
    <3>1. Users(l)' = {}
      BY <2>1, IdleFacts DEF Users, Proper
    <3>2. object'[l].references = 0
      BY <1>1, IdleFacts DEF Crash
    <3> QED BY <3>1, <3>2, FS_EmptySet
  <2>4. Needed'
    BY <1>1 DEF Crash, Needed
  <2> QED BY <2>1, <2>2, <2>3, <2>4 DEF Locked, Entered, OfPath, Alone
<1>2. CASE UNCHANGED <<locks, object, caller>> /\ file' \in [Path -> Nat] /\ edition' \in Nat
  BY <1>2 DEF Locked, Typed, Counted, Users, Entered, OfPath, Needed, Alone, Inside, Past
<1>3. NewEdition \/ Clear \/ UNCHANGED vars =>
         UNCHANGED <<locks, object, caller>> /\ file' \in [Path -> Nat] /\ edition' \in Nat
  BY <1>0 DEF Typed, NewEdition, Clear, vars
<1> QED BY <1>1, <1>2, <1>3, LockedInner, LockedCall, LockedLeave DEF Next, Inner, Leave

-----------------------------------------------------------------------------
(* One caller per path, and what it is told                                *)

LEMMA SamePath ==
    ASSUME Locked, NEW c \in Caller, NEW d \in Caller, Past(c), Past(d),
           caller[c].path = caller[d].path
    PROVE  c = d
<1>1. Inside(c) /\ Inside(d)
  BY DEF Past, Inside
<1> QED BY <1>1 DEF Locked, Entered, Alone

\* A path has at most one caller past its lock, also when the lock was forgotten
\* with its last reference and made again (lockCachePath,
\* releaseCachePathLockReference), and no lock outlives the last caller.
THEOREM OneAtATime ==
    ASSUME None \notin Lock \cup Path, IsFiniteSet(Caller)
    PROVE  Spec => []OnePerPath
<1>1. Proper
  BY DEF Proper
<1>2. Locked => OnePerPath
  <2> SUFFICES ASSUME Locked PROVE OnePerPath
    OBVIOUS
  <2>1. \A c, d \in Caller :
           Holds(c) /\ Holds(d) /\ caller[c].path = caller[d].path => c = d
    BY SamePath DEF Holds, Past
  <2>2. \A p \in Path : (\E c \in Caller : caller[c].path = p) => locks[p] # None
    <3> SUFFICES ASSUME NEW p \in Path, NEW c \in Caller, caller[c].path = p
                 PROVE  locks[p] # None
      OBVIOUS
    <3>1. Inside(c) /\ caller[c].lock \in Lock
      BY <1>1, InsideFacts, IdleFacts DEF Locked, Proper
    <3> QED BY <1>1, <3>1 DEF Locked, Entered, Proper
  <2> QED BY <2>1, <2>2 DEF Locked, Needed, OnePerPath
<1> QED BY <1>1, <1>2, LockedInit, LockedNext, PTL DEF Spec

LEMMA ResultNext ==
    ASSUME Proper, Locked, ResultIsFile, [Next]_vars
    PROVE  ResultIsFile'
<1>0. Typed
  BY DEF Locked
<1> SUFFICES ASSUME NEW c \in Caller, caller'[c].pc = "return", caller'[c].result # 0
             PROVE  file'[caller'[c].path] = caller'[c].result
  BY DEF ResultIsFile
<1>1. ASSUME NEW d \in Caller, d # c, caller'[c] = caller[c],
             Inner(d) \/ Call(d) \/ Leave(d)
      PROVE  file'[caller[c].path] = file[caller[c].path]
  <2>1. CASE UNCHANGED file
    BY <2>1
  <2>2. CASE Replace(d)
    <3>1. Past(c) /\ Past(d)
      BY <1>1, <2>2 DEF Past, Replace
    <3>2. caller[c].path # caller[d].path
      BY <1>1, <3>1, SamePath
    <3>3. caller[c].path \in Path
      BY <1>0, <3>1, InsideFacts DEF Past, Inside
    <3> QED BY <1>0, <2>2, <3>2, <3>3 DEF Replace, Typed
  <2> QED BY <1>1, <2>1, <2>2 DEF Inner, Leave, Call, GiveUp, Unlock, Enter, TakeFresh,
             NotModified, Respond, FallBack, Refuse, Complete
<1>2. ASSUME NEW d \in Caller, d # c, Inner(d) \/ Call(d) \/ Leave(d)
      PROVE  caller'[c] = caller[c]
  BY <1>0, <1>2, InnerFacts, CallFacts, LeaveFacts DEF Typed
<1>3. ASSUME Inner(c)
      PROVE  file'[caller'[c].path] = caller'[c].result
  <2>1. /\ caller[c] \in Active /\ caller'[c].path = caller[c].path
        /\ caller[c].path \in Path /\ caller[c].lock \in Lock
    BY <1>0, <1>3, InnerFacts, InsideFacts
  <2>2. \A x : Return(c, x) => caller'[c].result = x
    BY <1>0, <2>1 DEF Return, Typed, Active
  <2>3. CASE TakeFresh(c) \/ NotModified(c) \/ FallBack(c) \/ Refuse(c) \/ Replace(c)
    BY <1>0, <2>1, <2>2, <2>3 DEF TakeFresh, NotModified, FallBack, Refuse, Replace, Typed
  <2>4. CASE Enter(c) \/ Respond(c) \/ Complete(c)
    BY <1>0, <2>1, <2>4 DEF Enter, Respond, Complete, Typed, Active
  <2> QED BY <1>3, <2>3, <2>4 DEF Inner
<1>4. ~ Call(c) /\ ~ Leave(c) /\ ~ Crash
  BY <1>0, CallFacts, LeaveFacts, IdleFacts DEF Typed, Crash
<1>5. CASE UNCHANGED <<caller, file>>
  BY <1>5 DEF ResultIsFile
<1>6. ~ Clear
  BY IdleFacts DEF Clear
<1>7. ASSUME NEW d \in Caller, Inner(d) \/ Call(d) \/ Leave(d)
      PROVE  file'[caller'[c].path] = caller'[c].result
  <2>1. CASE d = c
    BY <1>3, <1>4, <1>7, <2>1
  <2>2. CASE d # c
    BY <1>1, <1>2, <1>7, <2>2 DEF ResultIsFile
  <2> QED BY <2>1, <2>2
<1> QED BY <1>4, <1>5, <1>6, <1>7 DEF Next, Inner, Leave, NewEdition, vars

\* What a caller is told it has is what the file holds while it has the path to
\* itself, whether downloaded, kept or confirmed by a 304, whoever else replaces
\* files, whatever is cleared and whenever the process dies (Download,
\* freshCachedDownloadResult).
THEOREM ResultGenuine ==
    ASSUME None \notin Lock \cup Path, IsFiniteSet(Caller)
    PROVE  Spec => []ResultIsFile
<1>1. Proper
  BY DEF Proper
<1>2. Init => ResultIsFile
  BY IdleFacts DEF Init, ResultIsFile
<1> QED BY <1>1, <1>2, LockedInit, LockedNext, ResultNext, PTL DEF Spec
=============================================================================
