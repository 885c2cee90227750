------------------------ MODULE DiscoverySyncProofs ------------------------
(***************************************************************************)
(* Theorems about DiscoverySync, for every set of workflows and processes  *)
(* and every number of runs, batches and versions.                         *)
(***************************************************************************)
EXTENDS DiscoverySync, SequenceTheorems, TLAPS

-----------------------------------------------------------------------------
(* Tables and ids                                                          *)

\* A table whose rows are rewritten one by one stays a table of that length.
LEMMA Rewritten ==
    ASSUME NEW S, NEW s \in Seq(S), NEW t,
           t = [i \in DOMAIN s |-> t[i]], \A i \in DOMAIN s : t[i] \in S
    PROVE  t \in Seq(S) /\ Len(t) = Len(s) /\ DOMAIN t = DOMAIN s
<1>1. Len(s) \in Nat /\ DOMAIN s = 1 .. Len(s)
  BY LenProperties
<1>2. t \in [1 .. Len(s) -> S]
  BY <1>1
<1>3. t \in Seq(S)
  BY <1>1, <1>2, SeqDef
<1>4. Len(t) \in Nat /\ DOMAIN t = 1 .. Len(t)
  BY <1>3, LenProperties
<1>5. 1 .. Len(t) = 1 .. Len(s)
  BY <1>1, <1>2, <1>4
<1>6. Len(t) = Len(s)
  BY <1>1, <1>4, <1>5
<1> QED BY <1>1, <1>3, <1>4, <1>6

LEMMA IdsFacts ==
    /\ 0 \in Ids
    /\ \A n \in Nat : n <= MaxBatches => n \in Ids
    /\ \A n \in Ids : n \in Nat
BY BoundsAssumption DEF BoundsAssumption, Ids

LEMMA HomeFacts ==
    ASSUME NEW w \in Workflow
    PROVE  /\ Home(w) \in Process /\ w # Corrector /\ w # None /\ w # Server
           /\ Home(w) = Server => w \notin Command
BY WorkflowsAssumption DEF WorkflowsAssumption, Home, Process

-----------------------------------------------------------------------------
(* Types                                                                   *)

Point == {"bound", "started", "security", "listing", "market", "pricing",
          "summary"}
Busy == [pc : Point, kind : Kind, run : Nat, policy : Policy,
         sec : Ids, mkt : Ids, base : Ids]

RowsTyped == runs \in Seq(Row) /\ Len(runs) <= MaxRuns
BatchesTyped == batches \in Seq(Batch) /\ Len(batches) <= MaxBatches
PointersTyped ==
    /\ current \in [security : Nat, prescreen : Nat]
    /\ current.security # 0 => /\ current.security \in DOMAIN batches
                               /\ batches[current.security].kind = "security"
    /\ current.prescreen # 0 => /\ current.prescreen \in DOMAIN batches
                                /\ batches[current.prescreen].kind # "security"
ActiveTyped == active \in [version : Nat, content : Policy]
LocalTyped == wf \in [Workflow -> {Idle} \cup Busy]
RunsNamed == \A w \in Workflow : Live(w) => wf[w].run \in DOMAIN runs
RequestsTyped ==
    /\ \/ editor = NoEdit
       \/ editor \in [version : Nat, base : Nat, content : Policy]
    /\ editor.base # 0 => editor.base \in DOMAIN batches
    /\ correction \in Nat
    /\ correction # 0 => correction \in DOMAIN batches
GatesTyped ==
    /\ gate \in [Process -> Workflow \cup {None, Corrector}]
    /\ up \in BOOLEAN

Typed == /\ RowsTyped /\ BatchesTyped /\ PointersTyped /\ ActiveTyped
         /\ LocalTyped /\ RunsNamed /\ RequestsTyped /\ GatesTyped

LEMMA IdleFacts ==
    /\ Idle.pc = "idle" /\ \A l \in Busy : l.pc # "idle" /\ l # Idle
    /\ Idle = [pc |-> "idle", kind |-> None, run |-> 0, policy |-> None,
               sec |-> 0, mkt |-> 0, base |-> 0]
BY DEF Idle, Busy, Point

LEMMA EmptyTable == ASSUME NEW S PROVE <<>> \in Seq(S) /\ Len(<<>>) = 0
BY EmptySeq

LEMMA EstablishedTable ==
    ASSUME NEW p \in Policy, MaxBatches >= 2,
           batches = << [kind |-> "security", policy |-> p, base |-> 0,
                         fresh |-> FALSE],
                        [kind |-> "prescreen", policy |-> p, base |-> 1,
                         fresh |-> FALSE] >>,
           current = [security |-> 1, prescreen |-> 2]
    PROVE  BatchesTyped /\ PointersTyped
<1>1. 0 \in Ids /\ 1 \in Ids
  BY IdsFacts, BoundsAssumption DEF BoundsAssumption
<1>2. /\ [kind |-> "security", policy |-> p, base |-> 0,
          fresh |-> FALSE] \in Batch
      /\ [kind |-> "prescreen", policy |-> p, base |-> 1,
          fresh |-> FALSE] \in Batch
  BY <1>1 DEF Batch
<1>3. batches \in Seq(Batch) /\ Len(batches) = 2 /\ DOMAIN batches = 1 .. 2
  BY <1>2
<1>4. BatchesTyped
  BY <1>3, BoundsAssumption DEF BoundsAssumption, BatchesTyped
<1>5. PointersTyped
  BY <1>3 DEF PointersTyped
<1> QED BY <1>4, <1>5

LEMMA TypedInit == Init => Typed
<1> SUFFICES ASSUME Init PROVE Typed
  OBVIOUS
<1>1. RowsTyped
  BY EmptyTable, BoundsAssumption DEF BoundsAssumption, Init, RowsTyped
<1>2. PICK p \in Policy :
         /\ active = [version |-> 1, content |-> p]
         /\ \/ batches = <<>> /\ current = [security |-> 0, prescreen |-> 0]
            \/ /\ Established
               /\ batches = <<
                    [kind |-> "security", policy |-> p, base |-> 0,
                     fresh |-> FALSE],
                    [kind |-> "prescreen", policy |-> p, base |-> 1,
                     fresh |-> FALSE]>>
               /\ current = [security |-> 1, prescreen |-> 2]
  BY DEF Init
<1>3. BatchesTyped /\ PointersTyped
  <2>1. CASE batches = <<>> /\ current = [security |-> 0, prescreen |-> 0]
    <3>1. BatchesTyped
      BY <2>1, EmptyTable, BoundsAssumption DEF BoundsAssumption, BatchesTyped
    <3> QED BY <3>1, <2>1 DEF PointersTyped
  <2>2. CASE Established /\ ~ (batches = <<>>)
    <3>1. MaxBatches >= 2
      BY <2>2, BoundsAssumption DEF BoundsAssumption
    <3> QED BY <1>2, <2>2, <3>1, EstablishedTable
  <2> QED BY <1>2, <2>1, <2>2
<1>4. ActiveTyped
  BY <1>2 DEF ActiveTyped
<1>5. LocalTyped /\ RunsNamed
  BY IdleFacts DEF Init, LocalTyped, RunsNamed, Live
<1>6. RequestsTyped
  BY DEF Init, RequestsTyped, NoEdit
<1>7. GatesTyped
  BY DEF Init, GatesTyped
<1> QED BY <1>1, <1>3, <1>4, <1>5, <1>6, <1>7 DEF Typed

\* What an action leaves alone keeps its type.
LEMMA Frame ==
    ASSUME Typed
    PROVE  /\ UNCHANGED runs => RowsTyped'
           /\ UNCHANGED batches => BatchesTyped'
           /\ UNCHANGED <<batches, current>> => PointersTyped'
           /\ UNCHANGED active => ActiveTyped'
           /\ UNCHANGED wf => LocalTyped'
           /\ UNCHANGED <<runs, wf>> => RunsNamed'
           /\ UNCHANGED <<batches, requests>> => RequestsTyped'
           /\ UNCHANGED <<gate, up>> => GatesTyped'
BY DEF Typed, RowsTyped, BatchesTyped, PointersTyped, ActiveTyped, LocalTyped,
       RunsNamed, RequestsTyped, GatesTyped, requests, Live

LEMMA RowWritten ==
    ASSUME RowsTyped, NEW r \in DOMAIN runs, NEW x \in Row,
           runs' = [runs EXCEPT ![r] = x]
    PROVE  RowsTyped' /\ DOMAIN runs' = DOMAIN runs /\ runs'[r] = x
BY Rewritten DEF RowsTyped

\* Publication: the new batch is the last one, and the pointers stay in range.
LEMMA Published ==
    ASSUME BatchesTyped, PointersTyped, NEW pointer \in {"security", "prescreen"},
           NEW b \in Batch, b.kind = "security" <=> pointer = "security",
           Publish(pointer, b)
    PROVE  /\ BatchesTyped' /\ PointersTyped'
           /\ DOMAIN batches \subseteq DOMAIN batches'
           /\ Len(batches) + 1 \in Ids /\ Len(batches) + 1 # 0
<1>1. Len(batches) \in Nat /\ DOMAIN batches = 1 .. Len(batches)
  BY LenProperties DEF BatchesTyped
<1>2. /\ batches' \in Seq(Batch) /\ Len(batches') = Len(batches) + 1
      /\ \A i \in 1 .. Len(batches) : batches'[i] = batches[i]
      /\ batches'[Len(batches) + 1] = b
  BY AppendProperties DEF BatchesTyped, Publish
<1>3. DOMAIN batches' = 1 .. Len(batches) + 1
  BY <1>2, LenProperties
<1>4. Len(batches) + 1 \in Nat /\ Len(batches) + 1 <= MaxBatches
  BY <1>1, BoundsAssumption DEF BoundsAssumption, Publish
<1>5. BatchesTyped'
  BY <1>2, <1>4 DEF BatchesTyped
<1>6. PointersTyped'
  BY <1>1, <1>2, <1>3 DEF PointersTyped, Publish
<1> QED BY <1>1, <1>3, <1>4, <1>5, <1>6, IdsFacts

LEMMA BatchId ==
    ASSUME BatchesTyped, NEW b \in DOMAIN batches
    PROVE  b \in Ids /\ b # 0
<1>1. Len(batches) \in Nat /\ DOMAIN batches = 1 .. Len(batches)
  BY LenProperties DEF BatchesTyped
<1>2. b \in Nat /\ b <= MaxBatches /\ b # 0
  BY <1>1, BoundsAssumption DEF BoundsAssumption, BatchesTyped
<1> QED BY <1>2, IdsFacts

LEMMA PointerId ==
    ASSUME BatchesTyped, PointersTyped
    PROVE  current.security \in Ids /\ current.prescreen \in Ids
BY BatchId, IdsFacts DEF PointersTyped

\* One workflow moves: what must be true of its new local state.
LEMMA Moved ==
    ASSUME LocalTyped, RunsNamed, NEW w \in Workflow,
           NEW l \in {Idle} \cup Busy, wf' = [wf EXCEPT ![w] = l],
           DOMAIN runs \subseteq DOMAIN runs',
           l.pc \notin {"idle", "bound"} => l.run \in DOMAIN runs'
    PROVE  LocalTyped' /\ RunsNamed'
BY DEF LocalTyped, RunsNamed, Live

\* A workflow that stays busy on its row.
LEMMA Advanced ==
    ASSUME LocalTyped, RunsNamed, NEW w \in Workflow, Live(w), NEW l \in Busy,
           wf' = [wf EXCEPT ![w] = l], l.run = wf[w].run,
           DOMAIN runs \subseteq DOMAIN runs'
    PROVE  LocalTyped' /\ RunsNamed'
BY DEF LocalTyped, RunsNamed, Live

\* The local state of a workflow under way.
LEMMA LiveFacts ==
    ASSUME LocalTyped, RunsNamed, NEW w \in Workflow, Live(w)
    PROVE  wf[w] \in Busy /\ wf[w].run \in DOMAIN runs /\ wf[w].pc # "idle"
BY IdleFacts DEF LocalTyped, RunsNamed, Live

LEMMA RequestsGrow ==
    ASSUME RequestsTyped, UNCHANGED requests,
           DOMAIN batches \subseteq DOMAIN batches'
    PROVE  RequestsTyped'
BY DEF RequestsTyped, requests

LEMMA LeaseTyped ==
    ASSUME Typed, NEW w \in Workflow,
           \/ InsertRefused(w) \/ \E k \in Kind : Bind(w, k)
    PROVE  Typed'
<1>1. CASE InsertRefused(w)
  <2>1. LocalTyped' /\ RunsNamed'
    BY <1>1, Moved, IdleFacts DEF Typed, InsertRefused, tables
  <2> QED BY <1>1, <2>1, Frame DEF Typed, InsertRefused, tables
<1>2. ASSUME NEW k \in Kind, Bind(w, k)
      PROVE  Typed'
  <2> DEFINE l == [Idle EXCEPT !.pc = "bound", !.kind = k,
                               !.policy = active.content]
  <2>1. l \in Busy /\ l.pc = "bound"
    BY IdleFacts, IdsFacts DEF Busy, Point, Typed, ActiveTyped
  <2>2. wf' = [wf EXCEPT ![w] = l] /\ UNCHANGED runs
    BY <1>2 DEF Bind, tables
  <2> HIDE DEF l
  <2>3. LocalTyped' /\ RunsNamed'
    BY <2>1, <2>2, Moved DEF Typed
  <2> QED BY <1>2, <2>3, Frame DEF Typed, Bind, tables
<1> QED BY <1>1, <1>2

LEMMA ExpiryRows ==
    ASSUME RowsTyped
    PROVE  /\ AfterExpiry \in Seq(Row) /\ Len(AfterExpiry) = Len(runs)
           /\ DOMAIN AfterExpiry = DOMAIN runs
<1>1. \A r \in DOMAIN runs : runs[r] \in Row
  BY LenProperties, ElementOfSeq DEF RowsTyped
<1>2. \A r \in DOMAIN runs : AfterExpiry[r] \in Row
  BY <1>1 DEF AfterExpiry, Row
<1>3. AfterExpiry = [r \in DOMAIN runs |-> AfterExpiry[r]]
  BY DEF AfterExpiry
<1> HIDE DEF AfterExpiry
<1> QED BY <1>2, <1>3, Rewritten DEF RowsTyped

LEMMA InsertTyped ==
    ASSUME Typed, NEW w \in Workflow, Insert(w)
    PROVE  Typed'
<1> DEFINE row == [kind |-> wf[w].kind, status |-> "running",
                   policy |-> wf[w].policy, sec |-> 0, mkt |-> 0,
                   stale |-> FALSE]
           n == Len(runs) + 1
           l == [wf[w] EXCEPT !.pc = "started", !.run = n]
<1>1. wf[w] \in Busy
  BY IdleFacts DEF Typed, LocalTyped, Insert
<1>2. row \in Row
  BY <1>1, IdsFacts DEF Busy, Row
<1>3. Len(runs) \in Nat /\ DOMAIN runs = 1 .. Len(runs)
  BY LenProperties DEF Typed, RowsTyped
<1>4. l \in Busy /\ l.run = n /\ l.pc = "started"
  <2>1. n \in Nat
    BY <1>3
  <2> HIDE DEF n
  <2> QED BY <1>1, <2>1 DEF Busy, Point
<1>5. runs' = Append(AfterExpiry, row) /\ Len(runs) < MaxRuns
  BY DEF Insert
<1>6. wf' = [wf EXCEPT ![w] = l]
  BY <1>1 DEF Insert, Typed, LocalTyped
<1> HIDE DEF row, l
<1>7. /\ runs' \in Seq(Row) /\ Len(runs') = Len(runs) + 1
  BY <1>2, <1>5, AppendProperties, ExpiryRows DEF Typed
<1>8. DOMAIN runs' = 1 .. Len(runs) + 1
  BY <1>7, LenProperties
<1>9. RowsTyped'
  BY <1>3, <1>5, <1>7, BoundsAssumption DEF BoundsAssumption, RowsTyped
<1>10. DOMAIN runs \subseteq DOMAIN runs' /\ Len(runs) + 1 \in DOMAIN runs'
  BY <1>3, <1>8
<1>11. LocalTyped' /\ RunsNamed'
  BY <1>4, <1>6, <1>10, Moved DEF Typed
<1> QED BY <1>9, <1>11, Frame DEF Typed, Insert

LEMMA ResumedIds ==
    ASSUME Typed, NEW w \in Workflow, Live(w), NEW done \in Resumed(w)
    PROVE  done.sec \in Ids /\ done.mkt \in Ids
<1>1. wf[w].run \in DOMAIN runs /\ wf[w].run \in Nat
  BY LiveFacts DEF Typed, Busy
<1>2. Len(runs) \in Nat /\ DOMAIN runs = 1 .. Len(runs)
  BY LenProperties DEF Typed, RowsTyped
<1>3. \A r \in 1 .. wf[w].run - 1 : r \in DOMAIN runs
  BY <1>1, <1>2
<1>4. \A r \in DOMAIN runs : runs[r] \in Row
  BY LenProperties, ElementOfSeq DEF Typed, RowsTyped
<1>5. PICK r \in 1 .. wf[w].run - 1 :
         /\ done.sec = runs[r].sec
         /\ done.mkt \in {runs[r].mkt, 0}
  BY DEF Resumed
<1>6. runs[r].sec \in Ids /\ runs[r].mkt \in Ids
  BY <1>3, <1>4, <1>5 DEF Row
<1> QED BY <1>5, <1>6, IdsFacts

LEMMA StartTyped ==
    ASSUME Typed, NEW w \in Workflow, StartFull(w) \/ StartPartial(w)
    PROVE  Typed'
<1>1. Live(w) /\ UNCHANGED <<tables, gate, requests, up>>
  BY DEF StartFull, StartPartial, Live
<1>2. wf[w] \in Busy
  BY <1>1, LiveFacts DEF Typed
<1>3. PICK l \in Busy : wf' = [wf EXCEPT ![w] = l] /\ l.run = wf[w].run
  <2>1. CASE StartFull(w) /\ Resumed(w) = {}
    <3>1. wf' = [wf EXCEPT ![w].pc = "security"]
      BY <2>1 DEF StartFull
    <3>2. [wf[w] EXCEPT !.pc = "security"] \in Busy
      BY <1>2 DEF Busy, Point
    <3> QED BY <1>2, <3>1, <3>2 DEF Typed, LocalTyped, Busy
  <2>2. CASE StartFull(w) /\ Resumed(w) # {}
    <3>1. PICK done \in Resumed(w) :
             wf' = [wf EXCEPT ![w].pc = "security", ![w].sec = done.sec,
                              ![w].mkt = done.mkt]
      BY <2>2 DEF StartFull
    <3>2. done.sec \in Ids /\ done.mkt \in Ids
      BY <1>1, ResumedIds
    <3>3. [wf[w] EXCEPT !.pc = "security", !.sec = done.sec,
                        !.mkt = done.mkt] \in Busy
      BY <1>2, <3>2 DEF Busy, Point
    <3> QED BY <1>2, <3>1, <3>3 DEF Typed, LocalTyped, Busy
  <2>3. CASE StartPartial(w)
    <3>1. PICK pc \in {"market", "listing"} : wf' = [wf EXCEPT ![w].pc = pc]
      BY <2>3 DEF StartPartial
    <3>2. [wf[w] EXCEPT !.pc = pc] \in Busy
      BY <1>2, <3>1 DEF Busy, Point
    <3> QED BY <1>2, <3>1, <3>2 DEF Typed, LocalTyped, Busy
  <2> QED BY <2>1, <2>2, <2>3
<1>4. LocalTyped' /\ RunsNamed'
  BY <1>1, <1>3, Advanced DEF Typed, tables
<1> QED BY <1>1, <1>4, Frame DEF Typed, tables

\* The workflow w takes the batch b, newly published or found unchanged.
LEMMA Taken ==
    ASSUME Typed, NEW w \in Workflow, Live(w), NEW pc \in Point,
           NEW sec \in Ids, NEW mkt \in Ids,
           \/ wf' = [wf EXCEPT ![w].pc = pc, ![w].sec = sec]
           \/ wf' = [wf EXCEPT ![w].pc = pc, ![w].base = 0, ![w].mkt = mkt]
           \/ wf' = [wf EXCEPT ![w].sec = sec]
           \/ wf' = [wf EXCEPT ![w].pc = pc, ![w].base = sec]
           \/ wf' = [wf EXCEPT ![w].pc = pc],
           DOMAIN runs \subseteq DOMAIN runs'
    PROVE  LocalTyped' /\ RunsNamed'
<1>1. wf[w] \in Busy
  BY LiveFacts DEF Typed
<1>2. PICK l \in Busy : wf' = [wf EXCEPT ![w] = l] /\ l.run = wf[w].run
  <2>1. /\ [wf[w] EXCEPT !.pc = pc, !.sec = sec] \in Busy
        /\ [wf[w] EXCEPT !.pc = pc, !.base = 0, !.mkt = mkt] \in Busy
        /\ [wf[w] EXCEPT !.sec = sec] \in Busy
        /\ [wf[w] EXCEPT !.pc = pc, !.base = sec] \in Busy
        /\ [wf[w] EXCEPT !.pc = pc] \in Busy
    BY <1>1, IdsFacts DEF Busy
  <2> QED BY <1>1, <2>1 DEF Typed, LocalTyped, Busy
<1> QED BY <1>2, Advanced DEF Typed

LEMMA SecurityTyped ==
    ASSUME Typed, NEW w \in Workflow, SyncSecurity(w) \/ SyncListings(w)
    PROVE  Typed'
<1>1. Live(w) /\ UNCHANGED <<runs, active, gate, requests, up>>
  BY DEF SyncSecurity, SyncListings, Live
<1>2. wf[w] \in Busy
  BY <1>1, LiveFacts DEF Typed
<1>3. PICK p \in Policy, b \in Ids :
         /\ wf' \in {[wf EXCEPT ![w].sec = b],
                     [wf EXCEPT ![w].pc = "security", ![w].sec = b]}
         /\ \/ UNCHANGED <<batches, current>>
            \/ /\ Publish("security", NewBatch("security", p, 0))
               /\ b = Len(batches) + 1
  <2>1. ASSUME NEW p \in Policy,
               Publish("security", NewBatch("security", p, 0))
        PROVE  Len(batches) + 1 \in Ids
    <3>1. NewBatch("security", p, 0) \in Batch
      BY IdsFacts DEF Batch, NewBatch
    <3>2. NewBatch("security", p, 0).kind = "security"
      BY DEF NewBatch
    <3> QED BY <2>1, <3>1, <3>2, Published DEF Typed
  <2>2. \A b \in Same("security", wf[w].policy, 0) : b \in Ids
    BY BatchId DEF Same, Typed
  <2>3. current.security \in Ids
    BY PointerId DEF Typed
  <2>4. wf[w].policy \in Policy /\ active.content \in Policy
    BY <1>2 DEF Busy, Typed, ActiveTyped
  <2>5. CASE SyncSecurity(w)
    BY <2>1, <2>2, <2>4, <2>5 DEF SyncSecurity
  <2>6. CASE SyncListings(w)
    BY <2>1, <2>3, <2>4, <2>6 DEF SyncListings
  <2> QED BY <2>5, <2>6
<1>4. LocalTyped' /\ RunsNamed'
  BY <1>1, <1>3, Taken DEF Point
<1>5. BatchesTyped' /\ PointersTyped' /\ DOMAIN batches \subseteq DOMAIN batches'
  <2>1. NewBatch("security", p, 0) \in Batch
    BY IdsFacts DEF Batch, NewBatch
  <2>2. NewBatch("security", p, 0).kind = "security"
    BY DEF NewBatch
  <2>3. CASE UNCHANGED <<batches, current>>
    BY <2>3, Frame
  <2>4. CASE Publish("security", NewBatch("security", p, 0))
    BY <2>1, <2>2, <2>4, Published DEF Typed
  <2> QED BY <1>3, <2>3, <2>4
<1>6. RequestsTyped'
  BY <1>1, <1>5, RequestsGrow DEF Typed
<1> QED BY <1>1, <1>4, <1>5, <1>6, Frame DEF Typed

\* A gate that is taken or left stays one of its values.
LEMMA GateSet ==
    ASSUME GatesTyped, NEW p \in Process,
           NEW h \in Workflow \cup {None, Corrector},
           gate' = [gate EXCEPT ![p] = h], UNCHANGED up
    PROVE  GatesTyped'
BY DEF GatesTyped

LEMMA MarketTyped ==
    ASSUME Typed, NEW w \in Workflow, EnterMarket(w) \/ SyncMarket(w)
    PROVE  Typed'
<1>1. Live(w) /\ UNCHANGED <<runs, active, requests, up>>
  BY DEF EnterMarket, SyncMarket, Live, tables
<1>2. wf[w] \in Busy
  BY <1>1, LiveFacts DEF Typed
<1>3. GatesTyped'
  BY <1>1, GateSet, HomeFacts DEF Typed, EnterMarket, SyncMarket
<1>4. CASE EnterMarket(w)
  <2>1. current.security \in Ids
    BY PointerId DEF Typed
  <2>2. wf' = [wf EXCEPT ![w].pc = "pricing", ![w].base = current.security]
    BY <1>4 DEF EnterMarket
  <2>3. LocalTyped' /\ RunsNamed'
    BY <1>1, <2>1, <2>2, Taken DEF Point
  <2> QED BY <1>3, <1>4, <2>3, Frame DEF Typed, EnterMarket, tables
<1>5. CASE SyncMarket(w)
  <2> DEFINE b == NewBatch("prescreen", wf[w].policy, wf[w].base)
  <2>1. b \in Batch /\ b.kind # "security"
    BY <1>2 DEF NewBatch, Batch, Busy
  <2>2. CASE /\ Publish("prescreen", b)
             /\ wf' = [wf EXCEPT ![w].pc = "market", ![w].base = 0,
                                 ![w].mkt = Len(batches) + 1]
    <3>1. /\ BatchesTyped' /\ PointersTyped'
          /\ DOMAIN batches \subseteq DOMAIN batches'
          /\ Len(batches) + 1 \in Ids
      BY <2>1, <2>2, Published DEF Typed
    <3>2. LocalTyped' /\ RunsNamed'
      BY <1>1, <2>2, <3>1, Taken DEF Point
    <3>3. RequestsTyped'
      BY <1>1, <3>1, RequestsGrow DEF Typed
    <3> QED BY <1>1, <1>3, <3>1, <3>2, <3>3, Frame DEF Typed
  <2>3. CASE /\ \E m \in Same("prescreen", wf[w].policy, wf[w].base) :
                   wf' = [wf EXCEPT ![w].pc = "market", ![w].base = 0,
                                    ![w].mkt = m]
             /\ UNCHANGED <<batches, current>>
    <3>1. PICK m \in Same("prescreen", wf[w].policy, wf[w].base) :
             wf' = [wf EXCEPT ![w].pc = "market", ![w].base = 0, ![w].mkt = m]
      BY <2>3
    <3>2. m \in Ids
      BY BatchId DEF Same, Typed
    <3>3. LocalTyped' /\ RunsNamed'
      BY <1>1, <3>1, <3>2, Taken DEF Point
    <3> QED BY <1>1, <1>3, <2>3, <3>3, Frame DEF Typed
  <2> QED BY <1>5, <2>2, <2>3 DEF SyncMarket
<1> QED BY <1>4, <1>5

LEMMA RowOf ==
    ASSUME Typed, NEW w \in Workflow, Live(w)
    PROVE  wf[w].run \in DOMAIN runs /\ runs[wf[w].run] \in Row
<1>1. wf[w].run \in DOMAIN runs
  BY LiveFacts DEF Typed
<1> QED BY <1>1, LenProperties, ElementOfSeq DEF Typed, RowsTyped

LEMMA WithBatchesRow ==
    ASSUME NEW w \in Workflow, wf[w] \in Busy, NEW row \in Row, NEW mkt \in Ids
    PROVE  /\ WithBatches(w, row, mkt) \in Row
           /\ WithBatches(w, row, mkt).status = row.status
           /\ WithBatches(w, row, mkt).stale = row.stale
BY DEF WithBatches, Row, Busy

LEMMA RecordTyped ==
    ASSUME Typed, NEW w \in Workflow, RecordSecurity(w) \/ RecordMarket(w)
    PROVE  Typed'
<1>1. Live(w) /\ UNCHANGED <<batches, current, active, gate, requests, up>>
  BY DEF RecordSecurity, RecordMarket, Live
<1>2. wf[w] \in Busy /\ wf[w].sec \in Ids /\ wf[w].mkt \in Ids
  BY <1>1, LiveFacts DEF Typed, Busy
<1>3. wf[w].run \in DOMAIN runs /\ runs[wf[w].run] \in Row
  BY <1>1, RowOf
<1>4. \/ UNCHANGED runs
      \/ \E x \in Row : runs' = [runs EXCEPT ![wf[w].run] = x]
  <2>1. [runs[wf[w].run] EXCEPT !.sec = wf[w].sec] \in Row
    BY <1>2, <1>3 DEF Row
  <2>2. WithBatches(w, runs[wf[w].run], wf[w].mkt) \in Row
    BY <1>2, <1>3, WithBatchesRow
  <2>3. CASE RecordSecurity(w)
    BY <1>3, <2>1, <2>3 DEF RecordSecurity
  <2>4. CASE RecordMarket(w)
    BY <1>3, <2>2, <2>4 DEF RecordMarket
  <2> QED BY <2>3, <2>4
<1>5. RowsTyped' /\ DOMAIN runs' = DOMAIN runs
  BY <1>3, <1>4, RowWritten, Frame DEF Typed
<1>6. \E pc \in {"market", "summary"} : wf' = [wf EXCEPT ![w].pc = pc]
  BY DEF RecordSecurity, RecordMarket
<1>7. LocalTyped' /\ RunsNamed'
  BY <1>1, <1>2, <1>5, <1>6, Taken DEF Point
<1> QED BY <1>1, <1>5, <1>7, Frame DEF Typed

\* Closing a run rewrites its row, or leaves it, and frees its workflow.
LEMMA Closed ==
    ASSUME Typed, NEW w \in Workflow, Live(w),
           NEW status \in {"published", "failed", "skipped"}, Close(w, status)
    PROVE  /\ \/ UNCHANGED runs
              \/ \E x \in Row : /\ runs' = [runs EXCEPT ![wf[w].run] = x]
                                /\ x.status = status
           /\ RowsTyped' /\ LocalTyped' /\ RunsNamed'
           /\ wf' = [wf EXCEPT ![w] = Idle]
<1>1. wf[w] \in Busy /\ wf[w].mkt \in Ids
  BY LiveFacts DEF Typed, Busy
<1>2. wf[w].run \in DOMAIN runs /\ runs[wf[w].run] \in Row
  BY RowOf
<1> DEFINE mkt == IF wf[w].pc = "summary" THEN wf[w].mkt ELSE 0
           x == [WithBatches(w, runs[wf[w].run], mkt) EXCEPT !.status = status]
<1>3. mkt \in Ids
  BY <1>1, IdsFacts
<1>4. WithBatches(w, runs[wf[w].run], mkt) \in Row
  <2> HIDE DEF mkt
  <2> QED BY <1>1, <1>2, <1>3, WithBatchesRow
<1>5. x \in Row /\ x.status = status
  <2> HIDE DEF mkt
  <2> QED BY <1>4 DEF Row
<1>6. UNCHANGED runs \/ runs' = [runs EXCEPT ![wf[w].run] = x]
  BY <1>2 DEF Close
<1>7. wf' = [wf EXCEPT ![w] = Idle]
  BY DEF Close
<1> HIDE DEF x, mkt
<1>8. RowsTyped' /\ DOMAIN runs' = DOMAIN runs
  BY <1>2, <1>5, <1>6, RowWritten, Frame DEF Typed
<1>9. LocalTyped' /\ RunsNamed'
  BY <1>7, <1>8, Moved, IdleFacts DEF Typed
<1> QED BY <1>5, <1>6, <1>7, <1>8, <1>9

LEMMA CloseTyped ==
    ASSUME Typed, NEW w \in Workflow,
           Finish(w) \/ NeedsBootstrap(w) \/ Fail(w)
    PROVE  Typed'
<1>1. Live(w) /\ UNCHANGED <<batches, current, active, requests, up>>
  BY DEF Finish, NeedsBootstrap, Fail, MayFail, Live
<1>2. \E status \in {"published", "failed", "skipped"} : Close(w, status)
  BY DEF Finish, NeedsBootstrap, Fail
<1>3. RowsTyped' /\ LocalTyped' /\ RunsNamed'
  BY <1>1, <1>2, Closed
<1>4. GatesTyped'
  <2>1. CASE UNCHANGED gate
    BY <1>1, <2>1, Frame
  <2>2. CASE Fail(w)
    BY <1>1, <2>2 DEF Fail, Typed, GatesTyped
  <2> QED BY <2>1, <2>2 DEF Finish, NeedsBootstrap
<1> QED BY <1>1, <1>3, <1>4, Frame DEF Typed

LEMMA AgeTyped ==
    ASSUME Typed, NEW r \in 1 .. MaxRuns, Age(r)
    PROVE  Typed'
<1>1. r \in DOMAIN runs
  BY DEF Age, Running
<1>2. runs[r] \in Row
  BY <1>1, LenProperties, ElementOfSeq DEF Typed, RowsTyped
<1>3. [runs[r] EXCEPT !.stale = TRUE] \in Row
  BY <1>2 DEF Row
<1>4. runs' = [runs EXCEPT ![r] = [runs[r] EXCEPT !.stale = TRUE]]
  BY <1>1 DEF Age
<1>5. RowsTyped' /\ DOMAIN runs' = DOMAIN runs
  BY <1>1, <1>3, <1>4, RowWritten DEF Typed
<1>6. RunsNamed'
  BY <1>5 DEF Age, Typed, RunsNamed, Live
<1> QED BY <1>5, <1>6, Frame DEF Typed, Age

LEMMA EditTyped ==
    ASSUME Typed, EditCommit \/ EditRefused \/ \E c \in Policy : EditRead(c)
    PROVE  Typed'
<1>1. ASSUME NEW c \in Policy, EditRead(c)
      PROVE  Typed'
  <2>1. editor' \in [version : Nat, base : Nat, content : Policy]
    BY <1>1 DEF EditRead, Typed, ActiveTyped, PointersTyped
  <2>2. editor'.base # 0 => editor'.base \in DOMAIN batches'
    BY <1>1 DEF EditRead, Typed, PointersTyped, tables
  <2>3. RequestsTyped'
    BY <1>1, <2>1, <2>2 DEF EditRead, Typed, RequestsTyped, tables
  <2> QED BY <1>1, <2>3, Frame DEF Typed, EditRead, tables
<1>2. CASE EditRefused
  <2>1. RequestsTyped'
    BY <1>2 DEF EditRefused, Typed, RequestsTyped, NoEdit, tables
  <2> QED BY <1>2, <2>1, Frame DEF Typed, EditRefused, tables
<1>3. CASE EditCommit
  <2>1. UNCHANGED <<runs, wf, gate, correction, up>> /\ editor' = NoEdit
    BY <1>3 DEF EditCommit
  <2>2. editor \in [version : Nat, base : Nat, content : Policy]
    BY <1>3 DEF EditCommit, Typed, RequestsTyped
  <2>3. ActiveTyped'
    BY <1>3, <2>2 DEF EditCommit, Typed, ActiveTyped
  <2>4. BatchesTyped' /\ PointersTyped' /\ DOMAIN batches \subseteq DOMAIN batches'
    <3>1. CASE UNCHANGED <<batches, current>>
      BY <3>1, Frame
    <3>2. CASE editor.base # 0
      <4> DEFINE b == [batches[editor.base] EXCEPT !.kind = "correction",
                                                   !.policy = editor.content]
      <4>1. batches[editor.base] \in Batch
        BY <3>2, LenProperties, ElementOfSeq
           DEF Typed, RequestsTyped, BatchesTyped
      <4>2. b \in Batch /\ b.kind # "security"
        BY <2>2, <4>1 DEF Batch
      <4>3. Publish("prescreen", b)
        BY <1>3, <3>2 DEF EditCommit
      <4> HIDE DEF b
      <4> QED BY <4>2, <4>3, Published DEF Typed
    <3> QED BY <1>3, <3>1, <3>2 DEF EditCommit
  <2>5. RequestsTyped'
    BY <2>1, <2>4 DEF Typed, RequestsTyped, NoEdit
  <2> QED BY <2>1, <2>3, <2>4, <2>5, Frame DEF Typed
<1> QED BY <1>1, <1>2, <1>3

LEMMA CorrectionTyped ==
    ASSUME Typed, CorrectBegin \/ Correct
    PROVE  Typed'
<1>1. UNCHANGED <<runs, active, wf, editor, up>>
  BY DEF CorrectBegin, Correct, tables
<1>2. GatesTyped'
  BY <1>1, GateSet DEF Typed, CorrectBegin, Correct, Process
<1>3. CASE CorrectBegin
  <2>1. RequestsTyped'
    BY <1>3 DEF CorrectBegin, Typed, RequestsTyped, PointersTyped, tables
  <2> QED BY <1>2, <1>3, <2>1, Frame DEF Typed, CorrectBegin, tables
<1>4. CASE Correct
  <2>1. BatchesTyped' /\ PointersTyped' /\ DOMAIN batches \subseteq DOMAIN batches'
    <3>1. CASE UNCHANGED <<batches, current>>
      BY <3>1, Frame
    <3>2. CASE Publish("prescreen",
                       [batches[correction] EXCEPT !.kind = "correction"])
      <4> DEFINE b == [batches[correction] EXCEPT !.kind = "correction"]
      <4>1. batches[correction] \in Batch
        BY <1>4, LenProperties, ElementOfSeq
           DEF Correct, Typed, RequestsTyped, BatchesTyped
      <4>2. b \in Batch /\ b.kind # "security"
        BY <4>1 DEF Batch
      <4> HIDE DEF b
      <4> QED BY <3>2, <4>2, Published DEF Typed, b
    <3> QED BY <1>4, <3>1, <3>2 DEF Correct
  <2>2. RequestsTyped'
    BY <1>1, <1>4, <2>1 DEF Correct, Typed, RequestsTyped
  <2> QED BY <1>1, <1>2, <2>1, <2>2, Frame DEF Typed
<1> QED BY <1>3, <1>4

LEMMA NextDayTyped ==
    ASSUME Typed, NextDay
    PROVE  Typed'
<1>1. \A b \in DOMAIN batches : batches[b] \in Batch
  BY LenProperties, ElementOfSeq DEF Typed, BatchesTyped
<1>2. \A b \in DOMAIN batches :
         /\ [batches[b] EXCEPT !.fresh = FALSE] \in Batch
         /\ [batches[b] EXCEPT !.fresh = FALSE].kind = batches[b].kind
  BY <1>1 DEF Batch
<1>3. /\ batches' = [b \in DOMAIN batches |-> batches'[b]]
      /\ \A b \in DOMAIN batches : /\ batches'[b] \in Batch
                                   /\ batches'[b].kind = batches[b].kind
  BY <1>2 DEF NextDay
<1>4. /\ batches' \in Seq(Batch) /\ Len(batches') = Len(batches)
      /\ DOMAIN batches' = DOMAIN batches
  BY <1>3, Rewritten DEF Typed, BatchesTyped
<1>5. BatchesTyped'
  BY <1>4 DEF Typed, BatchesTyped
<1>6. PointersTyped'
  BY <1>3, <1>4 DEF NextDay, Typed, PointersTyped
<1>7. RequestsTyped'
  BY <1>4, RequestsGrow DEF Typed, NextDay
<1> QED BY <1>5, <1>6, <1>7, Frame DEF Typed, NextDay

LEMMA CrashTyped ==
    ASSUME Typed, NEW p \in Process, Crash(p)
    PROVE  Typed'
<1>1. UNCHANGED tables
  BY DEF Crash
<1>2. LocalTyped'
  BY DEF Crash, Typed, LocalTyped
<1>3. RunsNamed'
  BY <1>1, IdleFacts DEF Crash, Typed, RunsNamed, Live, tables
<1>4. RequestsTyped'
  BY <1>1 DEF Crash, Typed, RequestsTyped, NoEdit, tables
<1>5. GatesTyped'
  <2>1. up' \in BOOLEAN
    BY DEF Crash
  <2> QED BY <2>1 DEF Crash, Typed, GatesTyped
<1> QED BY <1>1, <1>2, <1>3, <1>4, <1>5, Frame DEF Typed, tables

LEMMA BootTyped ==
    ASSUME Typed, Boot
    PROVE  Typed'
<1>1. \A r \in DOMAIN runs : runs[r] \in Row
  BY LenProperties, ElementOfSeq DEF Typed, RowsTyped
<1>2. \A r \in DOMAIN runs : [runs[r] EXCEPT !.status = "failed"] \in Row
  BY <1>1 DEF Row
<1>3. /\ runs' = [r \in DOMAIN runs |-> runs'[r]]
      /\ \A r \in DOMAIN runs : runs'[r] \in Row
  BY <1>1, <1>2 DEF Boot
<1>4. RowsTyped' /\ DOMAIN runs' = DOMAIN runs
  BY <1>3, Rewritten DEF Typed, RowsTyped
<1>5. RunsNamed'
  BY <1>4 DEF Boot, Typed, RunsNamed, Live
<1>6. GatesTyped'
  BY DEF Boot, Typed, GatesTyped
<1> QED BY <1>4, <1>5, <1>6, Frame DEF Typed, Boot

LEMMA TypedNext == Typed /\ [Next]_vars => Typed'
<1> SUFFICES ASSUME Typed, [Next]_vars PROVE Typed'
  OBVIOUS
<1>1. ASSUME NEW w \in Workflow, Work(w)
      PROVE  Typed'
  BY <1>1, LeaseTyped, InsertTyped, StartTyped, SecurityTyped, MarketTyped,
     RecordTyped, CloseTyped DEF Work
<1>2. ASSUME NEW w \in Workflow, NEW k \in Kind, Bind(w, k)
      PROVE  Typed'
  BY <1>2, LeaseTyped
<1>3. ASSUME NEW p \in Crashable, Crash(p)
      PROVE  Typed'
  BY <1>3, CrashTyped, WorkflowsAssumption DEF WorkflowsAssumption, Process
<1>4. CASE UNCHANGED vars
  BY <1>4, Frame DEF Typed, vars, tables, requests
<1> QED BY <1>1, <1>2, <1>3, <1>4, AgeTyped, EditTyped, CorrectionTyped,
           NextDayTyped, BootTyped DEF Next

LEMMA TypedAlways == Spec => []Typed
<1> QED BY TypedInit, TypedNext, PTL DEF Spec

-----------------------------------------------------------------------------
(* One row under the lease, and the gates                                  *)

Advance(w) ==
    \/ StartFull(w) \/ StartPartial(w) \/ SyncSecurity(w) \/ SyncListings(w)
    \/ RecordSecurity(w) \/ EnterMarket(w) \/ SyncMarket(w) \/ RecordMarket(w)
Ending(w) == Finish(w) \/ NeedsBootstrap(w) \/ Fail(w)

\* A workflow that advances touches no status, no heartbeat and nobody else.
LEMMA AdvanceFacts ==
    ASSUME Typed, NEW w \in Workflow, Advance(w)
    PROVE  /\ Live(w) /\ wf'[w].pc \notin {"idle", "bound"}
           /\ wf'[w].run = wf[w].run
           /\ \A v \in Workflow : v # w => wf'[v] = wf[v]
           /\ DOMAIN runs' = DOMAIN runs
           /\ \A r \in DOMAIN runs : /\ runs'[r].status = runs[r].status
                                     /\ runs'[r].stale = runs[r].stale
           /\ UNCHANGED up
<1>1. Live(w) /\ UNCHANGED up
  BY DEF Advance, StartFull, StartPartial, SyncSecurity, SyncListings,
         RecordSecurity, EnterMarket, SyncMarket, RecordMarket, Live
<1>2. wf[w] \in Busy
  BY <1>1, LiveFacts DEF Typed
<1>3. wf[w].run \in DOMAIN runs /\ runs[wf[w].run] \in Row
  BY <1>1, RowOf
<1>4. /\ wf'[w].pc \notin {"idle", "bound"} /\ wf'[w].run = wf[w].run
      /\ \A v \in Workflow : v # w => wf'[v] = wf[v]
  <2>1. CASE StartFull(w) \/ StartPartial(w)
    BY <1>2, <2>1 DEF StartFull, StartPartial, Typed, LocalTyped, Busy
  <2>2. CASE SyncSecurity(w) \/ SyncListings(w)
    BY <1>2, <2>2 DEF SyncSecurity, SyncListings, Typed, LocalTyped, Busy
  <2>3. CASE RecordSecurity(w) \/ RecordMarket(w)
    BY <1>2, <2>3 DEF RecordSecurity, RecordMarket, Typed, LocalTyped, Busy
  <2>4. CASE EnterMarket(w) \/ SyncMarket(w)
    BY <1>2, <2>4 DEF EnterMarket, SyncMarket, Typed, LocalTyped, Busy
  <2> QED BY <2>1, <2>2, <2>3, <2>4 DEF Advance
<1>5. /\ DOMAIN runs' = DOMAIN runs
      /\ \A r \in DOMAIN runs : /\ runs'[r].status = runs[r].status
                                /\ runs'[r].stale = runs[r].stale
  <2>1. CASE RecordSecurity(w)
    BY <1>3, <2>1 DEF RecordSecurity, Row
  <2>2. CASE RecordMarket(w)
    <3> DEFINE x == WithBatches(w, runs[wf[w].run], wf[w].mkt)
    <3>1. x.status = runs[wf[w].run].status /\ x.stale = runs[wf[w].run].stale
      BY <1>2, <1>3, WithBatchesRow DEF Busy
    <3>2. UNCHANGED runs \/ runs' = [runs EXCEPT ![wf[w].run] = x]
      BY <1>3, <2>2 DEF RecordMarket
    <3> HIDE DEF x
    <3> QED BY <1>3, <3>1, <3>2
  <2>3. CASE UNCHANGED runs
    BY <2>3
  <2> QED BY <2>1, <2>2, <2>3 DEF Advance, StartFull, StartPartial,
             SyncSecurity, SyncListings, EnterMarket, SyncMarket, tables
<1> QED BY <1>1, <1>4, <1>5

\* A workflow that ends is idle again, and at most its own row is closed.
LEMMA EndingFacts ==
    ASSUME Typed, NEW w \in Workflow, Ending(w)
    PROVE  /\ Live(w) /\ wf' = [wf EXCEPT ![w] = Idle]
           /\ Running' \subseteq Running
           /\ UNCHANGED up
<1>1. Live(w) /\ UNCHANGED up
  BY DEF Ending, Finish, NeedsBootstrap, Fail, MayFail, Live
<1>2. PICK status \in {"published", "failed", "skipped"} : Close(w, status)
  BY DEF Ending, Finish, NeedsBootstrap, Fail
<1>3. /\ wf' = [wf EXCEPT ![w] = Idle]
      /\ \/ UNCHANGED runs
         \/ \E x \in Row : /\ runs' = [runs EXCEPT ![wf[w].run] = x]
                           /\ x.status = status
  BY <1>1, <1>2, Closed
<1>4. wf[w].run \in DOMAIN runs
  BY <1>1, RowOf
<1> QED BY <1>1, <1>3, <1>4 DEF Running

\* The row a workflow inserts is the only one running, and its heartbeat beats.
LEMMA InsertFacts ==
    ASSUME Typed, NEW w \in Workflow, Insert(w)
    PROVE  /\ \A r \in Running : runs[r].stale
           /\ Running' = {wf'[w].run} /\ ~ runs'[wf'[w].run].stale
           /\ wf'[w].pc = "started"
           /\ \A v \in Workflow : v # w => wf'[v] = wf[v]
<1>1. \A r \in DOMAIN runs : runs[r] \in Row
  BY LenProperties, ElementOfSeq DEF Typed, RowsTyped
<1>2. \A r \in Running : runs[r].stale
  BY <1>1 DEF Insert, LeaseFree, AfterExpiry, Expired, Running, Row
<1>3. Len(runs) \in Nat /\ DOMAIN runs = 1 .. Len(runs)
  BY LenProperties DEF Typed, RowsTyped
<1> DEFINE row == [kind |-> wf[w].kind, status |-> "running",
                   policy |-> wf[w].policy, sec |-> 0, mkt |-> 0,
                   stale |-> FALSE]
           n == Len(runs) + 1
<1>4. runs' = Append(AfterExpiry, row)
  BY DEF Insert
<1>5. row.status = "running" /\ ~ row.stale
  OBVIOUS
<1>6. wf[w] \in Busy
  BY IdleFacts DEF Typed, LocalTyped, Insert
<1>7. row \in Row
  BY <1>6, IdsFacts DEF Busy, Row
<1> HIDE DEF row
<1>8. /\ \A r \in DOMAIN runs : runs'[r] = AfterExpiry[r]
      /\ runs'[n] = row /\ DOMAIN runs' = 1 .. n
  <2>1. /\ runs' \in Seq(Row) /\ Len(runs') = n /\ runs'[n] = row
        /\ \A r \in 1 .. Len(runs) : runs'[r] = AfterExpiry[r]
    BY <1>4, <1>7, AppendProperties, ExpiryRows DEF Typed
  <2> QED BY <1>3, <2>1, LenProperties
<1>9. wf'[w].run = n /\ wf'[w].pc = "started"
  BY <1>6 DEF Insert, Typed, LocalTyped, Busy
<1>10. \A r \in DOMAIN runs : runs'[r].status # "running"
  BY <1>8 DEF Insert, LeaseFree
<1>11. Running' = {n}
  <2>1. \A r \in DOMAIN runs' : r \in DOMAIN runs \/ r = n
    BY <1>3, <1>8
  <2>2. n \in DOMAIN runs'
    BY <1>3, <1>8
  <2> HIDE DEF n
  <2> QED BY <1>5, <1>8, <1>10, <2>1, <2>2 DEF Running
<1> QED BY <1>2, <1>5, <1>8, <1>9, <1>11 DEF Insert, Typed, LocalTyped

OneRow == \A r, s \in Running : r = s

LEMMA OneRowInit == Init => OneRow
BY DEF Init, OneRow, Running

LEMMA OneRowNext == Typed /\ OneRow /\ [Next]_vars => OneRow'
<1> SUFFICES ASSUME Typed, OneRow, [Next]_vars PROVE OneRow'
  OBVIOUS
<1>1. ASSUME NEW w \in Workflow, Work(w)
      PROVE  OneRow'
  <2>1. CASE Insert(w)
    BY <2>1, InsertFacts DEF OneRow
  <2>2. CASE InsertRefused(w)
    BY <2>2 DEF InsertRefused, tables, OneRow, Running
  <2>3. CASE Advance(w)
    BY <2>3, AdvanceFacts DEF OneRow, Running
  <2>4. CASE Ending(w)
    BY <2>4, EndingFacts DEF OneRow
  <2> QED BY <1>1, <2>1, <2>2, <2>3, <2>4 DEF Work, Advance, Ending
<1>2. ASSUME NEW r \in 1 .. MaxRuns, Age(r)
      PROVE  OneRow'
  <2>1. \A s \in DOMAIN runs : runs[s] \in Row
    BY LenProperties, ElementOfSeq DEF Typed, RowsTyped
  <2>2. Running' \subseteq Running
    BY <1>2, <2>1 DEF Age, Running, Row
  <2> QED BY <2>2 DEF OneRow
<1>3. CASE Boot
  <2>1. \A s \in DOMAIN runs : runs[s] \in Row
    BY LenProperties, ElementOfSeq DEF Typed, RowsTyped
  <2>2. Running' \subseteq Running
    BY <1>3, <2>1 DEF Boot, Running, Row
  <2> QED BY <2>2 DEF OneRow
<1>4. CASE UNCHANGED runs
  BY <1>4 DEF OneRow, Running
<1> QED BY <1>1, <1>2, <1>3, <1>4 DEF Next, Bind, EditRead, EditCommit,
           EditRefused, CorrectBegin, Correct, NextDay, Crash, tables, vars

\* A gate is held by the workflow whose market phase is inside it, or by the
\* correction under way.
GatesHeld ==
    /\ \A w \in Workflow : wf[w].pc = "pricing" <=> gate[Home(w)] = w
    /\ correction # 0 <=> gate[Server] = Corrector

LEMMA GatesInit == Init => GatesHeld
<1> SUFFICES ASSUME Init PROVE GatesHeld
  OBVIOUS
<1>1. \A w \in Workflow : wf[w].pc = "idle" /\ gate[Home(w)] = None /\ w # None
  BY HomeFacts, IdleFacts DEF Init
<1>2. correction = 0 /\ gate[Server] = None /\ None # Corrector
  BY WorkflowsAssumption DEF WorkflowsAssumption, Init, Process
<1> QED BY <1>1, <1>2 DEF GatesHeld

LEMMA GatesWork ==
    ASSUME Typed, GatesHeld, NEW w \in Workflow, Work(w)
    PROVE  GatesHeld'
<1>1. UNCHANGED correction
  BY DEF Work, Insert, InsertRefused, StartFull, StartPartial, SyncSecurity,
         SyncListings, RecordSecurity, EnterMarket, SyncMarket, RecordMarket,
         Finish, NeedsBootstrap, Fail, requests
<1>2. /\ Home(w) \in Process /\ w # Corrector /\ w # None /\ None # Corrector
      /\ \A v \in Workflow : /\ Home(v) \in Process
                             /\ v # Corrector /\ v # None
  BY HomeFacts, WorkflowsAssumption DEF WorkflowsAssumption
<1>3. CASE /\ UNCHANGED gate /\ wf[w].pc # "pricing" /\ wf'[w].pc # "pricing"
           /\ \A v \in Workflow : v # w => wf'[v] = wf[v]
  BY <1>1, <1>3 DEF GatesHeld
<1>4. CASE Insert(w) \/ InsertRefused(w)
  <2>1. wf'[w].pc # "pricing"
    BY <1>4, InsertFacts, IdleFacts DEF InsertRefused, Typed, LocalTyped
  <2>2. \A v \in Workflow : v # w => wf'[v] = wf[v]
    BY <1>4 DEF Insert, InsertRefused, Typed, LocalTyped
  <2> QED BY <1>3, <1>4, <2>1, <2>2 DEF Insert, InsertRefused
<1>5. CASE EnterMarket(w)
  <2>1. wf'[w].pc = "pricing" /\ \A v \in Workflow : v # w => wf'[v] = wf[v]
    <3>1. Advance(w) /\ wf[w].pc = "market"
      BY <1>5 DEF EnterMarket, Advance
    <3>2. wf[w] \in Busy
      BY <3>1, AdvanceFacts, LiveFacts DEF Typed
    <3>3. wf'[w].pc = "pricing"
      BY <1>5, <3>2 DEF EnterMarket, Typed, LocalTyped, Busy
    <3> QED BY <3>1, <3>3, AdvanceFacts
  <2>2. gate[Home(w)] = None /\ gate' = [gate EXCEPT ![Home(w)] = w]
    BY <1>5 DEF EnterMarket, Free
  <2>3. \A v \in Workflow : wf'[v].pc = "pricing" <=> gate'[Home(v)] = v
    BY <1>2, <2>1, <2>2 DEF GatesHeld, Typed, GatesTyped
  <2>4. gate'[Server] = Corrector <=> gate[Server] = Corrector
    BY <1>2, <2>2 DEF Typed, GatesTyped
  <2> QED BY <1>1, <2>3, <2>4 DEF GatesHeld
<1>6. CASE SyncMarket(w)
  <2>1. wf'[w].pc # "pricing" /\ \A v \in Workflow : v # w => wf'[v] = wf[v]
    <3>1. Advance(w)
      BY <1>6 DEF Advance
    <3>2. wf[w] \in Busy
      BY <3>1, AdvanceFacts, LiveFacts DEF Typed
    <3>3. wf'[w].pc = "market"
      BY <1>6, <3>2 DEF SyncMarket, Typed, LocalTyped, Busy
    <3> QED BY <3>1, <3>3, AdvanceFacts
  <2>2. gate[Home(w)] = w /\ gate' = [gate EXCEPT ![Home(w)] = None]
    BY <1>6 DEF SyncMarket, GatesHeld
  <2>3. \A v \in Workflow : wf'[v].pc = "pricing" <=> gate'[Home(v)] = v
    BY <1>2, <2>1, <2>2 DEF GatesHeld, Typed, GatesTyped
  <2>4. gate'[Server] = Corrector <=> gate[Server] = Corrector
    BY <1>2, <2>2 DEF Typed, GatesTyped
  <2> QED BY <1>1, <2>3, <2>4 DEF GatesHeld
<1>7. CASE Fail(w)
  <2>1. wf'[w].pc # "pricing" /\ \A v \in Workflow : v # w => wf'[v] = wf[v]
    BY <1>7, EndingFacts, IdleFacts DEF Ending, Typed, LocalTyped
  <2>2. \A p \in Process : gate'[p] = IF gate[p] = w THEN None ELSE gate[p]
    BY <1>7 DEF Fail
  <2>3. \A v \in Workflow : wf'[v].pc = "pricing" <=> gate'[Home(v)] = v
    BY <1>2, <2>1, <2>2 DEF GatesHeld
  <2>4. gate'[Server] = Corrector <=> gate[Server] = Corrector
    BY <1>2, <2>2 DEF Process
  <2> QED BY <1>1, <2>3, <2>4 DEF GatesHeld
<1>8. CASE \/ StartFull(w) \/ StartPartial(w) \/ SyncSecurity(w)
           \/ SyncListings(w) \/ RecordSecurity(w) \/ RecordMarket(w)
  <2>1. \A v \in Workflow : v # w => wf'[v] = wf[v]
    BY <1>8, AdvanceFacts DEF Advance
  <2>2. UNCHANGED gate /\ wf[w].pc # "pricing"
    BY <1>8 DEF StartFull, StartPartial, SyncSecurity, SyncListings,
                RecordSecurity, RecordMarket
  <2>3. wf'[w].pc # "pricing"
    <3>1. wf[w] \in Busy
      BY <1>8, AdvanceFacts, LiveFacts DEF Typed, Advance
    <3> QED BY <1>8, <3>1 DEF StartFull, StartPartial, SyncSecurity,
                SyncListings, RecordSecurity, RecordMarket, Typed, LocalTyped,
                Busy
  <2> QED BY <1>3, <2>1, <2>2, <2>3
<1>9. CASE Finish(w) \/ NeedsBootstrap(w)
  <2>1. wf'[w].pc # "pricing" /\ \A v \in Workflow : v # w => wf'[v] = wf[v]
    BY <1>9, EndingFacts, IdleFacts DEF Ending, Typed, LocalTyped
  <2> QED BY <1>3, <1>9, <2>1 DEF Finish, NeedsBootstrap
<1> QED BY <1>4, <1>5, <1>6, <1>7, <1>8, <1>9 DEF Work

LEMMA GatesNext == Typed /\ GatesHeld /\ [Next]_vars => GatesHeld'
<1> SUFFICES ASSUME Typed, GatesHeld, [Next]_vars PROVE GatesHeld'
  OBVIOUS
<1>1. /\ None # Corrector /\ Server \in Process
      /\ \A w \in Workflow : /\ Home(w) \in Process
                             /\ w # Corrector /\ w # None
  BY HomeFacts, WorkflowsAssumption DEF WorkflowsAssumption, Process
<1>2. ASSUME NEW w \in Workflow, NEW k \in Kind, Bind(w, k)
      PROVE  GatesHeld'
  <2>1. wf[w].pc = "idle" /\ wf'[w].pc = "bound"
    BY <1>2, IdleFacts DEF Bind, Typed, LocalTyped
  <2> QED BY <1>2, <2>1 DEF Bind, GatesHeld, requests, Typed, LocalTyped
<1>3. ASSUME NEW p \in Crashable, Crash(p)
      PROVE  GatesHeld'
  <2>1. p \in Process
    BY WorkflowsAssumption DEF WorkflowsAssumption, Process
  <2>2. /\ wf' = [w \in Workflow |-> IF Home(w) = p THEN Idle ELSE wf[w]]
        /\ gate' = [gate EXCEPT ![p] = None]
        /\ correction' = IF p = Server THEN 0 ELSE correction
    BY <1>3 DEF Crash
  <2>3. \A w \in Workflow : wf'[w].pc = "pricing" <=> gate'[Home(w)] = w
    BY <1>1, <2>1, <2>2, IdleFacts DEF GatesHeld, Typed, GatesTyped
  <2>4. correction' # 0 <=> gate'[Server] = Corrector
    BY <1>1, <2>1, <2>2 DEF GatesHeld, Typed, GatesTyped
  <2> QED BY <2>3, <2>4 DEF GatesHeld
<1>4. CASE CorrectBegin
  <2>1. /\ gate[Server] = None /\ gate' = [gate EXCEPT ![Server] = Corrector]
        /\ correction' # 0 /\ UNCHANGED wf
    BY <1>4 DEF CorrectBegin
  <2> QED BY <1>1, <2>1 DEF GatesHeld, Typed, GatesTyped
<1>5. CASE Correct
  <2>1. /\ gate[Server] = Corrector /\ gate' = [gate EXCEPT ![Server] = None]
        /\ correction' = 0 /\ UNCHANGED wf
    BY <1>5 DEF Correct, GatesHeld
  <2> QED BY <1>1, <2>1 DEF GatesHeld, Typed, GatesTyped
<1>6. CASE UNCHANGED <<wf, gate, correction>>
  BY <1>6 DEF GatesHeld
<1> QED BY <1>2, <1>3, <1>4, <1>5, <1>6, GatesWork DEF Next, Age, EditRead,
           EditCommit, EditRefused, NextDay, Boot, requests, vars

\* Types, pointers to batches of their kind, one row under the lease, and a
\* gate held exactly by who is inside it.
THEOREM TypeCorrect == Spec => []TypeOK
<1>1. Init => Typed /\ OneRow /\ GatesHeld
  BY TypedInit, OneRowInit, GatesInit
<1>2. Typed /\ OneRow /\ GatesHeld /\ [Next]_vars
         => Typed' /\ OneRow' /\ GatesHeld'
  BY TypedNext, OneRowNext, GatesNext
<1>3. Typed /\ OneRow /\ GatesHeld => TypeOK
  BY DEF TypeOK, Typed, RowsTyped, BatchesTyped, PointersTyped, OneRow,
         GatesHeld
<1> QED BY <1>1, <1>2, <1>3, PTL DEF Spec

-----------------------------------------------------------------------------
(* The lease                                                               *)

\* The one process whose restart closes every row runs everything, or stays.
Sheltered == Command = {} \/ Server \notin Crashable

Owned == \A w \in Workflow : Live(w) => /\ wf[w].run \in Running
                                        /\ ~ runs[wf[w].run].stale
Down == /\ ~ up => \A w \in Workflow : Home(w) = Server => wf[w].pc = "idle"
        /\ Server \notin Crashable => up
Lease == OneWorkflow /\ Owned /\ Down

LEMMA LeaseInit == Init => Lease
BY IdleFacts DEF Init, Lease, OneWorkflow, Owned, Down, Live

LEMMA LeaseWork ==
    ASSUME Typed, Lease, NEW w \in Workflow, Work(w)
    PROVE  Lease'
<1>1. wf[w].pc # "idle" /\ UNCHANGED up
  BY DEF Work, Insert, InsertRefused, StartFull, StartPartial, SyncSecurity,
         SyncListings, RecordSecurity, EnterMarket, SyncMarket, RecordMarket,
         Finish, NeedsBootstrap, Fail, MayFail, Live
<1>2. ASSUME \A v \in Workflow : v # w => wf'[v] = wf[v]
      PROVE  Down'
  BY <1>1, <1>2 DEF Lease, Down
<1>3. CASE Insert(w)
  <2>1. \A v \in Workflow : ~ Live(v)
    BY <1>3, InsertFacts DEF Lease, Owned
  <2>2. \A v \in Workflow : v # w => wf'[v] = wf[v] /\ ~ Live(v)'
    BY <1>3, <2>1, InsertFacts DEF Live
  <2>3. OneWorkflow'
    BY <2>2 DEF OneWorkflow
  <2>4. Owned'
    BY <1>3, <2>2, InsertFacts DEF Owned
  <2> QED BY <1>2, <2>2, <2>3, <2>4 DEF Lease
<1>4. CASE InsertRefused(w)
  <2>1. /\ \A v \in Workflow : v # w => wf'[v] = wf[v]
        /\ ~ Live(w)' /\ UNCHANGED runs
    BY <1>4, IdleFacts DEF InsertRefused, Typed, LocalTyped, Live, tables
  <2>2. \A v \in Workflow : Live(v)' => Live(v) /\ wf'[v] = wf[v]
    BY <2>1 DEF Live
  <2>3. OneWorkflow' /\ Owned'
    BY <2>1, <2>2 DEF Lease, OneWorkflow, Owned, Running
  <2> QED BY <1>2, <2>1, <2>3 DEF Lease
<1>5. CASE Advance(w)
  <2>1. Live(w) /\ \A v \in Workflow : v # w => wf'[v] = wf[v] /\ ~ Live(v)'
    BY <1>5, AdvanceFacts DEF Lease, OneWorkflow, Live
  <2>2. OneWorkflow'
    BY <2>1 DEF OneWorkflow
  <2>3. wf'[w].run \in Running' /\ ~ runs'[wf'[w].run].stale
    BY <1>5, <2>1, AdvanceFacts DEF Lease, Owned, Running
  <2>4. Owned'
    BY <2>1, <2>3 DEF Owned
  <2> QED BY <1>2, <2>1, <2>2, <2>4 DEF Lease
<1>6. CASE Ending(w)
  <2>1. \A v \in Workflow : v # w => wf'[v] = wf[v] /\ ~ Live(v)'
    BY <1>6, EndingFacts DEF Lease, OneWorkflow, Live, Typed, LocalTyped
  <2>2. ~ Live(w)'
    BY <1>6, EndingFacts, IdleFacts DEF Typed, LocalTyped, Live
  <2>3. OneWorkflow' /\ Owned'
    BY <2>1, <2>2 DEF OneWorkflow, Owned
  <2> QED BY <1>2, <2>1, <2>3 DEF Lease
<1> QED BY <1>3, <1>4, <1>5, <1>6 DEF Work, Advance, Ending

LEMMA LeaseNext ==
    ASSUME Sheltered, Typed, Lease, [Next]_vars
    PROVE  Lease'
<1>1. \A r \in DOMAIN runs : runs[r] \in Row
  BY LenProperties, ElementOfSeq DEF Typed, RowsTyped
<1>2. ASSUME UNCHANGED <<runs, up>>,
             \A v \in Workflow : Live(v)' => Live(v) /\ wf'[v] = wf[v],
             \A v \in Workflow : ~ up /\ Home(v) = Server => wf'[v] = wf[v]
      PROVE  Lease'
  <2>1. OneWorkflow' /\ Owned'
    BY <1>2 DEF Lease, OneWorkflow, Owned, Running
  <2>2. Down'
    BY <1>2 DEF Lease, Down
  <2> QED BY <2>1, <2>2 DEF Lease
<1>3. ASSUME NEW w \in Workflow, NEW k \in Kind, Bind(w, k)
      PROVE  Lease'
  <2>1. wf'[w].pc = "bound" /\ \A v \in Workflow : v # w => wf'[v] = wf[v]
    BY <1>3, IdleFacts DEF Bind, Typed, LocalTyped
  <2> QED BY <1>2, <1>3, <2>1 DEF Bind, tables, Live
<1>4. ASSUME NEW r \in 1 .. MaxRuns, Age(r)
      PROVE  Lease'
  <2>1. /\ Running' = Running
        /\ \A s \in DOMAIN runs : s # r => runs'[s] = runs[s]
    BY <1>1, <1>4 DEF Age, Running, Row
  <2>2. \A w \in Workflow : Live(w) => wf[w].run # r
    BY <1>4 DEF Age
  <2>3. UNCHANGED <<wf, up>>
    BY <1>4 DEF Age
  <2>4. Owned'
    BY <2>1, <2>2, <2>3 DEF Lease, Owned, Live, Running
  <2>5. OneWorkflow' /\ Down'
    BY <2>3 DEF Lease, OneWorkflow, Down, Live
  <2> QED BY <2>4, <2>5 DEF Lease
<1>5. ASSUME NEW p \in Crashable, Crash(p)
      PROVE  Lease'
  <2>1. /\ wf' = [w \in Workflow |-> IF Home(w) = p THEN Idle ELSE wf[w]]
        /\ up' = (up /\ p # Server) /\ UNCHANGED runs
    BY <1>5 DEF Crash, tables
  <2>2. \A v \in Workflow : Live(v)' => Live(v) /\ wf'[v] = wf[v]
    BY <2>1, IdleFacts DEF Live
  <2>3. OneWorkflow' /\ Owned'
    BY <2>1, <2>2 DEF Lease, OneWorkflow, Owned, Running
  <2>4. Down'
    <3>1. CASE p = Server
      BY <2>1, <3>1, IdleFacts DEF Down
    <3>2. CASE p # Server
      BY <2>1, <3>2, IdleFacts DEF Lease, Down
    <3> QED BY <3>1, <3>2
  <2> QED BY <2>3, <2>4 DEF Lease
<1>6. CASE Boot
  <2>1. ~ up /\ up' /\ UNCHANGED wf
    BY <1>6 DEF Boot
  <2>2. Command = {}
    BY <2>1 DEF Sheltered, Lease, Down
  <2>3. \A w \in Workflow : ~ Live(w) /\ ~ Live(w)'
    BY <2>1, <2>2 DEF Home, Lease, Down, Live
  <2> QED BY <2>1, <2>3 DEF Lease, OneWorkflow, Owned, Down
<1>7. CASE UNCHANGED <<runs, wf, up>>
  BY <1>2, <1>7 DEF Live
<1> QED BY <1>3, <1>4, <1>5, <1>6, <1>7, LeaseWork DEF Next, EditRead,
           EditCommit, EditRefused, CorrectBegin, Correct, NextDay, tables, vars

\* "Keep the exclusion rule in SQLite": at most one workflow is past its
\* insertion, whatever dies, unless a restart of the server can meet a workflow
\* of the command line.
THEOREM Exclusion ==
    ASSUME Command = {} \/ Server \notin Crashable
    PROVE  Spec => []OneWorkflow
<1>1. Sheltered
  BY DEF Sheltered
<1>2. Init => Typed /\ Lease
  BY TypedInit, LeaseInit
<1>3. Typed /\ Lease /\ [Next]_vars => Typed' /\ Lease'
  BY <1>1, TypedNext, LeaseNext
<1>4. Lease => OneWorkflow
  BY DEF Lease
<1> QED BY <1>2, <1>3, <1>4, PTL DEF Spec

\* The version a workflow reports under stays the active one while it is under
\* way: the editor looks for a running row in the transaction that activates.
THEOREM PolicyStable ==
    ASSUME Command = {} \/ Server \notin Crashable
    PROVE  Spec => PolicyStableDuringRun
<1>1. Sheltered
  BY DEF Sheltered
<1>2. Init => Typed /\ Lease
  BY TypedInit, LeaseInit
<1>3. Typed /\ Lease /\ [Next]_vars => Typed' /\ Lease'
  BY <1>1, TypedNext, LeaseNext
<1>4. Typed /\ Lease /\ [Next]_vars
         => [active' # active => \A w \in Workflow : ~ Live(w)]_vars
  <2> SUFFICES ASSUME Lease, Next, active' # active, NEW w \in Workflow
               PROVE  ~ Live(w)
    BY DEF vars
  <2>1. EditCommit
    BY DEF Next, Work, Insert, InsertRefused, StartFull, StartPartial,
           SyncSecurity, SyncListings, RecordSecurity, EnterMarket, SyncMarket,
           RecordMarket, Finish, NeedsBootstrap, Fail, Bind, Age, EditRead,
           EditRefused, CorrectBegin, Correct, NextDay, Crash, Boot, tables
  <2>2. Running = {}
    BY <2>1 DEF EditCommit, Conflict
  <2> QED BY <2>2 DEF Lease, Owned
<1> QED BY <1>2, <1>3, <1>4, PTL DEF Spec, PolicyStableDuringRun

-----------------------------------------------------------------------------
(* One policy per run                                                      *)

\* What publication leaves: the earlier batches, and the new one behind them.
LEMMA Appended ==
    ASSUME BatchesTyped, NEW pointer, NEW b, Publish(pointer, b)
    PROVE  /\ DOMAIN batches' = DOMAIN batches \cup {Len(batches) + 1}
           /\ \A i \in DOMAIN batches : batches'[i] = batches[i]
           /\ batches'[Len(batches) + 1] = b
<1>1. batches \in Seq(Batch \cup {b}) /\ b \in Batch \cup {b}
  BY SeqDef, LenProperties, ElementOfSeq DEF BatchesTyped
<1>2. Len(batches) \in Nat /\ DOMAIN batches = 1 .. Len(batches)
  BY <1>1, LenProperties
<1>3. /\ batches' \in Seq(Batch \cup {b}) /\ Len(batches') = Len(batches) + 1
      /\ \A i \in 1 .. Len(batches) : batches'[i] = batches[i]
      /\ batches'[Len(batches) + 1] = b
  BY <1>1, AppendProperties DEF Publish
<1>4. DOMAIN batches' = 1 .. Len(batches) + 1
  BY <1>3, LenProperties
<1>5. 1 .. Len(batches) + 1 = (1 .. Len(batches)) \cup {Len(batches) + 1}
  BY <1>2
<1> QED BY <1>2, <1>3, <1>4, <1>5

\* No step drops a batch or changes its policy.
BatchesGrow ==
    /\ DOMAIN batches \subseteq DOMAIN batches'
    /\ \A b \in DOMAIN batches : batches'[b].policy = batches[b].policy

LEMMA PublishGrows ==
    ASSUME BatchesTyped, NEW pointer, NEW b, Publish(pointer, b) PROVE BatchesGrow
BY Appended DEF BatchesGrow

LEMMA BatchesOnlyGrow == Typed /\ [Next]_vars => BatchesGrow
<1> SUFFICES ASSUME Typed, [Next]_vars PROVE BatchesGrow
  OBVIOUS
<1>1. CASE UNCHANGED batches
  BY <1>1 DEF BatchesGrow
<1>2. CASE NextDay
  <2>1. \A b \in DOMAIN batches : batches[b] \in Batch
    BY LenProperties, ElementOfSeq DEF Typed, BatchesTyped
  <2> QED BY <1>2, <2>1 DEF NextDay, BatchesGrow, Batch
<1>3. CASE \E pointer \in {"security", "prescreen"} : \E b : Publish(pointer, b)
  BY <1>3, PublishGrows DEF Typed
<1>4. ASSUME NEW w \in Workflow, Work(w)
      PROVE UNCHANGED batches \/ \E pointer \in {"security", "prescreen"} : \E b : Publish(pointer, b)
  BY <1>4 DEF Work, Insert, InsertRefused, StartFull, StartPartial,
           SyncSecurity, SyncListings, RecordSecurity, EnterMarket, SyncMarket,
           RecordMarket, Finish, NeedsBootstrap, Fail, tables
<1>5. EditCommit \/ Correct =>
         UNCHANGED batches \/ \E pointer \in {"security", "prescreen"} : \E b : Publish(pointer, b)
  BY DEF EditCommit, Correct
<1> QED BY <1>1, <1>2, <1>3, <1>4, <1>5 DEF Next, Bind, Age, EditRead,
           EditRefused, CorrectBegin, Crash, Boot, tables, vars

\* A row names batches that exist; a published one names batches of its policy.
RowFrozen(r) ==
    /\ runs[r].sec # 0 => runs[r].sec \in DOMAIN batches
    /\ runs[r].mkt # 0 => runs[r].mkt \in DOMAIN batches
    /\ runs[r].status = "published" =>
          /\ runs[r].mkt # 0 /\ batches[runs[r].mkt].policy = runs[r].policy
          /\ runs[r].kind = "full" =>
                runs[r].sec # 0 /\ batches[runs[r].sec].policy = runs[r].policy

\* A workflow under way works for its row, which is not published yet, and takes
\* along batches of its policy.
WorkFrozen(w) ==
    /\ runs[wf[w].run].policy = wf[w].policy
    /\ runs[wf[w].run].kind = wf[w].kind
    /\ runs[wf[w].run].status # "published"
    /\ wf[w].sec # 0 => /\ wf[w].sec \in DOMAIN batches
                        /\ wf[w].kind = "full" => batches[wf[w].sec].policy = wf[w].policy
    /\ wf[w].mkt # 0 => /\ wf[w].mkt \in DOMAIN batches
                        /\ batches[wf[w].mkt].policy = wf[w].policy
    /\ wf[w].pc \in {"market", "pricing", "summary"} /\ wf[w].kind = "full" => wf[w].sec # 0
    /\ wf[w].pc = "summary" => wf[w].mkt # 0
    /\ wf[w].pc = "listing" => wf[w].kind # "full"

OwnRows == \A v, w \in Workflow : Live(v) /\ Live(w) /\ wf[v].run = wf[w].run => v = w

\* A workflow that is bound has nothing to take along yet.
BoundFresh == \A w \in Workflow : wf[w].pc = "bound" => wf[w].sec = 0 /\ wf[w].mkt = 0

Frozen ==
    /\ \A r \in DOMAIN runs : RowFrozen(r)
    /\ \A w \in Workflow : Live(w) => WorkFrozen(w)
    /\ OwnRows
    /\ BoundFresh

LEMMA FrozenInit == Init => Frozen
BY IdleFacts DEF Init, Frozen, OwnRows, BoundFresh, Live

\* What a row keeps when at most its status or heartbeat changes.
RowLeft(r) ==
    /\ r \in DOMAIN runs'
    /\ runs'[r].policy = runs[r].policy /\ runs'[r].kind = runs[r].kind
    /\ runs'[r].sec = runs[r].sec /\ runs'[r].mkt = runs[r].mkt
    /\ runs'[r].status = "published" => runs[r].status = "published"

LEMMA RowKept ==
    ASSUME BatchesGrow, NEW r, RowFrozen(r), RowLeft(r)
    PROVE  RowFrozen(r)'
BY DEF BatchesGrow, RowFrozen, RowLeft

LEMMA WorkKept ==
    ASSUME BatchesGrow, NEW w, WorkFrozen(w), wf'[w] = wf[w], RowLeft(wf[w].run)
    PROVE  WorkFrozen(w)'
BY DEF BatchesGrow, WorkFrozen, RowLeft

\* Steps that finish, advance and start nobody.
LEMMA FrozenFrame ==
    ASSUME Typed, Frozen, BatchesGrow, DOMAIN runs' = DOMAIN runs,
           \A r \in DOMAIN runs : RowLeft(r),
           \A w \in Workflow : Live(w)' => Live(w) /\ wf'[w] = wf[w],
           BoundFresh'
    PROVE  Frozen'
<1>1. \A r \in DOMAIN runs' : RowFrozen(r)'
  BY RowKept DEF Frozen
<1>2. \A w \in Workflow : Live(w)' => WorkFrozen(w)'
  BY WorkKept DEF Frozen, Typed, RunsNamed
<1>3. OwnRows'
  BY DEF Frozen, OwnRows
<1> QED BY <1>1, <1>2, <1>3 DEF Frozen

\* A step of the live workflow w on its own row.
LEMMA FrozenStep ==
    ASSUME Typed, Frozen, BatchesGrow, NEW w \in Workflow, Live(w),
           NEW n \in DOMAIN runs, wf[w].run = n, DOMAIN runs' = DOMAIN runs,
           \A v \in Workflow : v # w => wf'[v] = wf[v],
           \A r \in DOMAIN runs : r # n => RowLeft(r),
           RowFrozen(n)',
           wf'[w].pc # "bound",
           Live(w)' => wf'[w].run = n /\ WorkFrozen(w)'
    PROVE  Frozen'
<1>1. \A r \in DOMAIN runs' : RowFrozen(r)'
  BY RowKept DEF Frozen
<1>2. \A v \in Workflow : v # w /\ Live(v)' => Live(v) /\ wf[v].run # wf[w].run
  BY DEF Frozen, OwnRows, Live
<1>3. \A v \in Workflow : Live(v)' => WorkFrozen(v)'
  BY <1>2, WorkKept DEF Frozen, Typed, RunsNamed
<1>4. OwnRows'
  BY <1>2 DEF Frozen, OwnRows
<1>5. BoundFresh'
  BY DEF Frozen, BoundFresh
<1> QED BY <1>1, <1>3, <1>4, <1>5 DEF Frozen

LEMMA FrozenInsert ==
    ASSUME Typed, Frozen, BatchesGrow, NEW w \in Workflow, Insert(w)
    PROVE  Frozen'
<1> DEFINE row == [kind |-> wf[w].kind, status |-> "running",
                   policy |-> wf[w].policy, sec |-> 0, mkt |-> 0,
                   stale |-> FALSE]
<1>0. PICK n : n = Len(runs) + 1
  OBVIOUS
<1>1. wf[w] \in Busy /\ wf[w].pc = "bound" /\ wf[w].sec = 0 /\ wf[w].mkt = 0
  BY IdleFacts DEF Typed, LocalTyped, Insert, Frozen, BoundFresh
<1>2. Len(runs) \in Nat /\ DOMAIN runs = 1 .. Len(runs)
  BY LenProperties DEF Typed, RowsTyped
<1>3. runs' = Append(AfterExpiry, row)
  BY DEF Insert
<1>4. row \in Row
  BY <1>1, IdsFacts DEF Busy, Row
<1>5. /\ row.kind = wf[w].kind /\ row.policy = wf[w].policy /\ row.sec = 0 /\ row.mkt = 0
      /\ row.status = "running"
  OBVIOUS
<1> HIDE DEF row
<1>6. /\ \A r \in DOMAIN runs : r \in DOMAIN runs' /\ runs'[r] = AfterExpiry[r]
      /\ runs'[n] = row /\ DOMAIN runs' = 1 .. n
  <2>1. /\ runs' \in Seq(Row) /\ Len(runs') = n /\ runs'[n] = row
        /\ \A r \in 1 .. Len(runs) : runs'[r] = AfterExpiry[r]
    BY <1>0, <1>3, <1>4, AppendProperties, ExpiryRows DEF Typed
  <2> QED BY <1>0, <1>2, <2>1, LenProperties
<1>7. n \notin DOMAIN runs /\ \A r \in 1 .. n : r \in DOMAIN runs \/ r = n
  BY <1>0, <1>2
<1>8. \A r \in DOMAIN runs : RowLeft(r)
  <2>1. \A r \in DOMAIN runs : runs[r] \in Row
    BY LenProperties, ElementOfSeq DEF Typed, RowsTyped
  <2>2. \A r \in DOMAIN runs :
           AfterExpiry[r] \in {runs[r], [runs[r] EXCEPT !.status = "failed"]}
    BY DEF AfterExpiry
  <2> QED BY <1>6, <2>1, <2>2 DEF RowLeft, Row
<1>9. /\ wf'[w].run = n /\ wf'[w].pc = "started" /\ wf'[w].sec = 0 /\ wf'[w].mkt = 0
      /\ wf'[w].kind = wf[w].kind /\ wf'[w].policy = wf[w].policy
      /\ \A v \in Workflow : v # w => wf'[v] = wf[v]
  BY <1>0, <1>1 DEF Insert, Typed, LocalTyped, Busy
<1>10. \A r \in DOMAIN runs' : RowFrozen(r)'
  <2>1. \A r \in DOMAIN runs : RowFrozen(r)'
    BY <1>8, RowKept DEF Frozen
  <2>2. RowFrozen(n)'
    BY <1>5, <1>6 DEF RowFrozen
  <2> QED BY <1>6, <1>7, <2>1, <2>2
<1>11. \A v \in Workflow : v # w /\ Live(v)' => Live(v) /\ wf[v].run \in DOMAIN runs
  BY <1>9 DEF Live, Typed, RunsNamed
<1>12. WorkFrozen(w)'
  BY <1>5, <1>6, <1>9 DEF WorkFrozen
<1>13. \A v \in Workflow : v # w /\ Live(v)' => WorkFrozen(v)'
  BY <1>8, <1>9, <1>11, WorkKept DEF Frozen
<1>14. OwnRows'
  BY <1>7, <1>9, <1>11 DEF Frozen, OwnRows
<1>15. BoundFresh'
  BY <1>9 DEF Frozen, BoundFresh
<1> QED BY <1>10, <1>12, <1>13, <1>14, <1>15 DEF Frozen

\* A step that leaves the rows alone, by a workflow with what it has then.
LEMMA FrozenTake ==
    ASSUME Typed, Frozen, BatchesGrow, NEW w \in Workflow, Advance(w), UNCHANGED runs,
           WorkFrozen(w)'
    PROVE  Frozen'
<1>1. PICK n \in DOMAIN runs : n = wf[w].run
  BY AdvanceFacts, LiveFacts DEF Typed
<1>2. \A r \in DOMAIN runs : RowLeft(r)
  BY DEF RowLeft
<1>3. RowFrozen(n)'
  BY <1>2, RowKept DEF Frozen
<1> QED BY <1>1, <1>2, <1>3, AdvanceFacts, FrozenStep

LEMMA FrozenStart ==
    ASSUME Typed, Frozen, BatchesGrow, NEW w \in Workflow, StartFull(w) \/ StartPartial(w)
    PROVE  Frozen'
<1>1. Live(w) /\ Advance(w) /\ UNCHANGED <<runs, batches>> /\ wf[w].pc = "started"
  BY DEF StartFull, StartPartial, Advance, Live, tables
<1>2. wf[w] \in Busy /\ wf[w].run \in DOMAIN runs /\ WorkFrozen(w)
  BY <1>1, LiveFacts DEF Typed, Frozen
<1>3. CASE StartFull(w) /\ Resumed(w) # {}
  <2>1. PICK done \in Resumed(w) :
           wf' = [wf EXCEPT ![w].pc = "security", ![w].sec = done.sec, ![w].mkt = done.mkt]
    BY <1>3 DEF StartFull
  <2>2. PICK r \in 1 .. wf[w].run - 1 :
           /\ done.sec = runs[r].sec /\ runs[r].sec # 0
           /\ batches[runs[r].sec].policy = wf[w].policy
           /\ \/ done.mkt = 0
              \/ /\ done.mkt = runs[r].mkt /\ runs[r].mkt # 0
                 /\ batches[runs[r].mkt].policy = wf[w].policy
    BY DEF Resumed
  <2>3. r \in DOMAIN runs
    <3>1. Len(runs) \in Nat /\ DOMAIN runs = 1 .. Len(runs) /\ wf[w].run \in Nat
      BY <1>2, LenProperties DEF Typed, RowsTyped, Busy
    <3> QED BY <1>2, <3>1
  <2>4. RowFrozen(r)
    BY <2>3 DEF Frozen
  <2>5. /\ wf'[w].sec = done.sec /\ wf'[w].mkt = done.mkt /\ wf'[w].pc = "security"
        /\ wf'[w].kind = wf[w].kind /\ wf'[w].policy = wf[w].policy /\ wf'[w].run = wf[w].run
    BY <1>2, <2>1 DEF Typed, LocalTyped, Busy
  <2>6. WorkFrozen(w)'
    BY <1>1, <1>2, <2>2, <2>4, <2>5 DEF WorkFrozen, RowFrozen
  <2> QED BY <1>1, <2>6, FrozenTake
<1>4. CASE StartPartial(w) \/ Resumed(w) = {}
  <2>1. PICK pc \in {"security", "market", "listing"} :
           /\ wf' = [wf EXCEPT ![w].pc = pc]
           /\ pc \in {"market", "listing"} => wf[w].kind # "full"
    BY <1>4 DEF StartFull, StartPartial
  <2>2. /\ wf'[w].sec = wf[w].sec /\ wf'[w].mkt = wf[w].mkt /\ wf'[w].pc = pc
        /\ wf'[w].kind = wf[w].kind /\ wf'[w].policy = wf[w].policy /\ wf'[w].run = wf[w].run
    BY <1>2, <2>1 DEF Typed, LocalTyped, Busy
  <2>3. WorkFrozen(w)'
    BY <1>1, <1>2, <2>1, <2>2 DEF WorkFrozen
  <2> QED BY <1>1, <2>3, FrozenTake
<1> QED BY <1>3, <1>4

LEMMA FrozenSync ==
    ASSUME Typed, Frozen, BatchesGrow, NEW w \in Workflow,
           SyncSecurity(w) \/ SyncListings(w) \/ EnterMarket(w) \/ SyncMarket(w)
    PROVE  Frozen'
<1>1. Live(w) /\ Advance(w) /\ UNCHANGED runs
  BY DEF SyncSecurity, SyncListings, EnterMarket, SyncMarket, Advance, Live, tables
<1>2. wf[w] \in Busy /\ WorkFrozen(w)
  BY <1>1, LiveFacts DEF Typed, Frozen
<1>3. CASE SyncSecurity(w)
  <2>1. PICK b : /\ wf' = [wf EXCEPT ![w].sec = b]
                 /\ b \in DOMAIN batches' /\ batches'[b].policy = wf[w].policy
    <3>1. CASE /\ Publish("security", NewBatch("security", wf[w].policy, 0))
               /\ wf' = [wf EXCEPT ![w].sec = Len(batches) + 1]
      <4>1. NewBatch("security", wf[w].policy, 0).policy = wf[w].policy
        BY DEF NewBatch
      <4> QED BY <3>1, <4>1, Appended DEF Typed
    <3>2. CASE /\ \E b \in Same("security", wf[w].policy, 0) : wf' = [wf EXCEPT ![w].sec = b]
               /\ UNCHANGED <<batches, current>>
      <4>1. \A b \in Same("security", wf[w].policy, 0) :
               b \in DOMAIN batches /\ batches[b].policy = wf[w].policy
        BY DEF Same, NewBatch
      <4>2. batches' = batches
        BY <3>2
      <4> QED BY <3>2, <4>1, <4>2
    <3> QED BY <1>3, <3>1, <3>2 DEF SyncSecurity
  <2>2. /\ wf'[w].sec = b /\ wf'[w].mkt = wf[w].mkt /\ wf'[w].pc = "security"
        /\ wf'[w].kind = wf[w].kind /\ wf'[w].policy = wf[w].policy /\ wf'[w].run = wf[w].run
    BY <1>2, <1>3, <2>1 DEF SyncSecurity, Typed, LocalTyped, Busy
  <2>3. WorkFrozen(w)'
    BY <1>1, <1>2, <2>1, <2>2 DEF WorkFrozen, BatchesGrow
  <2> QED BY <1>1, <2>3, FrozenTake
<1>4. CASE SyncListings(w)
  <2>1. PICK b : /\ wf' = [wf EXCEPT ![w].pc = "security", ![w].sec = b]
                 /\ b # 0 => b \in DOMAIN batches'
    <3>1. CASE /\ Publish("security", NewBatch("security", active.content, 0))
               /\ wf' = [wf EXCEPT ![w].pc = "security", ![w].sec = Len(batches) + 1]
      BY <3>1, Appended DEF Typed
    <3>2. CASE /\ wf' = [wf EXCEPT ![w].pc = "security", ![w].sec = current.security]
               /\ UNCHANGED <<batches, current>>
      BY <3>2 DEF Typed, PointersTyped
    <3> QED BY <1>4, <3>1, <3>2 DEF SyncListings
  <2>2. /\ wf'[w].sec = b /\ wf'[w].mkt = wf[w].mkt /\ wf'[w].pc = "security"
        /\ wf'[w].kind = wf[w].kind /\ wf'[w].policy = wf[w].policy /\ wf'[w].run = wf[w].run
    BY <1>2, <2>1 DEF Typed, LocalTyped, Busy
  <2>3. wf[w].kind # "full"
    BY <1>2, <1>4 DEF SyncListings, WorkFrozen
  <2>4. WorkFrozen(w)'
    BY <1>1, <1>2, <2>1, <2>2, <2>3 DEF WorkFrozen, BatchesGrow
  <2> QED BY <1>1, <2>4, FrozenTake
<1>5. CASE EnterMarket(w)
  <2>1. /\ wf'[w].sec = wf[w].sec /\ wf'[w].mkt = wf[w].mkt /\ wf'[w].pc = "pricing"
        /\ wf'[w].kind = wf[w].kind /\ wf'[w].policy = wf[w].policy /\ wf'[w].run = wf[w].run
        /\ wf[w].pc = "market"
    BY <1>2, <1>5 DEF EnterMarket, Typed, LocalTyped, Busy
  <2>2. WorkFrozen(w)'
    BY <1>1, <1>2, <2>1 DEF WorkFrozen, BatchesGrow
  <2> QED BY <1>1, <2>2, FrozenTake
<1>6. CASE SyncMarket(w)
  <2>1. PICK b : /\ wf' = [wf EXCEPT ![w].pc = "market", ![w].base = 0, ![w].mkt = b]
                 /\ b \in DOMAIN batches' /\ batches'[b].policy = wf[w].policy
    <3>1. CASE /\ Publish("prescreen", NewBatch("prescreen", wf[w].policy, wf[w].base))
               /\ wf' = [wf EXCEPT ![w].pc = "market", ![w].base = 0, ![w].mkt = Len(batches) + 1]
      <4>1. NewBatch("prescreen", wf[w].policy, wf[w].base).policy = wf[w].policy
        BY DEF NewBatch
      <4> QED BY <3>1, <4>1, Appended DEF Typed
    <3>2. CASE /\ \E b \in Same("prescreen", wf[w].policy, wf[w].base) :
                     wf' = [wf EXCEPT ![w].pc = "market", ![w].base = 0, ![w].mkt = b]
               /\ UNCHANGED <<batches, current>>
      <4>1. \A b \in Same("prescreen", wf[w].policy, wf[w].base) :
               b \in DOMAIN batches /\ batches[b].policy = wf[w].policy
        BY DEF Same, NewBatch
      <4>2. batches' = batches
        BY <3>2
      <4> QED BY <3>2, <4>1, <4>2
    <3> QED BY <1>6, <3>1, <3>2 DEF SyncMarket
  <2>2. /\ wf'[w].sec = wf[w].sec /\ wf'[w].mkt = b /\ wf'[w].pc = "market"
        /\ wf'[w].kind = wf[w].kind /\ wf'[w].policy = wf[w].policy /\ wf'[w].run = wf[w].run
        /\ wf[w].pc = "pricing"
    BY <1>2, <1>6, <2>1 DEF SyncMarket, Typed, LocalTyped, Busy
  <2>3. WorkFrozen(w)'
    BY <1>1, <1>2, <2>1, <2>2 DEF WorkFrozen, BatchesGrow
  <2> QED BY <1>1, <2>3, FrozenTake
<1> QED BY <1>3, <1>4, <1>5, <1>6

\* What a workflow writes of its batches into its own row.
LEMMA WithBatchesFacts ==
    ASSUME NEW w \in Workflow, NEW row \in Row, NEW mkt
    PROVE  LET x == WithBatches(w, row, mkt) IN
           /\ x.policy = row.policy /\ x.kind = row.kind /\ x.status = row.status
           /\ x.sec = IF wf[w].kind = "full" /\ wf[w].sec # 0 THEN wf[w].sec ELSE row.sec
           /\ x.mkt = IF mkt # 0 THEN mkt ELSE row.mkt
BY DEF WithBatches, Row

LEMMA RowsAreFunction ==
    ASSUME RowsTyped, NEW n \in DOMAIN runs
    PROVE  runs = [runs EXCEPT ![n] = runs[n]]
<1>1. runs \in [1 .. Len(runs) -> Row]
  BY SeqDef, LenProperties DEF RowsTyped
<1> QED BY <1>1

LEMMA FrozenRecord ==
    ASSUME Typed, Frozen, BatchesGrow, NEW w \in Workflow, RecordSecurity(w) \/ RecordMarket(w)
    PROVE  Frozen'
<1>0. PICK n : n = wf[w].run
  OBVIOUS
<1>1. Live(w) /\ Advance(w) /\ UNCHANGED batches
  BY DEF RecordSecurity, RecordMarket, Advance, Live
<1>2. wf[w] \in Busy /\ n \in DOMAIN runs /\ runs[n] \in Row /\ WorkFrozen(w) /\ RowFrozen(n)
  BY <1>0, <1>1, LiveFacts, RowOf DEF Typed, Frozen
<1>3. PICK x : /\ runs' = [runs EXCEPT ![n] = x]
               /\ x.policy = runs[n].policy /\ x.kind = runs[n].kind /\ x.status = runs[n].status
               /\ x.sec \in {runs[n].sec, wf[w].sec} /\ x.mkt \in {runs[n].mkt, wf[w].mkt}
  <2>0. runs = [runs EXCEPT ![n] = runs[n]]
    BY <1>2, RowsAreFunction DEF Typed
  <2>1. CASE UNCHANGED runs
    BY <1>2, <2>0, <2>1
  <2>2. CASE runs' = [runs EXCEPT ![n].sec = wf[w].sec]
    <3> DEFINE x == [runs[n] EXCEPT !.sec = wf[w].sec]
    <3>1. runs' = [runs EXCEPT ![n] = x]
      BY <1>2, <2>2
    <3>2. /\ x.policy = runs[n].policy /\ x.kind = runs[n].kind
          /\ x.status = runs[n].status /\ x.sec = wf[w].sec /\ x.mkt = runs[n].mkt
      BY <1>2 DEF Row
    <3> HIDE DEF x
    <3> QED BY <3>1, <3>2
  <2>3. CASE runs' = [runs EXCEPT ![n] = WithBatches(w, runs[n], wf[w].mkt)]
    <3> DEFINE x == WithBatches(w, runs[n], wf[w].mkt)
    <3>1. /\ x.policy = runs[n].policy /\ x.kind = runs[n].kind
          /\ x.status = runs[n].status
          /\ x.sec \in {runs[n].sec, wf[w].sec} /\ x.mkt \in {runs[n].mkt, wf[w].mkt}
      BY <1>2, WithBatchesFacts
    <3> HIDE DEF x
    <3> QED BY <2>3, <3>1 DEF x
  <2> QED BY <1>0, <1>2, <2>1, <2>2, <2>3 DEF RecordSecurity, RecordMarket
<1>4. /\ DOMAIN runs' = DOMAIN runs /\ runs'[n] = x
      /\ \A r \in DOMAIN runs : r # n => RowLeft(r)
  BY <1>2, <1>3 DEF RowLeft
<1>5. /\ wf'[w].sec = wf[w].sec /\ wf'[w].mkt = wf[w].mkt /\ wf'[w].run = n
      /\ wf'[w].kind = wf[w].kind /\ wf'[w].policy = wf[w].policy
      /\ \/ wf'[w].pc = "market" /\ wf[w].sec # 0
         \/ wf'[w].pc = "summary" /\ wf[w].pc = "market" /\ wf[w].mkt # 0
  BY <1>0, <1>2 DEF RecordSecurity, RecordMarket, Typed, LocalTyped, Busy
<1>6. WorkFrozen(w)'
  BY <1>0, <1>1, <1>2, <1>3, <1>4, <1>5 DEF WorkFrozen
<1>7. RowFrozen(n)'
  BY <1>0, <1>1, <1>2, <1>3, <1>4 DEF WorkFrozen, RowFrozen
<1> QED BY <1>0, <1>1, <1>2, <1>4, <1>5, <1>6, <1>7, AdvanceFacts, FrozenStep

LEMMA FrozenEnd ==
    ASSUME Typed, Frozen, BatchesGrow, NEW w \in Workflow, Ending(w)
    PROVE  Frozen'
<1>0. PICK n : n = wf[w].run
  OBVIOUS
<1> DEFINE mkt == IF wf[w].pc = "summary" THEN wf[w].mkt ELSE 0
<1>1. Live(w) /\ UNCHANGED batches /\ wf' = [wf EXCEPT ![w] = Idle]
  BY EndingFacts DEF Ending, Finish, NeedsBootstrap, Fail
<1>2. wf[w] \in Busy /\ n \in DOMAIN runs /\ runs[n] \in Row /\ WorkFrozen(w) /\ RowFrozen(n)
  BY <1>0, <1>1, LiveFacts, RowOf DEF Typed, Frozen
<1>3. PICK status \in {"published", "failed", "skipped"} :
         Close(w, status) /\ (status = "published" => wf[w].pc = "summary")
  BY DEF Ending, Finish, NeedsBootstrap, Fail
<1>4. ~Live(w)' /\ wf'[w].pc # "bound" /\ \A v \in Workflow : v # w => wf'[v] = wf[v]
  BY <1>1, IdleFacts DEF Live, Typed, LocalTyped
<1>5. mkt # 0 => mkt \in DOMAIN batches /\ batches[mkt].policy = wf[w].policy
  BY <1>2 DEF WorkFrozen
<1>6. wf[w].pc = "summary" => mkt # 0
  BY <1>2 DEF WorkFrozen
<1>7. CASE UNCHANGED runs
  <2>1. \A r \in DOMAIN runs : RowLeft(r)
    BY <1>7 DEF RowLeft
  <2>2. RowFrozen(n)'
    BY <1>2, <2>1, RowKept
  <2> QED BY <1>0, <1>1, <1>2, <1>4, <1>7, <2>1, <2>2, FrozenStep
<1>8. CASE runs' = [runs EXCEPT ![n] = [WithBatches(w, runs[n], mkt) EXCEPT !.status = status]]
  <2> HIDE DEF mkt
  <2> DEFINE y == WithBatches(w, runs[n], mkt)
             x == [y EXCEPT !.status = status]
  <2>0. wf[w].kind = "full" /\ wf[w].pc = "summary" => wf[w].sec # 0
    BY <1>2 DEF WorkFrozen
  <2>1. /\ y.policy = runs[n].policy /\ y.kind = runs[n].kind
        /\ y.sec = IF wf[w].kind = "full" /\ wf[w].sec # 0 THEN wf[w].sec ELSE runs[n].sec
        /\ y.mkt = IF mkt # 0 THEN mkt ELSE runs[n].mkt
    BY <1>2, WithBatchesFacts
  <2>2. DOMAIN y = DOMAIN runs[n] /\ DOMAIN runs[n] = {"kind", "status", "policy", "sec", "mkt", "stale"}
    BY <1>2 DEF WithBatches, Row
  <2>3. /\ x.policy = y.policy /\ x.kind = y.kind /\ x.sec = y.sec /\ x.mkt = y.mkt
        /\ x.status = status
    BY <2>2
  <2> HIDE DEF x, y
  <2>4. /\ DOMAIN runs' = DOMAIN runs /\ runs'[n] = x
        /\ \A r \in DOMAIN runs : r # n => RowLeft(r)
    BY <1>2, <1>8 DEF RowLeft, x, y
  <2>5. RowFrozen(n)'
    BY <1>0, <1>1, <1>2, <1>3, <1>5, <1>6, <2>0, <2>1, <2>3, <2>4 DEF WorkFrozen, RowFrozen
  <2> QED BY <1>0, <1>1, <1>2, <1>4, <2>4, <2>5, FrozenStep
<1> QED BY <1>0, <1>2, <1>3, <1>7, <1>8 DEF Close

LEMMA FrozenNext == Typed /\ Frozen /\ [Next]_vars => Frozen'
<1> SUFFICES ASSUME Typed, Frozen, [Next]_vars PROVE Frozen'
  OBVIOUS
<1>1. BatchesGrow
  BY BatchesOnlyGrow
<1>2. \A r \in DOMAIN runs : runs[r] \in Row
  BY LenProperties, ElementOfSeq DEF Typed, RowsTyped
<1>3. ASSUME NEW w \in Workflow, Work(w) PROVE Frozen'
  <2>1. CASE InsertRefused(w)
    <3>1. /\ \A v \in Workflow : Live(v)' => Live(v) /\ wf'[v] = wf[v]
          /\ BoundFresh'
      BY <2>1, IdleFacts DEF InsertRefused, Typed, LocalTyped, Live, Frozen, BoundFresh
    <3>2. UNCHANGED runs
      BY <2>1 DEF InsertRefused, tables
    <3> QED BY <1>1, <3>1, <3>2, FrozenFrame DEF RowLeft
  <2> QED BY <1>1, <1>3, <2>1, FrozenInsert, FrozenStart, FrozenSync, FrozenRecord, FrozenEnd
          DEF Work, Ending
<1>4. ASSUME NEW w \in Workflow, NEW k \in Kind, Bind(w, k) PROVE Frozen'
  <2>1. /\ wf'[w].pc = "bound" /\ wf'[w].sec = 0 /\ wf'[w].mkt = 0
        /\ \A v \in Workflow : v # w => wf'[v] = wf[v]
    BY <1>4, IdleFacts DEF Bind, Typed, LocalTyped
  <2>2. UNCHANGED runs
    BY <1>4 DEF Bind, tables
  <2>3. BoundFresh' /\ \A v \in Workflow : Live(v)' => Live(v) /\ wf'[v] = wf[v]
    BY <2>1 DEF Frozen, BoundFresh, Live
  <2> QED BY <1>1, <2>2, <2>3, FrozenFrame DEF RowLeft
<1>5. ASSUME UNCHANGED wf, DOMAIN runs' = DOMAIN runs,
             \A r \in DOMAIN runs : RowLeft(r)
      PROVE  Frozen'
  <2>1. BoundFresh'
    BY <1>5 DEF Frozen, BoundFresh
  <2> QED BY <1>1, <1>5, <2>1, FrozenFrame DEF Live
<1>6. ASSUME NEW r \in 1 .. MaxRuns, Age(r) PROVE Frozen'
  BY <1>2, <1>5, <1>6 DEF Age, RowLeft, Row, Running
<1>7. CASE Boot
  BY <1>2, <1>5, <1>7 DEF Boot, RowLeft, Row
<1>8. ASSUME NEW p \in Crashable, Crash(p) PROVE Frozen'
  <2>1. /\ wf' = [w \in Workflow |-> IF Home(w) = p THEN Idle ELSE wf[w]] /\ UNCHANGED runs
    BY <1>8 DEF Crash, tables
  <2>2. BoundFresh' /\ \A v \in Workflow : Live(v)' => Live(v) /\ wf'[v] = wf[v]
    BY <2>1, IdleFacts DEF Frozen, BoundFresh, Live
  <2> QED BY <1>1, <2>1, <2>2, FrozenFrame DEF RowLeft
<1>9. CASE UNCHANGED <<wf, runs>>
  BY <1>5, <1>9 DEF RowLeft
<1> QED BY <1>3, <1>4, <1>6, <1>7, <1>8, <1>9 DEF Next, EditRead,
           EditCommit, EditRefused, CorrectBegin, Correct, NextDay, tables, vars

\* A published run is of one policy, the one its row was started with, whatever it
\* resumed, whoever expired or closed its row meanwhile, and also where a restart of
\* the server lets a second workflow in (bindCandidateSync, resumableFullSync).
THEOREM PolicyFrozen == Spec => []FrozenPolicy
<1>1. Frozen => FrozenPolicy
  BY DEF Frozen, RowFrozen, FrozenPolicy
<1> QED BY <1>1, TypedInit, TypedNext, FrozenInit, FrozenNext, PTL DEF Spec

-----------------------------------------------------------------------------
(* The market batches and the security batches they derive from            *)

\* Everybody who publishes waits at the gate of the one process, or the lease
\* excludes them and nobody corrects candidates.
Undisturbed == Command = {} \/ (Server \notin Crashable /\ ~ Corrections)

Base(b) == batches[b].base
Derived == current.prescreen # 0 => Base(current.prescreen) <= current.security
Inside == \A w \in Workflow : wf[w].pc = "pricing" => wf[w].base = current.security
Correcting ==
    correction # 0 => /\ Corrections /\ current.prescreen # 0
                      /\ Base(correction) = Base(current.prescreen)
Ordered == Derived /\ Inside /\ Correcting

NoFallBack ==
    current.prescreen # 0 =>
        batches'[current'.prescreen].base >= batches[current.prescreen].base

LEMMA OrderedInit == Init => Ordered
<1> SUFFICES ASSUME Init PROVE Ordered
  OBVIOUS
<1>1. Derived
  <2>1. CASE current.prescreen = 0
    BY <2>1 DEF Derived
  <2>2. CASE ~ (current.prescreen = 0)
    <3>1. PICK p \in Policy :
             /\ batches = << [kind |-> "security", policy |-> p, base |-> 0,
                              fresh |-> FALSE],
                             [kind |-> "prescreen", policy |-> p, base |-> 1,
                              fresh |-> FALSE] >>
             /\ current = [security |-> 1, prescreen |-> 2]
      BY <2>2 DEF Init
    <3>2. batches[2].base = 1 /\ current.security = 1 /\ current.prescreen = 2
      BY <3>1
    <3> QED BY <3>2 DEF Derived, Base
  <2> QED BY <2>1, <2>2
<1> QED BY <1>1, IdleFacts DEF Init, Ordered, Inside, Correcting

LEMMA BaseFacts ==
    ASSUME Typed
    PROVE  /\ \A b \in DOMAIN batches : Base(b) \in Nat
           /\ current.security \in Nat /\ current.prescreen \in Nat
           /\ Len(batches) \in Nat
           /\ \A b \in DOMAIN batches : b \in Nat /\ b <= Len(batches)
<1>1. Len(batches) \in Nat /\ DOMAIN batches = 1 .. Len(batches)
  BY LenProperties DEF Typed, BatchesTyped
<1>2. \A b \in DOMAIN batches : batches[b] \in Batch
  BY LenProperties, ElementOfSeq DEF Typed, BatchesTyped
<1>3. \A b \in DOMAIN batches : batches[b].base \in Ids
  BY <1>2 DEF Batch
<1> QED BY <1>1, <1>3, IdsFacts DEF Base, Typed, PointersTyped

\* Nothing is published: the days pass, workflows come, advance and go.
LEMMA OrderedFrame ==
    ASSUME Typed, Ordered, UNCHANGED current,
           \A b \in DOMAIN batches : Base(b)' = Base(b),
           \A w \in Workflow : wf'[w].pc = "pricing" =>
              \/ wf[w].pc = "pricing" /\ wf'[w].base = wf[w].base
              \/ wf'[w].base = current.security,
           correction' \in {0, correction}
    PROVE  Ordered' /\ NoFallBack
<1>1. /\ current.prescreen # 0 => current.prescreen \in DOMAIN batches
      /\ correction # 0 => correction \in DOMAIN batches
  BY DEF Typed, PointersTyped, RequestsTyped
<1>2. Derived' /\ NoFallBack
  BY <1>1, BaseFacts DEF Ordered, Derived, NoFallBack, Base
<1>3. Inside'
  BY DEF Ordered, Inside
<1>4. Correcting'
  BY <1>1 DEF Ordered, Correcting, Base
<1> QED BY <1>2, <1>3, <1>4 DEF Ordered

\* A new security batch, while nobody prices candidates.
LEMMA OrderedSecurity ==
    ASSUME Typed, Ordered, NEW b, Publish("security", b), UNCHANGED correction,
           \A w \in Workflow : wf'[w].pc # "pricing"
    PROVE  Ordered' /\ NoFallBack
<1>1. /\ current.prescreen # 0 => current.prescreen \in DOMAIN batches
      /\ correction # 0 => correction \in DOMAIN batches
      /\ current.security # 0 => current.security \in DOMAIN batches
  BY DEF Typed, PointersTyped, RequestsTyped
<1>2. \A i \in DOMAIN batches : Base(i)' = Base(i)
  BY Appended DEF Typed, Base
<1>3. current'.prescreen = current.prescreen /\ current'.security = Len(batches) + 1
  BY DEF Publish, Typed, PointersTyped
<1>4. Derived' /\ NoFallBack
  BY <1>1, <1>2, <1>3, BaseFacts DEF Ordered, Derived, NoFallBack, Base
<1>5. Inside'
  BY DEF Inside
<1>6. Correcting'
  BY <1>1, <1>2, <1>3 DEF Ordered, Correcting, Base
<1> QED BY <1>4, <1>5, <1>6 DEF Ordered

\* A new market batch, not older than the current one nor newer than the
\* security batch.
LEMMA OrderedPrescreen ==
    ASSUME Typed, Ordered, NEW b, Publish("prescreen", b), b.base \in Nat,
           b.base <= current.security,
           current.prescreen # 0 => b.base >= Base(current.prescreen),
           \A w \in Workflow : wf'[w].pc = "pricing" =>
              wf[w].pc = "pricing" /\ wf'[w].base = wf[w].base,
           \/ correction' = 0
           \/ correction' = correction /\ b.base = Base(current.prescreen)
    PROVE  Ordered' /\ NoFallBack
<1>1. /\ current.prescreen # 0 => current.prescreen \in DOMAIN batches
      /\ correction # 0 => correction \in DOMAIN batches
  BY DEF Typed, PointersTyped, RequestsTyped
<1>2. /\ \A i \in DOMAIN batches : Base(i)' = Base(i)
      /\ batches'[Len(batches) + 1].base = b.base
  BY Appended DEF Typed, Base
<1>3. current'.prescreen = Len(batches) + 1 /\ current'.security = current.security
  BY DEF Publish, Typed, PointersTyped
<1>4. Derived' /\ NoFallBack
  BY <1>1, <1>2, <1>3, BaseFacts DEF Ordered, Derived, NoFallBack, Base
<1>5. Inside'
  BY <1>3 DEF Ordered, Inside
<1>6. Correcting'
  <2>1. CASE correction' = 0
    BY <2>1 DEF Correcting
  <2>2. CASE correction' = correction /\ correction # 0
    BY <1>1, <1>2, <1>3, <2>2, BaseFacts DEF Ordered, Correcting, Base
  <2> QED BY <2>1, <2>2
<1> QED BY <1>4, <1>5, <1>6 DEF Ordered

\* While candidates are priced no security batch is published and no candidate
\* corrected.
LEMMA PricingAlone ==
    ASSUME Undisturbed, Typed, GatesHeld, Lease, Ordered, NEW w \in Workflow
    PROVE  /\ Live(w) /\ wf[w].pc # "pricing" /\ Free(w) =>
                 \A v \in Workflow : wf[v].pc # "pricing"
           /\ wf[w].pc = "pricing" => correction = 0
<1>1. CASE Command = {}
  <2>1. \A v \in Workflow : Home(v) = Server
    BY <1>1 DEF Home
  <2>2. \A v \in Workflow : v # None /\ v # Corrector
    BY HomeFacts
  <2>3. \A v \in Workflow : wf[v].pc = "pricing" => gate[Server] = v
    BY <2>1 DEF GatesHeld
  <2>4. correction # 0 => gate[Server] = Corrector
    BY DEF GatesHeld
  <2>5. Free(w) => gate[Server] = None
    BY <2>1 DEF Free
  <2> QED BY <2>2, <2>3, <2>4, <2>5
<1>2. CASE Server \notin Crashable /\ ~ Corrections
  BY <1>2 DEF Lease, OneWorkflow, Live, Ordered, Correcting
<1> QED BY <1>1, <1>2 DEF Undisturbed

LEMMA OrderedWork ==
    ASSUME Undisturbed, Typed, GatesHeld, Lease, Ordered, NEW w \in Workflow, Work(w)
    PROVE  Ordered' /\ NoFallBack
<1>1. UNCHANGED correction
  BY DEF Work, Insert, InsertRefused, StartFull, StartPartial, SyncSecurity,
         SyncListings, RecordSecurity, EnterMarket, SyncMarket, RecordMarket,
         Finish, NeedsBootstrap, Fail, requests
<1>2. \A v \in Workflow : v # w => wf'[v] = wf[v]
  BY AdvanceFacts, InsertFacts, EndingFacts
     DEF Work, Advance, Ending, Typed, LocalTyped, Insert, InsertRefused
<1>3. CASE EnterMarket(w)
  <2>1. wf[w] \in Busy /\ UNCHANGED <<batches, current>>
    <3>1. Advance(w)
      BY <1>3 DEF Advance
    <3> QED BY <1>3, <3>1, AdvanceFacts, LiveFacts DEF Typed, EnterMarket, tables
  <2>2. wf'[w].base = current.security
    BY <1>3, <2>1 DEF EnterMarket, Typed, LocalTyped, Busy
  <2> QED BY <1>1, <1>2, <2>1, <2>2, OrderedFrame DEF Base
<1>4. CASE ~ EnterMarket(w)
  <2>1. wf'[w].pc # "pricing"
    <3>1. CASE Insert(w) \/ InsertRefused(w) \/ Ending(w)
      BY <3>1, InsertFacts, EndingFacts, IdleFacts DEF InsertRefused, Typed, LocalTyped
    <3>2. CASE Advance(w)
      <4>1. wf[w] \in Busy
        BY <3>2, AdvanceFacts, LiveFacts DEF Typed
      <4>2. CASE StartFull(w) \/ StartPartial(w)
        BY <4>1, <4>2 DEF StartFull, StartPartial, Typed, LocalTyped, Busy
      <4>3. CASE SyncSecurity(w) \/ SyncListings(w)
        BY <4>1, <4>3 DEF SyncSecurity, SyncListings, Typed, LocalTyped, Busy
      <4>4. CASE RecordSecurity(w) \/ RecordMarket(w) \/ SyncMarket(w)
        BY <4>1, <4>4 DEF RecordSecurity, RecordMarket, SyncMarket, Typed,
                          LocalTyped, Busy
      <4> QED BY <1>4, <3>2, <4>2, <4>3, <4>4 DEF Advance
    <3> QED BY <3>1, <3>2 DEF Work, Advance, Ending
  <2>2. CASE UNCHANGED <<batches, current>>
    BY <1>1, <1>2, <2>1, <2>2, OrderedFrame DEF Base
  <2>3. CASE \E b : (SyncSecurity(w) \/ SyncListings(w)) /\ Publish("security", b)
    <3>1. Live(w) /\ wf[w].pc # "pricing" /\ Free(w)
      BY <2>3 DEF SyncSecurity, SyncListings, Live
    <3>2. \A v \in Workflow : wf'[v].pc # "pricing"
      BY <1>2, <2>1, <3>1, PricingAlone
    <3> QED BY <1>1, <2>3, <3>2, OrderedSecurity
  <2>4. CASE SyncMarket(w) /\ Publish("prescreen", NewBatch("prescreen", wf[w].policy, wf[w].base))
    <3> DEFINE b == NewBatch("prescreen", wf[w].policy, wf[w].base)
    <3>1. wf[w].pc = "pricing"
      BY <2>4 DEF SyncMarket
    <3>2. b.base = current.security /\ correction = 0
      BY <3>1, PricingAlone DEF Ordered, Inside, NewBatch
    <3>3. Publish("prescreen", b)
      BY <2>4
    <3> HIDE DEF b
    <3>4. /\ b.base \in Nat /\ b.base <= current.security
          /\ current.prescreen # 0 => b.base >= Base(current.prescreen)
      <4>1. current.prescreen # 0 => current.prescreen \in DOMAIN batches
        BY DEF Typed, PointersTyped
      <4> QED BY <3>2, <4>1, BaseFacts DEF Ordered, Derived
    <3> QED BY <1>1, <1>2, <2>1, <3>2, <3>3, <3>4, OrderedPrescreen
  <2> QED BY <1>4, <2>2, <2>3, <2>4 DEF Work, Insert, InsertRefused, StartFull,
        StartPartial, SyncSecurity, SyncListings, RecordSecurity, SyncMarket,
        RecordMarket, Finish, NeedsBootstrap, Fail, tables
<1> QED BY <1>3, <1>4

LEMMA OrderedNext ==
    ASSUME Undisturbed, Typed, GatesHeld, Lease, Ordered, [Next]_vars
    PROVE  Ordered' /\ NoFallBack
<1>1. \A b \in DOMAIN batches : batches[b] \in Batch
  BY LenProperties, ElementOfSeq DEF Typed, BatchesTyped
<1>2. ASSUME UNCHANGED <<batches, current, wf>>, correction' \in {0, correction}
      PROVE  Ordered' /\ NoFallBack
  BY <1>2, OrderedFrame DEF Base
<1>3. ASSUME NEW w \in Workflow, NEW k \in Kind, Bind(w, k)
      PROVE  Ordered' /\ NoFallBack
  <2>1. wf'[w].pc = "bound" /\ \A v \in Workflow : v # w => wf'[v] = wf[v]
    BY <1>3, IdleFacts DEF Bind, Typed, LocalTyped
  <2> QED BY <1>3, <2>1, OrderedFrame DEF Bind, tables, requests, Base
<1>4. ASSUME NEW p \in Crashable, Crash(p)
      PROVE  Ordered' /\ NoFallBack
  <2>1. /\ wf' = [w \in Workflow |-> IF Home(w) = p THEN Idle ELSE wf[w]]
        /\ correction' \in {0, correction} /\ UNCHANGED <<batches, current>>
    BY <1>4 DEF Crash, tables
  <2> QED BY <2>1, IdleFacts, OrderedFrame DEF Base
<1>5. CASE NextDay
  <2>1. \A b \in DOMAIN batches : Base(b)' = Base(b)
    BY <1>1, <1>5 DEF NextDay, Base, Batch
  <2> QED BY <1>5, <2>1, OrderedFrame DEF NextDay, requests
<1>6. CASE EditCommit
  <2>1. UNCHANGED <<wf, correction>>
    BY <1>6 DEF EditCommit
  <2>2. CASE UNCHANGED <<batches, current>>
    BY <1>2, <2>1, <2>2
  <2>3. CASE editor.base # 0
    <3> DEFINE b == [batches[editor.base] EXCEPT !.kind = "correction",
                                                 !.policy = editor.content]
    <3>1. editor.base = current.prescreen /\ Publish("prescreen", b)
      BY <1>6, <2>3 DEF EditCommit, Conflict
    <3>2. current.prescreen # 0 /\ current.prescreen \in DOMAIN batches
      BY <2>3, <3>1 DEF Typed, PointersTyped
    <3>3. b.base = Base(current.prescreen)
      BY <1>1, <3>1, <3>2 DEF Base, Batch
    <3> HIDE DEF b
    <3>4. b.base \in Nat /\ b.base <= current.security /\ b.base >= Base(current.prescreen)
      BY <3>2, <3>3, BaseFacts DEF Ordered, Derived
    <3> QED BY <2>1, <3>1, <3>3, <3>4, OrderedPrescreen
  <2> QED BY <1>6, <2>2, <2>3 DEF EditCommit
<1>7. CASE CorrectBegin
  <2>1. UNCHANGED <<batches, current, wf>> /\ correction' = current.prescreen
        /\ Corrections
    BY <1>7 DEF CorrectBegin, tables
  <2>2. Derived' /\ NoFallBack /\ Inside'
    <3>1. current.prescreen # 0 => current.prescreen \in DOMAIN batches
      BY DEF Typed, PointersTyped
    <3> QED BY <2>1, <3>1, BaseFacts DEF Ordered, Derived, Inside, NoFallBack, Base
  <2>3. Correcting'
    BY <2>1 DEF Correcting, Base
  <2> QED BY <2>2, <2>3 DEF Ordered
<1>8. CASE Correct
  <2>1. UNCHANGED wf /\ correction' = 0 /\ correction # 0
    BY <1>8 DEF Correct
  <2>2. CASE UNCHANGED <<batches, current>>
    BY <1>2, <2>1, <2>2
  <2>3. CASE Publish("prescreen", [batches[correction] EXCEPT !.kind = "correction"])
    <3> DEFINE b == [batches[correction] EXCEPT !.kind = "correction"]
    <3>1. correction \in DOMAIN batches /\ current.prescreen \in DOMAIN batches
          /\ current.prescreen # 0
      BY <2>1 DEF Typed, RequestsTyped, PointersTyped, Ordered, Correcting
    <3>2. b.base = Base(current.prescreen)
      BY <1>1, <2>1, <3>1 DEF Base, Batch, Ordered, Correcting
    <3>3. Publish("prescreen", b)
      BY <2>3
    <3> HIDE DEF b
    <3>4. b.base \in Nat /\ b.base <= current.security /\ b.base >= Base(current.prescreen)
      BY <3>1, <3>2, BaseFacts DEF Ordered, Derived
    <3> QED BY <2>1, <3>2, <3>3, <3>4, OrderedPrescreen
  <2> QED BY <1>8, <2>2, <2>3 DEF Correct
<1> QED BY <1>2, <1>3, <1>4, <1>5, <1>6, <1>7, <1>8, OrderedWork DEF Next, Age,
           EditRead, EditRefused, Boot, tables, requests, vars

\* Candidates never fall back: whoever publishes the market batch, the workflow
\* that priced it, the editor that rescored it or the correction of a candidate,
\* it derives from a security batch at least as new as the one before.
THEOREM PrescreenMonotone ==
    ASSUME Command = {} \/ (Server \notin Crashable /\ ~ Corrections)
    PROVE  Spec => PrescreenNeverRegresses
<1>1. Undisturbed /\ Sheltered
  BY DEF Undisturbed, Sheltered
<1>2. Init => Typed /\ GatesHeld /\ Lease /\ Ordered
  BY TypedInit, GatesInit, LeaseInit, OrderedInit
<1>3. Typed /\ GatesHeld /\ Lease /\ Ordered /\ [Next]_vars
         => Typed' /\ GatesHeld' /\ Lease' /\ Ordered' /\ NoFallBack
  BY <1>1, TypedNext, GatesNext, LeaseNext, OrderedNext
<1>4. NoFallBack => [NoFallBack]_vars
  OBVIOUS
<1> QED BY <1>2, <1>3, PTL DEF Spec, PrescreenNeverRegresses, NoFallBack
=============================================================================
