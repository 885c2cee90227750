------------------------- MODULE AIAnalysisProofs -------------------------
(***************************************************************************)
(* What the analysis queue promises holds for any number of requests, of   *)
(* rows, of attempts, for every subject and package of facts, whatever the *)
(* provider answers and whichever statements and processes fail.           *)
(*                                                                         *)
(* The argument is row by row: the position of a goroutine fixes the       *)
(* status of its row and the number of requests made for it, and both the  *)
(* goroutine that is about to store a judgement and the row that holds one *)
(* go back to a valid answer about what the row asks (Fits).  A row never   *)
(* becomes active again, and a new one is compared with all active ones.   *)
(***************************************************************************)
EXTENDS AIAnalysis, SequenceTheorems, TLAPS

Positive == MaxAttempts \in Nat \ {0} /\ MaxRows \in Nat

Working == {"prepare", "enrich", "save", "reuse", "call", "repair", "finish"}
BeforeCalls == {"claim", "prepare", "enrich", "save", "reuse"}

Row == [subject : Subject, facts : Facts, model : Model, document : BOOLEAN,
        status : Status, mode : Modes, attempts : Nat, from : Nat]
Job == [pc : Working \cup {"claim", "ended"}, model : Model \cup {Off}, tries : Nat,
        structured : BOOLEAN, mode : Modes, from : Nat, ok : BOOLEAN]
Question == [pc : {"queue"}, subject : Subject, facts : Facts, model : Model]

Typed ==
    /\ provider \in Model \cup {Off}
    /\ caller \in [Caller -> {Idle} \cup Question]
    /\ rows \in Seq(Row) /\ job \in Seq(Job) /\ calls \in Seq(Nat)
    /\ Len(job) = Len(rows) /\ Len(calls) = Len(rows) /\ Len(rows) <= MaxRows

Live(row) == row.status \in {"queued", "running"}
Done(row) == row.status \in {"success", "failed"}

\* A judgement in this mode stands on an answer of its own.
Grounded(row, mode, answers) == mode # "validation_fallback" => \E a \in answers : a[1] = About(row)

\* A row, its goroutine, the requests made for it, and the valid answers so far.
Fits(row, j, n, answers) ==
    /\ j.pc = "claim" => row.status = "queued"
    /\ j.pc \in Working => row.status = "running"
    /\ n <= MaxAttempts + 1
    /\ j.pc # "ended" => j.tries = n
    /\ j.pc \in BeforeCalls => n = 0
    /\ j.pc = "call" => n < MaxAttempts
    /\ j.pc = "repair" => n <= MaxAttempts
    /\ Done(row) => row.attempts = n
    /\ row.status = "success" => Grounded(row, row.mode, answers)
    /\ j.pc = "finish" /\ j.ok => Grounded(row, j.mode, answers)

Inv ==
    /\ Typed
    /\ OneActive
    /\ \A r \in Id : Fits(rows[r], job[r], calls[r], answered)

-----------------------------------------------------------------------------
LEMMA ActiveIsLive == \A r \in Id : Active(r) <=> Live(rows[r])
BY DEF Active, Live

LEMMA IdleIsNoQuestion == Idle \notin Question /\ \A q \in Question : q.pc = "queue"
BY DEF Idle, Question

\* More answers do no harm.
LEMMA FitsWithMore ==
    ASSUME NEW row, NEW j, NEW n, NEW a, NEW b, a \subseteq b, Fits(row, j, n, a)
    PROVE  Fits(row, j, n, b)
BY DEF Fits, Grounded

LEMMA InitInv ==
    ASSUME Positive, Init
    PROVE  Inv
<1>1. /\ rows \in Seq(Row) /\ job \in Seq(Job) /\ calls \in Seq(Nat)
      /\ Len(rows) = 0 /\ Len(job) = 0 /\ Len(calls) = 0
    BY DEF Init
<1>2. Id = {} BY <1>1 DEF Id
<1>3. Typed BY <1>1 DEF Init, Typed, Positive
<1> QED BY <1>2, <1>3 DEF Inv, OneActive

\* A step that changes one row, its goroutine and its count, and may add answers.
LEMMA RowChanges ==
    ASSUME Inv, NEW r \in Id, NEW row \in Row, NEW j \in Job, NEW n \in Nat,
           rows' = [rows EXCEPT ![r] = row], job' = [job EXCEPT ![r] = j],
           calls' = [calls EXCEPT ![r] = n],
           UNCHANGED <<caller, provider>>, answered \subseteq answered',
           row.subject = rows[r].subject, Live(row) => Live(rows[r]),
           Fits(row, j, n, answered')
    PROVE  Inv'
<1>0. /\ rows \in Seq(Row) /\ job \in Seq(Job) /\ calls \in Seq(Nat)
      /\ Len(job) = Len(rows) /\ Len(calls) = Len(rows)
      /\ r \in 1..Len(rows) /\ r \in 1..Len(job) /\ r \in 1..Len(calls)
    BY DEF Inv, Typed, Id
<1>1. /\ rows' \in Seq(Row) /\ Len(rows') = Len(rows)
      /\ \A k \in 1..Len(rows) : rows'[k] = IF k = r THEN row ELSE rows[k]
    BY <1>0, ExceptSeq
<1>2. /\ job' \in Seq(Job) /\ Len(job') = Len(job)
      /\ \A k \in 1..Len(job) : job'[k] = IF k = r THEN j ELSE job[k]
    BY <1>0, ExceptSeq
<1>3. /\ calls' \in Seq(Nat) /\ Len(calls') = Len(calls)
      /\ \A k \in 1..Len(calls) : calls'[k] = IF k = r THEN n ELSE calls[k]
    BY <1>0, ExceptSeq
<1>4. Id' = Id /\ Id = 1..Len(rows) /\ Id = 1..Len(job) /\ Id = 1..Len(calls)
    BY <1>0, <1>1 DEF Id
<1>5. Typed' BY <1>1, <1>2, <1>3 DEF Inv, Typed
<1>6. OneActive'
    <2>1. \A k \in Id : rows'[k].subject = rows[k].subject /\ (Live(rows'[k]) => Live(rows[k]))
        BY <1>1, <1>4
    <2>2. \A k, l \in Id : k # l /\ Live(rows[k]) /\ Live(rows[l])
              => rows[k].subject # rows[l].subject
        BY DEF Inv, OneActive, Active, Live
    <2>3. \A k, l \in Id : k # l /\ Live(rows'[k]) /\ Live(rows'[l])
              => rows'[k].subject # rows'[l].subject
        BY <2>1, <2>2
    <2> QED BY <2>3, <1>4 DEF OneActive, Active, Live
<1>7. ASSUME NEW k \in Id
      PROVE  Fits(rows'[k], job'[k], calls'[k], answered')
    <2>1. Fits(rows[k], job[k], calls[k], answered') BY FitsWithMore DEF Inv
    <2> QED BY <2>1, <1>1, <1>2, <1>3, <1>4
<1> QED BY <1>4, <1>5, <1>6, <1>7 DEF Inv

\* What a row and its goroutine are before a step.
LEMMA RowTypes ==
    ASSUME Inv, NEW r \in Id
    PROVE  /\ rows[r] \in Row /\ job[r] \in Job /\ calls[r] \in Nat
           /\ rows = [rows EXCEPT ![r] = rows[r]]
           /\ calls = [calls EXCEPT ![r] = calls[r]]
           /\ Fits(rows[r], job[r], calls[r], answered)
<1>0. /\ rows \in Seq(Row) /\ job \in Seq(Job) /\ calls \in Seq(Nat)
      /\ r \in 1..Len(rows) /\ r \in 1..Len(job) /\ r \in 1..Len(calls)
    BY DEF Inv, Typed, Id
<1>1. rows[r] \in Row /\ job[r] \in Job /\ calls[r] \in Nat BY <1>0, ElementOfSeq
<1>2. rows = [rows EXCEPT ![r] = rows[r]] BY <1>0
<1>3. calls = [calls EXCEPT ![r] = calls[r]] BY <1>0
<1> QED BY <1>1, <1>2, <1>3 DEF Inv

-----------------------------------------------------------------------------
(* The steps of a goroutine.                                               *)

LEMMA EndedJob == Ended \in Job /\ Ended.pc = "ended" /\ Fresh \in Job /\ Fresh.pc = "claim"
                  /\ Fresh.tries = 0
BY DEF Ended, Fresh, Job, Working, Modes

LEMMA FailedJob ==
    ASSUME Inv, NEW r \in Id
    PROVE  /\ Failed(r) \in Job /\ Failed(r).pc = "finish" /\ ~Failed(r).ok
           /\ Failed(r).tries = job[r].tries
<1>1. job[r] \in Job BY RowTypes
<1> QED BY <1>1 DEF Failed, Job, Working

\* An ended goroutine owes nothing, one that failed before the calls little.
LEMMA EndedFits ==
    ASSUME Inv, NEW r \in Id, NEW row \in Row,
           row.status = "running"
    PROVE  Fits(row, Ended, calls[r], answered)
<1>1. Fits(rows[r], job[r], calls[r], answered) BY RowTypes
<1> QED BY <1>1, EndedJob DEF Fits, Done, Working, BeforeCalls

LEMMA ClaimKeeps ==
    ASSUME Inv, NEW r \in Id, Claim(r)
    PROVE  Inv'
<1>0. /\ rows[r] \in Row /\ job[r] \in Job /\ calls[r] \in Nat
      /\ Fits(rows[r], job[r], calls[r], answered) /\ job[r].pc = "claim"
    BY RowTypes DEF Claim, Goes
<1>u. UNCHANGED <<caller, provider>> /\ answered \subseteq answered' /\ calls' = calls
    BY DEF Claim
<1>1. ASSUME rows[r].status = "queued", rows' = [rows EXCEPT ![r].status = "running"]
      PROVE  Inv'
    <2>1. PICK row : row = [rows[r] EXCEPT !.status = "running"] OBVIOUS
    <2>1t. row \in Row /\ row.status = "running" /\ row.subject = rows[r].subject
        BY <2>1, <1>0 DEF Row, Status
    <2>2. rows' = [rows EXCEPT ![r] = row] BY <1>1, <2>1
    <2>3. CASE To(r, [job[r] EXCEPT !.pc = "prepare"])
        <3>1. PICK j : j = [job[r] EXCEPT !.pc = "prepare"] OBVIOUS
        <3>1t. j \in Job /\ j.pc = "prepare" /\ j.tries = job[r].tries
            BY <3>1, <1>0 DEF Job, Working
        <3>2. job' = [job EXCEPT ![r] = j] BY <2>3, <3>1 DEF To
        <3>3. Fits(row, j, calls[r], answered)
            BY <1>0, <2>1t, <3>1t DEF Fits, Done, Working, BeforeCalls
        <3>4. Fits(row, j, calls[r], answered') BY <1>u, <3>3, FitsWithMore
        <3> QED BY <1>0, <1>1, <1>u, <2>1t, <2>2, <3>1t, <3>2, <3>4, RowTypes, RowChanges DEF Live
    <2>4. CASE To(r, Ended)
        <3>1. Fits(row, Ended, calls[r], answered) BY <2>1t, EndedFits
        <3>2. Fits(row, Ended, calls[r], answered') BY <1>u, <3>1, FitsWithMore
        <3>3. job' = [job EXCEPT ![r] = Ended] BY <2>4 DEF To
        <3> QED BY <1>0, <1>1, <1>u, <2>1t, <2>2, <3>2, <3>3, EndedJob, RowTypes, RowChanges DEF Live
    <2> QED BY <1>1, <2>3, <2>4 DEF Claim
<1>2. ASSUME To(r, Ended), rows' = rows
      PROVE  Inv'
    <2>1. job' = [job EXCEPT ![r] = Ended] BY <1>2 DEF To
    <2>2. Fits(rows[r], Ended, calls[r], answered)
        BY <1>0, EndedJob DEF Fits, Done, Working, BeforeCalls
    <2>3. Fits(rows[r], Ended, calls[r], answered') BY <1>u, <2>2, FitsWithMore
    <2> QED BY <1>0, <1>2, <1>u, <2>1, <2>3, EndedJob, RowTypes, RowChanges
<1> QED BY <1>1, <1>2 DEF Claim

\* Steps between the claim and the calls that leave the row as it is.
LEMMA StepKeeps ==
    ASSUME Inv, NEW r \in Id, job[r].pc \in {"prepare", "enrich", "save", "reuse"},
           NEW j \in Job, job' = [job EXCEPT ![r] = j],
           UNCHANGED <<caller, provider, rows, calls>>, answered' = answered,
           j.tries = job[r].tries,
           j.pc \in {"enrich", "save", "reuse", "call", "finish"},
           j.pc = "finish" /\ j.ok => Grounded(rows[r], j.mode, answered),
           Positive
    PROVE  Inv'
<1>0. /\ rows[r] \in Row /\ job[r] \in Job /\ calls[r] \in Nat
      /\ Fits(rows[r], job[r], calls[r], answered)
    BY RowTypes
<1>1. rows[r].status = "running" /\ calls[r] = 0 /\ job[r].tries = 0
    BY <1>0 DEF Fits, Working, BeforeCalls
<1>2. Fits(rows[r], j, calls[r], answered)
    BY <1>1 DEF Fits, Done, Working, BeforeCalls, Positive
<1> QED BY <1>0, <1>2, RowTypes, RowChanges

LEMMA BeforeCallsKeep ==
    ASSUME Positive, Inv, NEW r \in Id, Prepare(r) \/ SavePrompts(r) \/ Reuse(r)
    PROVE  Inv'
<1>0. job[r] \in Job /\ rows[r] \in Row BY RowTypes
<1>p. provider \in Model \cup {Off} BY DEF Inv, Typed
<1>1. CASE Prepare(r)
    <2>0. job[r].pc = "prepare" /\ UNCHANGED <<caller, provider, rows, calls>> /\ answered' = answered
        BY <1>1 DEF Prepare, Goes
    <2>1. CASE To(r, Failed(r))
        BY <2>0, <2>1, FailedJob, StepKeeps DEF To
    <2>2. CASE To(r, [job[r] EXCEPT !.model = provider,
                          !.pc = IF rows[r].subject \in Filing THEN "enrich" ELSE "save"])
        <3>1. PICK j : j = [job[r] EXCEPT !.model = provider,
                            !.pc = IF rows[r].subject \in Filing THEN "enrich" ELSE "save"]
            OBVIOUS
        <3>1t. j \in Job /\ j.pc \in {"enrich", "save"} /\ j.tries = job[r].tries
            BY <3>1, <1>0, <1>p DEF Job, Working
        <3>2. job' = [job EXCEPT ![r] = j] BY <2>2, <3>1 DEF To
        <3> QED BY <2>0, <3>1t, <3>2, StepKeeps
    <2> QED BY <1>1, <2>1, <2>2 DEF Prepare
<1>2. CASE SavePrompts(r)
    <2>0. job[r].pc = "save" /\ UNCHANGED <<caller, provider, rows, calls>> /\ answered' = answered
        BY <1>2 DEF SavePrompts, Goes
    <2>1. CASE To(r, Failed(r))
        BY <2>0, <2>1, FailedJob, StepKeeps DEF To
    <2>2. CASE To(r, [job[r] EXCEPT !.pc = "reuse"])
        <3>1. PICK j : j = [job[r] EXCEPT !.pc = "reuse"] OBVIOUS
        <3>1t. j \in Job /\ j.pc = "reuse" /\ j.tries = job[r].tries
            BY <3>1, <1>0 DEF Job, Working
        <3>2. job' = [job EXCEPT ![r] = j] BY <2>2, <3>1 DEF To
        <3> QED BY <2>0, <3>1t, <3>2, StepKeeps
    <2> QED BY <1>2, <2>1, <2>2 DEF SavePrompts
<1>3. CASE Reuse(r)
    <2>0. job[r].pc = "reuse" /\ UNCHANGED <<caller, provider, rows, calls>> /\ answered' = answered
        BY <1>3 DEF Reuse, Goes
    <2>1. CASE To(r, Failed(r))
        BY <2>0, <2>1, FailedJob, StepKeeps DEF To
    <2>2. CASE To(r, [job[r] EXCEPT !.pc = "call"])
        <3>1. PICK j : j = [job[r] EXCEPT !.pc = "call"] OBVIOUS
        <3>1t. j \in Job /\ j.pc = "call" /\ j.tries = job[r].tries
            BY <3>1, <1>0 DEF Job, Working
        <3>2. job' = [job EXCEPT ![r] = j] BY <2>2, <3>1 DEF To
        <3> QED BY <2>0, <3>1t, <3>2, StepKeeps
    <2>3. ASSUME NEW o \in Reusable(r),
                 To(r, [job[r] EXCEPT !.pc = "finish", !.ok = TRUE, !.mode = "cache", !.from = o])
          PROVE  Inv'
        <3>1. o \in Id /\ rows[o].status = "success" /\ Key(rows[o]) = Key(rows[r])
              /\ rows[o].mode # "validation_fallback"
            BY <2>3 DEF Reusable
        <3>2. \E a \in answered : a[1] = About(rows[r])
            <4>1. About(rows[o]) = About(rows[r]) BY <3>1 DEF Key, About
            <4> QED BY <3>1, <4>1, RowTypes DEF Fits, Grounded
        <3>3. o \in Nat BY <3>1 DEF Id, Inv, Typed
        <3>4. PICK j : j = [job[r] EXCEPT !.pc = "finish", !.ok = TRUE,
                                            !.mode = "cache", !.from = o]
            OBVIOUS
        <3>4t. j \in Job /\ j.pc = "finish" /\ j.tries = job[r].tries
            BY <3>4, <1>0, <3>3 DEF Job, Working, Modes
        <3>5. job' = [job EXCEPT ![r] = j] BY <2>3, <3>4 DEF To
        <3> QED BY <2>0, <3>2, <3>4t, <3>5, StepKeeps DEF Grounded
    <2> QED BY <1>3, <2>1, <2>2, <2>3 DEF Reuse
<1> QED BY <1>1, <1>2, <1>3

LEMMA EnrichKeeps ==
    ASSUME Positive, Inv, NEW r \in Id, Enrich(r)
    PROVE  Inv'
<1>0. /\ rows[r] \in Row /\ job[r] \in Job /\ calls[r] \in Nat
      /\ Fits(rows[r], job[r], calls[r], answered) /\ job[r].pc = "enrich"
    BY RowTypes DEF Enrich, Goes
<1>u. UNCHANGED <<caller, provider, calls>> /\ answered' = answered BY DEF Enrich
<1>1. CASE To(r, Failed(r)) /\ UNCHANGED rows
    BY <1>0, <1>1, <1>u, FailedJob, StepKeeps DEF To
<1>2. CASE To(r, [job[r] EXCEPT !.pc = "save"]) /\ rows' = [rows EXCEPT ![r].document = TRUE]
    <2>1. PICK j : j = [job[r] EXCEPT !.pc = "save"] OBVIOUS
    <2>1t. j \in Job /\ j.pc = "save" /\ j.tries = job[r].tries
        BY <2>1, <1>0 DEF Job, Working
    <2>2. job' = [job EXCEPT ![r] = j] BY <1>2, <2>1 DEF To
    <2>3. PICK row : row = [rows[r] EXCEPT !.document = TRUE] OBVIOUS
    <2>3t. row \in Row /\ row.status = rows[r].status /\ row.subject = rows[r].subject
        BY <2>3, <1>0 DEF Row
    <2>4. rows' = [rows EXCEPT ![r] = row] BY <1>2, <2>3
    <2>5. Fits(row, j, calls[r], answered)
        BY <1>0, <2>1t, <2>3t DEF Fits, Done, Working, BeforeCalls
    <2> QED BY <1>0, <1>u, <2>1t, <2>2, <2>3t, <2>4, <2>5, RowTypes, RowChanges DEF Live
<1> QED BY <1>1, <1>2 DEF Enrich

\* What an attempt makes of the goroutine, answer by answer.
LEMMA Attempted ==
    ASSUME NEW j \in Job, j.pc \in {"call", "repair"}, NEW answer \in Answer, NEW limit \in Nat,
           NEW n \in Nat, n = j.tries + 1, NEW k, k = AfterAttempt(j, answer, limit)
    PROVE  /\ k \in Job /\ k.tries = n
           /\ k.pc \in {"call", "repair", "finish"}
           /\ k.pc = "call" => j.pc = "call" /\ n < limit
           /\ k.pc = "repair" => \/ j.pc = "call" /\ answer = "invalid"
                                 \/ j.pc = "repair" /\ n < limit
           /\ k.pc = "finish" /\ k.ok => answer = "valid" \/ k.mode = "validation_fallback"
<1>1. PICK next : next = [j EXCEPT !.tries = n] OBVIOUS
<1>2. /\ next \in Job /\ next.tries = n /\ next.pc = j.pc /\ next.mode = j.mode
    BY <1>1 DEF Job
<1>3. PICK failed : failed = [next EXCEPT !.pc = "finish", !.ok = FALSE] OBVIOUS
<1>4. failed \in Job /\ failed.tries = n /\ failed.pc = "finish" /\ ~failed.ok
    BY <1>2, <1>3 DEF Job, Working
<1>5. PICK plain : plain = [next EXCEPT !.structured = FALSE, !.mode = "prompt_json"] OBVIOUS
<1>6. plain \in Job /\ plain.tries = n /\ plain.pc = j.pc
    BY <1>2, <1>5 DEF Job, Modes
<1>7. k = CASE answer = "valid" -> [next EXCEPT !.pc = "finish", !.ok = TRUE]
            [] answer = "invalid" /\ j.pc = "call" -> [next EXCEPT !.pc = "repair"]
            [] answer = "invalid" /\ j.pc = "repair" ->
                 [next EXCEPT !.pc = "finish", !.ok = TRUE, !.mode = "validation_fallback"]
            [] answer = "no_response_format" /\ j.structured ->
                 IF n >= limit THEN [plain EXCEPT !.pc = "finish", !.ok = FALSE] ELSE plain
            [] answer = "transient" -> IF n >= limit THEN failed ELSE next
            [] OTHER -> failed
    BY <1>1, <1>3, <1>5 DEF AfterAttempt
<1>8. CASE answer = "valid"
    <2>1. k = [next EXCEPT !.pc = "finish", !.ok = TRUE] BY <1>7, <1>8
    <2>2. k \in Job /\ k.tries = n /\ k.pc = "finish" BY <2>1, <1>2 DEF Job, Working
    <2> QED BY <2>2, <1>8
<1>9. CASE answer = "invalid" /\ j.pc = "call"
    <2>1. k = [next EXCEPT !.pc = "repair"] BY <1>7, <1>9
    <2>2. k \in Job /\ k.tries = n /\ k.pc = "repair" BY <2>1, <1>2 DEF Job, Working
    <2> QED BY <2>2, <1>9
<1>10. CASE answer = "invalid" /\ j.pc = "repair"
    <2>1. k = [next EXCEPT !.pc = "finish", !.ok = TRUE, !.mode = "validation_fallback"]
        BY <1>7, <1>10
    <2>2. k \in Job /\ k.tries = n /\ k.pc = "finish" /\ k.mode = "validation_fallback"
        BY <2>1, <1>2 DEF Job, Working, Modes
    <2> QED BY <2>2
<1>11. CASE answer = "no_response_format" /\ j.structured
    <2>1. CASE n >= limit
        <3>1. k = [plain EXCEPT !.pc = "finish", !.ok = FALSE] BY <1>7, <1>11, <2>1
        <3>2. k \in Job /\ k.tries = n /\ k.pc = "finish" /\ ~k.ok
            BY <3>1, <1>6 DEF Job, Working
        <3> QED BY <3>2
    <2>2. CASE ~(n >= limit)
        <3>1. k = plain BY <1>7, <1>11, <2>2
        <3>2. n < limit BY <2>2
        <3> QED BY <3>1, <3>2, <1>6
    <2> QED BY <2>1, <2>2
<1>12. CASE answer = "transient"
    <2>1. CASE n >= limit
        <3>1. k = failed BY <1>7, <1>12, <2>1
        <3> QED BY <3>1, <1>4
    <2>2. CASE ~(n >= limit)
        <3>1. k = next BY <1>7, <1>12, <2>2
        <3>2. n < limit BY <2>2
        <3> QED BY <3>1, <3>2, <1>2
    <2> QED BY <2>1, <2>2
<1>13. CASE answer = "fatal" \/ (answer = "no_response_format" /\ ~j.structured)
    <2>1. k = failed BY <1>7, <1>13
    <2> QED BY <2>1, <1>4
<1> QED BY <1>8, <1>9, <1>10, <1>11, <1>12, <1>13 DEF Answer

LEMMA RequestKeeps ==
    ASSUME Positive, Inv, NEW r \in Id, Request(r)
    PROVE  Inv'
<1>0. /\ rows[r] \in Row /\ job[r] \in Job /\ calls[r] \in Nat
      /\ Fits(rows[r], job[r], calls[r], answered)
      /\ job[r].pc \in {"call", "repair"}
    BY RowTypes DEF Request
<1>1. PICK answer \in Answer :
        /\ To(r, AfterAttempt(job[r], answer, Limit(job[r])))
        /\ answered' = IF answer = "valid" THEN answered \cup {<<About(rows[r]), job[r].model>>}
                       ELSE answered
    BY DEF Request
<1>2. PICK j : j = AfterAttempt(job[r], answer, Limit(job[r])) OBVIOUS
<1>3. /\ calls' = [calls EXCEPT ![r] = calls[r] + 1] /\ UNCHANGED <<caller, provider, rows>>
      /\ job' = [job EXCEPT ![r] = j]
    BY <1>1, <1>2 DEF Request, To
<1>4. job[r].tries = calls[r] /\ rows[r].status = "running"
    BY <1>0 DEF Fits, Working
<1>5. PICK n \in Nat : n = calls[r] + 1 BY <1>0
<1>6. PICK limit \in Nat : /\ limit = Limit(job[r])
                           /\ job[r].pc = "call" => limit = MaxAttempts
                           /\ job[r].pc = "repair" => limit = n
    <2>1. n = job[r].tries + 1 BY <1>4, <1>5
    <2> QED BY <1>0, <1>5, <2>1 DEF Limit, Positive
<1>7. /\ j \in Job /\ j.tries = n /\ j.pc \in {"call", "repair", "finish"}
      /\ j.pc = "call" => job[r].pc = "call" /\ n < limit
      /\ j.pc = "repair" => job[r].pc = "call" \/ n < limit
      /\ j.pc = "finish" /\ j.ok => answer = "valid" \/ j.mode = "validation_fallback"
    <2>1. n = job[r].tries + 1 /\ j = AfterAttempt(job[r], answer, limit) BY <1>2, <1>4, <1>5, <1>6
    <2> HIDE DEF AfterAttempt
    <2> QED BY <1>0, <2>1, Attempted
<1>8. /\ n <= MaxAttempts + 1
      /\ j.pc = "call" => n < MaxAttempts
      /\ j.pc = "repair" => n <= MaxAttempts
    <2>1. PICK m \in Nat, a \in Nat : m = calls[r] /\ a = MaxAttempts BY <1>0 DEF Positive
    <2>2. n = m + 1 BY <2>1, <1>5
    <2>3. (job[r].pc = "call" => m < a) /\ (job[r].pc = "repair" => m <= a)
        BY <1>0, <2>1 DEF Fits
    <2>4. n <= a + 1 /\ (job[r].pc = "call" => n <= a) BY <1>0, <2>2, <2>3
    <2>5. j.pc = "call" => n < a BY <1>6, <1>7, <2>1
    <2>6. j.pc = "repair" => n <= a BY <1>0, <1>6, <1>7, <2>4
    <2> QED BY <2>1, <2>4, <2>5, <2>6
<1>9. /\ answered \subseteq answered'
      /\ answer = "valid" => \E a \in answered' : a[1] = About(rows[r])
    <2>1. answer = "valid" => <<About(rows[r]), job[r].model>> \in answered' BY <1>1
    <2>2. answered \subseteq answered' BY <1>1
    <2> QED BY <2>1, <2>2
<1>10. Fits(rows[r], j, n, answered')
    BY <1>4, <1>7, <1>8, <1>9 DEF Fits, Grounded, Done, Working, BeforeCalls
<1>11. calls' = [calls EXCEPT ![r] = n] BY <1>3, <1>5
<1> QED BY <1>0, <1>3, <1>7, <1>9, <1>10, <1>11, RowTypes, RowChanges

LEMMA FinishKeeps ==
    ASSUME Positive, Inv, NEW r \in Id, Finish(r)
    PROVE  Inv'
<1>0. /\ rows[r] \in Row /\ job[r] \in Job /\ calls[r] \in Nat
      /\ Fits(rows[r], job[r], calls[r], answered) /\ job[r].pc = "finish"
      /\ job' = [job EXCEPT ![r] = Ended]
      /\ UNCHANGED <<caller, provider, calls>> /\ answered' = answered
    BY RowTypes DEF Finish, Goes, To
<1>1. rows[r].status = "running" /\ job[r].tries = calls[r] BY <1>0 DEF Fits, Working
<1>2. CASE UNCHANGED rows
    <2>1. Fits(rows[r], Ended, calls[r], answered') BY <1>0, <1>1, EndedFits
    <2> QED BY <1>0, <1>2, <2>1, EndedJob, RowTypes, RowChanges
<1>3. CASE rows' = [rows EXCEPT ![r] =
               [@ EXCEPT !.status = IF job[r].ok THEN "success" ELSE "failed",
                         !.mode = job[r].mode, !.attempts = job[r].tries,
                         !.from = job[r].from]]
    <2>1. PICK row : row = [rows[r] EXCEPT !.status = IF job[r].ok THEN "success" ELSE "failed",
                                           !.mode = job[r].mode, !.attempts = job[r].tries,
                                           !.from = job[r].from]
        OBVIOUS
    <2>2. rows' = [rows EXCEPT ![r] = row] BY <1>3, <2>1
    <2>3. /\ row \in Row
          /\ row.status = IF job[r].ok THEN "success" ELSE "failed"
          /\ row.mode = job[r].mode /\ row.attempts = job[r].tries
          /\ row.subject = rows[r].subject
        BY <1>0, <2>1 DEF Row, Job, Status
    <2>4. About(row) = About(rows[r]) BY <1>0, <2>1 DEF About, Row
    <2>5. Fits(row, Ended, calls[r], answered)
        BY <1>0, <1>1, <2>3, <2>4, EndedJob DEF Fits, Grounded, Done, Working, BeforeCalls
    <2>6. ~Live(row) BY <2>3 DEF Live
    <2> QED BY <1>0, <2>2, <2>3, <2>5, <2>6, EndedJob, RowTypes, RowChanges
<1> QED BY <1>2, <1>3 DEF Finish

-----------------------------------------------------------------------------
(* Requests, settings and restarts.                                        *)

\* Steps that leave the rows and their goroutines alone.
LEMMA RowsUntouched ==
    ASSUME Inv, UNCHANGED <<rows, job, calls, answered>>,
           provider' \in Model \cup {Off}, caller' \in [Caller -> {Idle} \cup Question]
    PROVE  Inv'
<1>1. Typed' BY DEF Inv, Typed
<1>2. Id' = Id BY DEF Id
<1>3. OneActive' BY <1>2 DEF Inv, OneActive, Active
<1> QED BY <1>1, <1>2, <1>3 DEF Inv

LEMMA AskKeeps ==
    ASSUME Inv, NEW c \in Caller, Ask(c)
    PROVE  Inv'
<1>1. PICK s \in Subject, f \in Facts :
        caller' = [caller EXCEPT ![c] = [pc |-> "queue", subject |-> s, facts |-> f, model |-> provider]]
    BY DEF Ask
<1>2. provider \in Model BY DEF Ask, Inv, Typed
<1>3. caller' \in [Caller -> {Idle} \cup Question] BY <1>1, <1>2 DEF Inv, Typed, Question
<1> QED BY <1>2, <1>3, RowsUntouched DEF Ask

\* The row that a request inserts is the only active one of its subject.
LEMMA EnqueueKeeps ==
    ASSUME Positive, Inv, NEW c \in Caller, Enqueue(c)
    PROVE  Inv'
<1>0. /\ provider' \in Model \cup {Off} /\ answered' = answered
      /\ caller' \in [Caller -> {Idle} \cup Question]
    BY DEF Enqueue, Inv, Typed
<1>1. CASE UNCHANGED <<rows, job, calls>> BY <1>0, <1>1, RowsUntouched
<1>2. ASSUME ~Duplicate(caller[c].subject), Len(rows) < MaxRows,
             rows' = Append(rows, NewRow(caller[c])), job' = Append(job, Fresh),
             calls' = Append(calls, 0)
      PROVE  Inv'
    <2>1. caller[c] \in Question
        BY IdleIsNoQuestion DEF Enqueue, Inv, Typed, Idle
    <2>2. PICK row : row = NewRow(caller[c]) OBVIOUS
    <2>3. row \in Row /\ row.status = "queued" /\ row.subject = caller[c].subject
        BY <2>1, <2>2 DEF NewRow, Question, Row, Status, Modes
    <2>4. /\ rows \in Seq(Row) /\ job \in Seq(Job) /\ calls \in Seq(Nat)
          /\ Len(job) = Len(rows) /\ Len(calls) = Len(rows) /\ Len(rows) \in Nat
        BY DEF Inv, Typed
    <2>5. PICK m \in Nat : m = Len(rows) + 1 BY <2>4
    <2>6. /\ rows' \in Seq(Row) /\ Len(rows') = m /\ rows'[m] = row
          /\ \A k \in 1..Len(rows) : rows'[k] = rows[k]
        BY <1>2, <2>2, <2>3, <2>4, <2>5, AppendProperties
    <2>7. /\ job' \in Seq(Job) /\ Len(job') = m /\ job'[m] = Fresh
          /\ \A k \in 1..Len(job) : job'[k] = job[k]
        BY <1>2, <2>4, <2>5, EndedJob, AppendProperties
    <2>8. /\ calls' \in Seq(Nat) /\ Len(calls') = m /\ calls'[m] = 0
          /\ \A k \in 1..Len(calls) : calls'[k] = calls[k]
        BY <1>2, <2>4, <2>5, AppendProperties
    <2>9. m <= MaxRows BY <1>2, <2>4, <2>5 DEF Positive
    <2>10. Typed' BY <1>0, <2>6, <2>7, <2>8, <2>9 DEF Typed
    <2>11. Id' = Id \cup {m} /\ Id = 1..Len(rows) /\ m \notin Id
        BY <2>4, <2>5, <2>6 DEF Id
    <2>12. \A k \in Id : rows'[k] = rows[k] /\ job'[k] = job[k] /\ calls'[k] = calls[k]
        BY <2>4, <2>6, <2>7, <2>8, <2>11
    <2>13. \A k \in Id : Live(rows[k]) => rows[k].subject # row.subject
        BY <1>2, <2>3 DEF Duplicate, Active, Live
    <2>14. \A k, l \in Id : k # l /\ Live(rows[k]) /\ Live(rows[l])
              => rows[k].subject # rows[l].subject
        BY DEF Inv, OneActive, Active, Live
    <2>15. \A k, l \in Id' : k # l /\ Live(rows'[k]) /\ Live(rows'[l])
              => rows'[k].subject # rows'[l].subject
        BY <2>6, <2>11, <2>12, <2>13, <2>14
    <2>16. OneActive' BY <2>15 DEF OneActive, Active, Live
    <2>17. Fits(row, Fresh, 0, answered)
        BY <2>3, EndedJob DEF Fits, Done, Working, BeforeCalls, Positive
    <2>18. \A k \in Id' : Fits(rows'[k], job'[k], calls'[k], answered')
        BY <1>0, <2>6, <2>7, <2>8, <2>11, <2>12, <2>17 DEF Inv
    <2> QED BY <2>10, <2>16, <2>18 DEF Inv
<1> QED BY <1>1, <1>2 DEF Enqueue

LEMMA CrashKeeps ==
    ASSUME Positive, Inv, Crash
    PROVE  Inv'
<1>1. UNCHANGED <<provider, rows, calls, answered>> /\ job' = [r \in Id |-> Ended]
      /\ caller' = [c \in Caller |-> Idle]
    BY DEF Crash
<1>2. Id' = Id /\ Id = 1..Len(rows) /\ Len(rows) \in Nat BY <1>1 DEF Id, Inv, Typed
<1>3. job' \in Seq(Job) /\ Len(job') = Len(rows) /\ \A r \in Id : job'[r] = Ended
    BY <1>1, <1>2, EndedJob
<1>4. Typed' BY <1>1, <1>3 DEF Inv, Typed
<1>5. OneActive' BY <1>1, <1>2 DEF Inv, OneActive, Active
<1>6. ASSUME NEW r \in Id
      PROVE  Fits(rows[r], Ended, calls[r], answered)
    BY RowTypes, EndedJob DEF Fits, Done, Working, BeforeCalls
<1>7. \A r \in Id' : Fits(rows'[r], job'[r], calls'[r], answered') BY <1>1, <1>2, <1>3, <1>6
<1> QED BY <1>4, <1>5, <1>7 DEF Inv

LEMMA NextInv ==
    ASSUME Positive, Inv, [Next]_vars
    PROVE  Inv'
<1>1. ASSUME NEW r \in Id, Work(r)
      PROVE  Inv'
    BY <1>1, ClaimKeeps, BeforeCallsKeep, EnrichKeeps, RequestKeeps, FinishKeeps DEF Work
<1>2. CASE SaveProviders
    BY <1>2, RowsUntouched DEF SaveProviders, Inv, Typed
<1>3. CASE UNCHANGED vars
    BY <1>3, RowsUntouched DEF vars, Inv, Typed
<1> QED BY <1>1, <1>2, <1>3, AskKeeps, EnqueueKeeps, CrashKeeps DEF Next

LEMMA Invariant ==
    ASSUME Positive
    PROVE  Steps => []Inv
<1>1. Init => Inv BY InitInv
<1>2. Inv /\ [Next]_vars => Inv' BY NextInv
<1> QED BY <1>1, <1>2, PTL DEF Steps

-----------------------------------------------------------------------------
\* A goroutine works only on a row that is running.
THEOREM TypeCorrect ==
    ASSUME Positive
    PROVE  Steps => []TypeOK
<1>1. ASSUME Inv PROVE TypeOK
    <2>1. ASSUME NEW r \in Id
          PROVE  /\ rows[r].status \in Status /\ rows[r].mode \in Modes
                 /\ job[r].pc \in Working => rows[r].status = "running"
        BY <1>1, RowTypes DEF Row, Fits
    <2> QED BY <1>1, <2>1 DEF Inv, Typed, TypeOK, Working
<1> QED BY <1>1, Invariant, PTL

\* The duplicate check under queueMu: no subject is analysed twice at a time,
\* also when a failed statement or a restart leaves a row "running" for good.
THEOREM OneAtATime ==
    ASSUME Positive
    PROVE  Steps => []OneActive
<1>1. Inv => OneActive BY DEF Inv
<1> QED BY <1>1, Invariant, PTL

\* The research judgement of a finished row, reused ones included, goes back to
\* a valid answer about the same subject, facts and document; which model gave it, the
\* row does not tell.
THEOREM JudgementsGenuine ==
    ASSUME Positive
    PROVE  Steps => []JudgementIsGenuine
<1>1. ASSUME Inv PROVE JudgementIsGenuine
    BY <1>1 DEF Inv, JudgementIsGenuine, Fits, Grounded
<1> QED BY <1>1, Invariant, PTL

\* A row costs at most aiAnalysisMaxProviderAttempts requests and one repair,
\* and the attempts it reports are those made.
THEOREM CallsCounted ==
    ASSUME Positive
    PROVE  Steps => []CallsBounded
<1>1. ASSUME Inv PROVE CallsBounded
    BY <1>1 DEF Inv, CallsBounded, Fits, Done
<1> QED BY <1>1, Invariant, PTL
=============================================================================
