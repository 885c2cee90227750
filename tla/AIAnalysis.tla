----------------------------- MODULE AIAnalysis -----------------------------
(***************************************************************************)
(* Research notes written by a language model (service/ai_analysis.go).    *)
(* A request is checked, queued under queueMu, and worked on by a          *)
(* goroutine that outlives the HTTP request: it claims the row, completes  *)
(* the facts of an SEC filing, reuses an earlier answer or calls the       *)
(* provider with a bounded number of attempts and one repair, stores the   *)
(* outcome and announces it.  Prompts and answers are data: a request has  *)
(* a package of facts, an answer is valid or not.                          *)
(***************************************************************************)
EXTENDS Naturals, Sequences, FiniteSets

CONSTANTS
    Caller,       \* HTTP requests
    Subject,      \* what the duplicate check compares: scope, ticker, provider, filing
    Filing,       \* the subjects that are SEC filings
    Facts,        \* research packages
    Model,        \* model names the provider's settings may hold
    Off,          \* the provider is disabled, or has no key
    MaxAttempts,  \* aiAnalysisMaxProviderAttempts
    MaxRows,      \* bound: rows of ai_analyses
    MaxCrashes,   \* bound: restarts of the server
    Faults        \* whether statements may fail

VARIABLES caller, provider, rows, job, calls, answered, crashes
vars == <<caller, provider, rows, job, calls, answered, crashes>>

Id == 1..Len(rows)
Active(r) == rows[r].status \in {"queued", "running"}

\* aiAnalysisKey: what two requests must share for one answer to serve both.
\* The text of a filing enters the hash of the facts when it is fetched.
\* The model is the one that the provider's settings named when the row was queued.
Key(row) == [subject |-> row.subject, facts |-> row.facts,
             model |-> row.model, document |-> row.document]

\* What a judgement is about, whichever model gives it.
About(row) == [subject |-> row.subject, facts |-> row.facts, document |-> row.document]

\* A goroutine before its first statement, and none.
Fresh == [pc |-> "claim", model |-> Off, tries |-> 0, structured |-> TRUE,
          mode |-> "json_object", from |-> 0, ok |-> FALSE]
Ended == [Fresh EXCEPT !.pc = "ended"]
Idle == [pc |-> "idle"]

Init ==
    /\ caller = [c \in Caller |-> Idle]
    /\ provider \in Model
    /\ rows = << >> /\ job = << >>
    /\ calls = << >>
    /\ answered = {}
    /\ crashes = 0

(***************************************************************************)
(* Requests                                                                *)
(***************************************************************************)
\* The provider is looked up and the prompt rendered before the lock.
Ask(c) ==
    /\ caller[c] = Idle
    /\ provider # Off
    /\ \E s \in Subject, f \in Facts :
         caller' = [caller EXCEPT ![c] =
                      [pc |-> "queue", subject |-> s, facts |-> f, model |-> provider]]
    /\ UNCHANGED <<provider, rows, job, calls, answered, crashes>>

Duplicate(s) == \E r \in Id : rows[r].subject = s /\ Active(r)

NewRow(q) == [subject |-> q.subject, facts |-> q.facts, model |-> q.model,
              document |-> FALSE, status |-> "queued", mode |-> "json_object",
              attempts |-> 0, from |-> 0]

\* Under queueMu: refuse a subject that is under way, or insert the row; the
\* handler then starts the goroutine.
Enqueue_NoCheck(c) ==
    /\ caller[c].pc = "queue"
    /\ caller' = [caller EXCEPT ![c] = Idle]
    /\ Len(rows) < MaxRows
    /\ rows' = Append(rows, NewRow(caller[c]))
    /\ job' = Append(job, Fresh)
    /\ calls' = Append(calls, 0)
    /\ UNCHANGED <<provider, answered, crashes>>

Enqueue(c) ==
    /\ caller[c].pc = "queue"
    /\ caller' = [caller EXCEPT ![c] = Idle]
    /\ \/ /\ ~Duplicate(caller[c].subject)
          /\ Len(rows) < MaxRows
          /\ rows' = Append(rows, NewRow(caller[c]))
          /\ job' = Append(job, Fresh)
          /\ calls' = Append(calls, 0)
       \/ /\ Duplicate(caller[c].subject) \/ Faults \/ Len(rows) = MaxRows
          /\ UNCHANGED <<rows, job, calls>>
    /\ UNCHANGED <<provider, answered, crashes>>

\* The operator saves the provider's settings.
SaveProviders ==
    /\ provider' \in (Model \cup {Off}) \ {provider}
    /\ UNCHANGED <<caller, rows, job, calls, answered, crashes>>

(***************************************************************************)
(* The goroutine of a row                                                  *)
(***************************************************************************)
Goes(r, pc) == r \in Id /\ job[r].pc = pc
To(r, state) == job' = [job EXCEPT ![r] = state]
Failed(r) == [job[r] EXCEPT !.pc = "finish", !.ok = FALSE]

\* The compare-and-set from queued to running, then the row is read again.
\* Neither failing statement records an outcome.
Claim(r) ==
    /\ Goes(r, "claim")
    /\ \/ rows[r].status = "queued" /\ rows' = [rows EXCEPT ![r].status = "running"]
          /\ \/ To(r, [job[r] EXCEPT !.pc = "prepare"])
             \/ Faults /\ To(r, Ended)
       \/ Faults /\ To(r, Ended) /\ UNCHANGED rows
    /\ UNCHANGED <<caller, provider, calls, answered, crashes>>

\* The provider is looked up again: its settings may have changed meanwhile.
Prepare_Returns(r) ==
    /\ Goes(r, "prepare")
    /\ IF provider = Off THEN To(r, Ended)
       ELSE To(r, [job[r] EXCEPT !.model = provider,
                                 !.pc = IF rows[r].subject \in Filing THEN "enrich" ELSE "save"])
    /\ UNCHANGED <<caller, provider, rows, calls, answered, crashes>>

Prepare(r) ==
    /\ Goes(r, "prepare")
    /\ IF provider = Off THEN To(r, Failed(r))
       ELSE To(r, [job[r] EXCEPT !.model = provider,
                                 !.pc = IF rows[r].subject \in Filing THEN "enrich" ELSE "save"])
    /\ UNCHANGED <<caller, provider, rows, calls, answered, crashes>>

\* The filing's document is fetched and becomes part of the facts; a document
\* that cannot be fetched or read fails the analysis.
Enrich(r) ==
    /\ Goes(r, "enrich")
    /\ \/ To(r, [job[r] EXCEPT !.pc = "save"]) /\ rows' = [rows EXCEPT ![r].document = TRUE]
       \/ To(r, Failed(r)) /\ UNCHANGED rows
    /\ UNCHANGED <<caller, provider, calls, answered, crashes>>

\* The prompts and the key as sent are stored.
SavePrompts(r) ==
    /\ Goes(r, "save")
    /\ \/ To(r, [job[r] EXCEPT !.pc = "reuse"])
       \/ Faults /\ To(r, Failed(r))
    /\ UNCHANGED <<caller, provider, rows, calls, answered, crashes>>

\* Rows whose answer may stand in for that of r.
Reusable_Any(r) == {o \in Id \ {r} : rows[o].status = "success" /\ Key(rows[o]) = Key(rows[r])}
Reusable(r) == {o \in Id \ {r} : /\ rows[o].status = "success"
                                 /\ Key(rows[o]) = Key(rows[r])
                                 /\ rows[o].mode # "validation_fallback"}

\* The latest of them is taken over; which one does not matter to the key.
Reuse(r) ==
    /\ Goes(r, "reuse")
    /\ \/ \E o \in Reusable(r) :
            To(r, [job[r] EXCEPT !.pc = "finish", !.ok = TRUE, !.mode = "cache", !.from = o])
       \/ Reusable(r) = {} /\ To(r, [job[r] EXCEPT !.pc = "call"])
       \/ Faults /\ To(r, Failed(r))
    /\ UNCHANGED <<caller, provider, rows, calls, answered, crashes>>

Answer == {"valid", "invalid", "no_response_format", "transient", "fatal"}

\* requestAICompletionWithRetryLimit, one attempt of it: what the goroutine
\* does with an answer when `limit` attempts are allowed.
AfterAttempt(j, answer, limit) ==
    LET n == j.tries + 1
        next == [j EXCEPT !.tries = n]
        failed == [next EXCEPT !.pc = "finish", !.ok = FALSE]
        plain == [next EXCEPT !.structured = FALSE, !.mode = "prompt_json"]
    IN CASE answer = "valid" -> [next EXCEPT !.pc = "finish", !.ok = TRUE]
         [] answer = "invalid" /\ j.pc = "call" -> [next EXCEPT !.pc = "repair"]
         [] answer = "invalid" /\ j.pc = "repair" ->
              [next EXCEPT !.pc = "finish", !.ok = TRUE, !.mode = "validation_fallback"]
         [] answer = "no_response_format" /\ j.structured ->
              IF n >= limit THEN [plain EXCEPT !.pc = "finish", !.ok = FALSE] ELSE plain
         [] answer = "transient" -> IF n >= limit THEN failed ELSE next
         [] OTHER -> failed

\* The single repair is a request of its own, without retries.
Limit_Again(j) == IF j.pc = "call" THEN MaxAttempts ELSE 2 * MaxAttempts
Limit(j) == IF j.pc = "call" THEN MaxAttempts ELSE j.tries + 1

\* One HTTP request to the provider as it was looked up by Prepare: its model may no
\* longer be the one in the row.
Request(r) ==
    /\ r \in Id /\ job[r].pc \in {"call", "repair"}
    /\ \E answer \in Answer :
         /\ To(r, AfterAttempt(job[r], answer, Limit(job[r])))
         /\ answered' = IF answer = "valid" THEN answered \cup {<<About(rows[r]), job[r].model>>}
                       ELSE answered
    /\ calls' = [calls EXCEPT ![r] = @ + 1]
    /\ UNCHANGED <<caller, provider, rows, crashes>>

\* finishAIAnalysis; if its update fails the row stays "running" and nobody is
\* told, otherwise the messages that follow name the row and its status.
Finish(r) ==
    /\ Goes(r, "finish")
    /\ \/ /\ rows' = [rows EXCEPT ![r] =
               [@ EXCEPT !.status = IF job[r].ok THEN "success" ELSE "failed",
                         !.mode = job[r].mode, !.attempts = job[r].tries,
                         !.from = job[r].from]]
       \/ Faults /\ UNCHANGED rows
    /\ To(r, Ended)
    /\ UNCHANGED <<caller, provider, calls, answered, crashes>>

\* The process dies: goroutines and requests are gone, and nothing at startup
\* looks at the rows.
Crash ==
    /\ crashes < MaxCrashes
    /\ crashes' = crashes + 1
    /\ caller' = [c \in Caller |-> Idle]
    /\ job' = [r \in Id |-> Ended]
    /\ UNCHANGED <<provider, rows, calls, answered>>

Work(r) == \/ Claim(r) \/ Prepare(r) \/ Enrich(r) \/ SavePrompts(r) \/ Reuse(r)
           \/ Request(r) \/ Finish(r)

Next == \/ \E c \in Caller : Ask(c) \/ Enqueue(c)
        \/ SaveProviders \/ Crash
        \/ \E r \in Id : Work(r)

\* Goroutines are scheduled, and every request has a timeout.
Fairness == \A r \in 1..MaxRows : WF_vars(r \in Id /\ Work(r))
Steps == Init /\ [][Next]_vars
Spec == Steps /\ Fairness

(***************************************************************************)
(* Properties                                                              *)
(***************************************************************************)
Status == {"queued", "running", "success", "failed"}
Modes == {"json_object", "prompt_json", "cache", "validation_fallback"}

\* The variables have their types and a goroutine's position fits its row.
TypeOK ==
    /\ provider \in Model \cup {Off}
    /\ Len(job) = Len(rows) /\ Len(calls) = Len(rows) /\ Len(rows) <= MaxRows
    /\ \A r \in Id :
         /\ rows[r].status \in Status /\ rows[r].mode \in Modes
         /\ job[r].pc \in {"prepare", "enrich", "save", "reuse", "call", "repair", "finish"}
              => rows[r].status = "running"

\* queueMu: a subject is never analysed twice at the same time, whichever
\* requests, restarts and failing statements lie between.
OneActive == \A i, j \in Id : i # j /\ Active(i) /\ Active(j) => rows[i].subject # rows[j].subject

\* A research judgement that is shown, reused ones included, goes back to an
\* answer that passed validation for exactly these facts, if perhaps of another model
\* than the row names; the safe fallback is never passed on.
JudgementIsGenuine ==
    \A r \in Id : /\ rows[r].status = "success"
                  /\ rows[r].mode # "validation_fallback"
                  => \E a \in answered : a[1] = About(rows[r])

\* A row costs at most MaxAttempts + 1 requests, and says how many it cost.
CallsBounded ==
    \A r \in Id : /\ calls[r] <= MaxAttempts + 1
                  /\ rows[r].status \in {"success", "failed"} => rows[r].attempts = calls[r]

\* Without a restart and with working statements, every queued analysis ends.
Settles == \A r \in 1..MaxRows : (r \in Id /\ Active(r)) ~> (r \in Id /\ ~Active(r))
=============================================================================
