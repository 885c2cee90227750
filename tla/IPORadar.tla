------------------------------ MODULE IPORadar ------------------------------
(***************************************************************************)
(* The IPO radar (service/ipo_radar.go, ipo_longbridge_listing.go,         *)
(* ipo_longbridge_calendar.go) for one issuer: its stored filings, the     *)
(* row of market data that SEC's mapping, Longbridge, its IPO calendar     *)
(* and the offerings found in 424B4 documents all write, and what is told  *)
(* about them.  The scheduler's SEC tasks exclude each other; the task     *)
(* that asks Longbridge and an operator's refresh run beside them.  A row  *)
(* is read, changed and saved as a whole, and another job may have changed *)
(* it in between.  Any job may end at any point.                           *)
(***************************************************************************)
EXTENDS Naturals, Sequences, FiniteSets, FiniteSetsExt

CONSTANTS
    Form,        \* the issuer's filings, in the order SEC accepts them
    Document,    \* of each 424B4: the terms offered, and whether of a follow-on
    Runner,      \* "scheduler", "listings", "request"
    Ticker,      \* the tickers SEC and the calendar give the issuer
    None,
    MaxStarts, MaxChanges, MaxStops  \* bounds: jobs, changes outside, jobs that end early

Filing == 1 .. Len(Form)
Registration == {f \in Filing : Form[f] = "registration"}
Offering == {f \in Filing : Form[f] = "priced"}

VARIABLES
    published,   \* number of filings SEC has accepted
    listing,     \* the issuer in SEC's file of listed companies: ticker and exchange
    stored,      \* ipo_filings
    event,       \* ipo_offering_events of the current parser version
    row,         \* the issuer in ipo_company_market_data
    follow,      \* its row in ipo_company_follows, id 0 for none
    withdrawn,   \* an operator's override of the status
    run,         \* per runner: the job under way and its locals
    told,        \* announcements of filings and of offerings handed to the queue
    heard,       \* progress handed over or taken as the baseline of a follower
    evidence,    \* <<ticker, exchange>> as somebody confirmed them
    starts, changes, stops
vars == <<published, listing, stored, event, row, follow, withdrawn, run, told, heard,
          evidence, starts, changes, stops>>
world == <<published, listing, withdrawn, follow, changes>>

Idle == [left |-> << >>]
NoRow == [exists |-> FALSE, ticker |-> None, source |-> None, exchange |-> None, listedBy |-> None,
          verified |-> FALSE, checked |-> FALSE, swept |-> FALSE, offer |-> 0]
NoEvent == [status |-> None, type |-> None, recent |-> FALSE]

Init ==
    /\ published = 1 /\ listing = [ticker |-> None, exchange |-> None]
    /\ stored = {} /\ event = [f \in Offering |-> NoEvent] /\ row = NoRow
    /\ follow = [id |-> 0, key |-> None] /\ withdrawn = FALSE
    /\ run = [r \in Runner |-> Idle]
    /\ told = [f \in Filing |-> [filing |-> 0, offer |-> 0]] /\ heard = {} /\ evidence = {}
    /\ starts = 0 /\ changes = 0 /\ stops = 0

-----------------------------------------------------------------------------
(* What is read from the tables                                            *)

Tracked == stored \cap Registration # {}

\* inferIPOCompanyStatus, without the filings of months ago.
Inferred ==
    CASE \E f \in stored : Form[f] = "withdrawal" -> "withdrawn"
      [] row.ticker # None /\ row.exchange # None /\ row.verified -> "listed"
      [] row.ticker # None /\ row.exchange = None -> "listing_pending"
      [] \E f \in stored : Form[f] = "priced" -> "priced"
      [] \E f \in stored : Form[f] = "effect" -> "effective"
      [] OTHER -> "new"

\* An operator's override comes first.
Status == IF withdrawn THEN "withdrawn" ELSE Inferred
Active == Status \in {"new", "effective", "priced", "listing_pending"}

\* ipoCompanyProgressKey
ProgressKey == [latest |-> Max(stored), status |-> Status, ticker |-> row.ticker,
                exchange |-> row.exchange, offer |-> row.offer]

\* 424B4 filings without an event, and failed ones not tried for a day.
Pending ==
    {f \in stored \cap Offering : Tracked /\ (\/ event[f].status = None
                                              \/ event[f].status = "unsupported" /\ ~ event[f].recent)}

-----------------------------------------------------------------------------
(* Jobs                                                                    *)

Stages(job) ==
    CASE job = "scan"      -> <<"mapping", "feed", "deliver", "progress">>
      [] job = "refresh"   -> <<"mapping", "confirm", "feed", "sweep", "deliver", "calendar",
                                "offerings", "progress">>
      [] job = "lifecycle" -> <<"sweep">>
      [] job = "offerings" -> <<"offerings">>
      [] job = "listings"  -> <<"confirm", "calendar">>

Jobs(r) == CASE r = "scheduler" -> {"scan", "lifecycle", "offerings"}
             [] r = "listings"  -> {"listings"}
             [] r = "request"   -> {"refresh"}

Start(r, job) ==
    /\ run[r] = Idle /\ starts < MaxStarts
    /\ run' = [run EXCEPT ![r] =
                 [left |-> Stages(job), at |-> "begin", seen |-> NoRow, entry |-> listing,
                  confirmed |-> FALSE, baseline |-> FALSE, known |-> FALSE, backfilled |-> FALSE,
                  todo |-> {}, new |-> {}, loud |-> {}, offers |-> {}, key |-> None, id |-> 0]]
    /\ starts' = starts + 1
    /\ UNCHANGED <<world, stored, event, row, told, heard, evidence, stops>>

In(r, stage, at) == run[r].left # << >> /\ Head(run[r].left) = stage /\ run[r].at = at
Go(l, at) == [l EXCEPT !.at = at]
Done(l) == IF Len(l.left) = 1 THEN Idle ELSE Go([l EXCEPT !.left = Tail(@)], "begin")
Set(r, l) == run' = [run EXCEPT ![r] = l]

\* The whole row is written; as an INSERT when it was not there to be read.
Save(r, new) == IF row.exists /\ ~ run[r].seen.exists THEN row ELSE [new EXCEPT !.exists = TRUE]
Saves(r) == row.exists => run[r].seen.exists

-----------------------------------------------------------------------------
(* SEC's file of listed companies                                          *)

\* A slip: any confirmation by Longbridge is kept.
Mapped_AnyTicker(old, entry) ==
    IF entry.exchange # None
      THEN [old EXCEPT !.ticker = entry.ticker, !.source = "sec", !.exchange = entry.exchange,
                       !.listedBy = "sec", !.verified = TRUE]
    ELSE IF old.listedBy = "longbridge" /\ old.verified
      THEN [old EXCEPT !.ticker = entry.ticker, !.source = "sec"]
    ELSE [old EXCEPT !.ticker = entry.ticker, !.source = "sec", !.exchange = None,
                     !.listedBy = None, !.verified = FALSE, !.checked = FALSE]

\* A row as SEC's entry leaves it: an entry without an exchange takes back every
\* confirmation but Longbridge's of the same ticker.
Mapped(old, entry) ==
    LET same == [old EXCEPT !.ticker = entry.ticker, !.source = "sec"]
    IN  IF entry.exchange # None
          THEN [same EXCEPT !.exchange = entry.exchange, !.listedBy = "sec", !.verified = TRUE]
        ELSE IF old.ticker = entry.ticker /\ old.listedBy = "longbridge" /\ old.verified
          THEN same
        ELSE [same EXCEPT !.exchange = None, !.listedBy = None, !.verified = FALSE, !.checked = FALSE]

Cleared == [row EXCEPT !.ticker = None, !.source = None, !.exchange = None, !.listedBy = None,
                       !.verified = FALSE, !.checked = FALSE]

\* The file is fetched, and the row read; or the request fails, which is a warning.
ReadMapping(r) ==
    /\ In(r, "mapping", "begin")
    /\ \/ Set(r, Done(run[r]))
       \/ LET l == [run[r] EXCEPT !.seen = row, !.entry = listing,
                         !.confirmed = listing.ticker # None /\ listing.exchange # None]
          IN  Set(r, IF Tracked THEN Go(l, "save") ELSE Done(l))
    /\ UNCHANGED <<world, stored, event, row, told, heard, evidence, starts, stops>>

SaveMapping(r) ==
    /\ In(r, "mapping", "save")
    /\ LET l == run[r]
           old == l.seen
       IN  IF l.entry.ticker # None
             THEN /\ row' = Save(r, Mapped(old, l.entry))
                  /\ evidence' = IF l.entry.exchange = None THEN evidence
                                 ELSE evidence \cup {<<l.entry.ticker, l.entry.exchange>>}
                  /\ Set(r, Done([l EXCEPT !.confirmed = @ /\ Saves(r)]))
             ELSE /\ row' = IF "calendar" \in {old.source, old.listedBy} \/ ~ row.exists THEN row
                            ELSE Cleared
                  /\ Set(r, Done(l)) /\ UNCHANGED evidence
    /\ UNCHANGED <<world, stored, event, told, heard, starts, stops>>

-----------------------------------------------------------------------------
(* Longbridge: the profile of a company with a ticker and no exchange      *)

LoadCandidate(r) ==
    /\ In(r, "confirm", "begin")
    /\ IF row.ticker # None /\ row.exchange = None /\ ~ row.checked /\ stored # {}
         THEN Set(r, [Go(run[r], "asked") EXCEPT !.seen = row])
         ELSE Set(r, Done(run[r]))
    /\ UNCHANGED <<world, stored, event, row, told, heard, evidence, starts, stops>>

\* The confirmation saves the row as it was loaded.
Confirm(r) ==
    /\ In(r, "confirm", "asked")
    /\ row' = [run[r].seen EXCEPT !.exchange = "market", !.listedBy = "longbridge",
                                  !.verified = TRUE, !.checked = TRUE]
    /\ evidence' = evidence \cup {<<run[r].seen.ticker, "market">>}
    /\ Set(r, Done([run[r] EXCEPT !.confirmed = TRUE]))
    /\ UNCHANGED <<world, stored, event, told, heard, starts, stops>>

\* No data, or no answer: only the columns of the check are written.
Miss(r) ==
    /\ In(r, "confirm", "asked")
    /\ row' = [row EXCEPT !.checked = TRUE]
    /\ Set(r, Done(run[r]))
    /\ UNCHANGED <<world, stored, event, told, heard, evidence, starts, stops>>

(* The IPO calendar: SEC's mapping and a confirmed listing come first.     *)

ReadCalendar(r, ticker) ==
    /\ In(r, "calendar", "begin")
    /\ IF ticker = None \/ ~ Tracked \/ row.source = "sec" \/ row.verified
         THEN Set(r, Done(run[r]))
         ELSE Set(r, [Go(run[r], "save") EXCEPT !.seen = row, !.entry.ticker = ticker])
    /\ UNCHANGED <<world, stored, event, row, told, heard, evidence, starts, stops>>

SaveCalendar(r) ==
    /\ In(r, "calendar", "save")
    /\ row' = Save(r, [run[r].seen EXCEPT !.ticker = run[r].entry.ticker, !.source = "calendar",
                                          !.listedBy = "calendar"])
    /\ Set(r, Done(run[r]))
    /\ UNCHANGED <<world, stored, event, told, heard, evidence, starts, stops>>

-----------------------------------------------------------------------------
(* Filings                                                                 *)

\* The first scan of an empty table is the baseline, read before the feed is.  The table
\* has the filings of all issuers: when this one has none, it may be empty or not.
ReadFeed(r) ==
    /\ In(r, "feed", "begin")
    /\ \E empty \in BOOLEAN :
         /\ empty => stored = {}
         /\ Set(r, [Go(run[r], "store") EXCEPT !.baseline = empty, !.known = Tracked,
                                               !.todo = 1 .. published])
    /\ UNCHANGED <<world, stored, event, row, told, heard, evidence, starts, stops>>

\* Of what the feed lists, a registration of an issuer SEC or Longbridge has just
\* confirmed is left out, and other forms of an issuer without a registration.
Wanted(l, f) == IF f \in Registration THEN ~ l.confirmed ELSE l.known

\* A slip: every listed filing is a candidate.
Created_Listed(f) == TRUE

\* createIfNew: the unique key decides who stored it.
Created(f) == f \notin stored

StoreFiling(r, f) ==
    /\ In(r, "feed", "store")
    /\ LET l == run[r]
           rest == [l EXCEPT !.todo = @ \ {f}]
       IN  /\ f \in l.todo
           /\ IF ~ Wanted(l, f) THEN Set(r, rest) /\ UNCHANGED stored
              ELSE /\ stored' = stored \cup {f}
                   /\ Set(r, [rest EXCEPT
                        !.new = IF Created(f) THEN @ \cup {f} ELSE @,
                        !.loud = IF Created(f) /\ ~ l.confirmed /\ ~ l.baseline THEN @ \cup {f} ELSE @,
                        !.known = @ \/ ~ l.confirmed,
                        !.at = IF l.confirmed \/ l.backfilled THEN @ ELSE "history"])
    /\ UNCHANGED <<world, event, row, told, heard, evidence, starts, stops>>

\* The issuer's whole history is stored, quietly; once in a scan.
Backfill(r) ==
    /\ In(r, "feed", "history")
    /\ stored' = 1 .. published
    /\ Set(r, [Go(run[r], "store") EXCEPT !.new = @ \cup (stored' \ stored), !.backfilled = TRUE])
    /\ UNCHANGED <<world, event, row, told, heard, evidence, starts, stops>>

FeedDone(r) ==
    /\ In(r, "feed", "store") /\ run[r].todo = {}
    /\ Set(r, Done(run[r]))
    /\ UNCHANGED <<world, stored, event, row, told, heard, evidence, starts, stops>>

\* An active issuer whose history was not read for a while, or just now.
Sweep(r) ==
    /\ In(r, "sweep", "begin")
    /\ IF Tracked /\ Active /\ ~ row.swept /\ ~ run[r].backfilled
         THEN Set(r, Go(run[r], "history"))
         ELSE Set(r, Done(run[r]))
    /\ UNCHANGED <<world, stored, event, row, told, heard, evidence, starts, stops>>

SweepHistory(r) ==
    /\ In(r, "sweep", "history")
    /\ stored' = 1 .. published
    /\ row' = [row EXCEPT !.exists = TRUE, !.swept = TRUE]
    /\ Set(r, Done([run[r] EXCEPT !.new = @ \cup (stored' \ stored)]))
    /\ UNCHANGED <<world, event, told, heard, evidence, starts, stops>>

Deliver(r) ==
    /\ In(r, "deliver", "begin")
    /\ told' = [f \in Filing |-> IF f \in run[r].loud THEN [told[f] EXCEPT !.filing = @ + 1]
                                                      ELSE told[f]]
    /\ Set(r, Done(run[r]))
    /\ UNCHANGED <<world, stored, event, row, heard, evidence, starts, stops>>

-----------------------------------------------------------------------------
(* Offerings                                                               *)

LoadPending(r) ==
    /\ In(r, "offerings", "begin")
    /\ Set(r, [Go(run[r], "parse") EXCEPT !.todo = Pending])
    /\ UNCHANGED <<world, stored, event, row, told, heard, evidence, starts, stops>>

\* The document is not there, or not understood.
Unsupported(r) ==
    /\ In(r, "offerings", "parse") /\ run[r].todo # {}
    /\ LET f == Min(run[r].todo)
       IN  /\ event' = [event EXCEPT ![f] = [status |-> "unsupported", type |-> None, recent |-> TRUE]]
           /\ Set(r, [run[r] EXCEPT !.todo = @ \ {f}])
    /\ UNCHANGED <<world, stored, row, told, heard, evidence, starts, stops>>

\* A slip: only an offering of the same terms counts as an earlier one.
Earlier_SameTerms(f) ==
    {g \in Offering \ {f} : event[g].type \in {"initial", "correction"}
                            /\ Document[g].terms = Document[f].terms}

Earlier(f) == {g \in Offering \ {f} : event[g].type \in {"initial", "correction"}}

\* The newest earlier offering decides what this one is.
OfferingType(f) ==
    CASE Earlier(f) = {} -> "initial"
      [] Document[f].followOn -> "follow_on"
      [] Document[Max(Earlier(f))].terms = Document[f].terms -> "duplicate"
      [] OTHER -> "correction"
Summarised == {"initial", "correction"}

\* One transaction: an event of the current parser version is left as it is.
RecordOffering(r) ==
    /\ In(r, "offerings", "parse") /\ run[r].todo # {}
    /\ LET f == Min(run[r].todo)
       IN  IF event[f].status = None
             THEN /\ event' = [event EXCEPT ![f] = [status |-> "parsed", type |-> OfferingType(f),
                                                    recent |-> FALSE]]
                  /\ Set(r, IF OfferingType(f) \in Summarised
                              THEN [Go(run[r], "price") EXCEPT !.id = f]
                              ELSE [run[r] EXCEPT !.todo = @ \ {f}])
             ELSE Set(r, [run[r] EXCEPT !.todo = @ \ {f}]) /\ UNCHANGED event
    /\ UNCHANGED <<world, stored, row, told, heard, evidence, starts, stops>>

ReadPrice(r) ==
    /\ In(r, "offerings", "price")
    /\ Set(r, [Go(run[r], "save") EXCEPT !.seen = row])
    /\ UNCHANGED <<world, stored, event, row, told, heard, evidence, starts, stops>>

\* Only a refresh knows which filings are new to it.
SavePrice(r) ==
    /\ In(r, "offerings", "save")
    /\ LET l == run[r]
           f == l.id
       IN  /\ row' = Save(r, [l.seen EXCEPT !.offer = f])
           /\ Set(r, [Go(l, "parse") EXCEPT
                !.todo = @ \ {f}, !.id = 0,
                !.offers = IF Saves(r) /\ f \in l.new /\ ~ l.baseline THEN @ \cup {f} ELSE @])
    /\ UNCHANGED <<world, stored, event, told, heard, evidence, starts, stops>>

DeliverOffers(r) ==
    /\ In(r, "offerings", "parse") /\ run[r].todo = {}
    /\ told' = [f \in Filing |-> IF f \in run[r].offers THEN [told[f] EXCEPT !.offer = @ + 1]
                                                        ELSE told[f]]
    /\ Set(r, Done(run[r]))
    /\ UNCHANGED <<world, stored, event, row, heard, evidence, starts, stops>>

-----------------------------------------------------------------------------
(* Followed companies                                                      *)

\* A slip: the progress is recorded before it is handed over.
Report_Early(r) ==
    /\ In(r, "progress", "begin")
    /\ IF follow.id # 0 /\ Tracked /\ ProgressKey # follow.key
         THEN /\ follow' = [follow EXCEPT !.key = ProgressKey]
              /\ Set(r, [Go(run[r], "record") EXCEPT !.key = ProgressKey, !.id = follow.id])
         ELSE Set(r, Done(run[r])) /\ UNCHANGED follow
    /\ UNCHANGED <<published, listing, withdrawn, changes, stored, event, row, told, heard,
                   evidence, starts, stops>>

\* The change is handed over first.
Report(r) ==
    /\ In(r, "progress", "begin")
    /\ IF follow.id # 0 /\ Tracked /\ ProgressKey # follow.key
         THEN /\ heard' = heard \cup {ProgressKey}
              /\ Set(r, [Go(run[r], "record") EXCEPT !.key = ProgressKey, !.id = follow.id])
         ELSE Set(r, Done(run[r])) /\ UNCHANGED heard
    /\ UNCHANGED <<world, stored, event, row, told, evidence, starts, stops>>

RecordProgress(r) ==
    /\ In(r, "progress", "record")
    /\ follow' = IF follow.id = run[r].id THEN [follow EXCEPT !.key = run[r].key] ELSE follow
    /\ Set(r, Done(run[r]))
    /\ UNCHANGED <<published, listing, withdrawn, changes, stored, event, row, told, heard,
                   evidence, starts, stops>>

\* The present state is the baseline of a new follower.
SetCompanyFollow ==
    /\ changes < MaxChanges /\ changes' = changes + 1
    /\ IF follow.id = 0
         THEN /\ Tracked
              /\ follow' = [id |-> changes + 1, key |-> ProgressKey]
              /\ heard' = heard \cup {ProgressKey}
         ELSE follow' = [id |-> 0, key |-> None] /\ UNCHANGED heard
    /\ UNCHANGED <<published, listing, withdrawn, stored, event, row, run, told, evidence, starts,
                   stops>>

-----------------------------------------------------------------------------
(* The world                                                               *)

Publish ==
    /\ published < Len(Form)
    /\ published' = published + 1
    /\ UNCHANGED <<listing, stored, event, row, follow, withdrawn, run, told, heard, evidence,
                   starts, changes, stops>>

\* SEC changes the issuer's entry.
Relist ==
    /\ changes < MaxChanges /\ changes' = changes + 1
    /\ listing' \in [ticker : Ticker, exchange : {None, "exchange"}]
                    \cup {[ticker |-> None, exchange |-> None]}
    /\ UNCHANGED <<published, stored, event, row, follow, withdrawn, run, told, heard, evidence,
                   starts, stops>>

UpsertCompanyOverride ==
    /\ changes < MaxChanges /\ changes' = changes + 1
    /\ Tracked /\ withdrawn' = ~ withdrawn
    /\ UNCHANGED <<published, listing, stored, event, row, follow, run, told, heard, evidence,
                   starts, stops>>

\* The windows after which Longbridge, SEC's history and a document are asked again.
Elapse ==
    /\ row' = [row EXCEPT !.checked = FALSE, !.swept = FALSE]
    /\ event' = [f \in Offering |-> [event[f] EXCEPT !.recent = FALSE]]
    /\ <<row', event'>> # <<row, event>>
    /\ UNCHANGED <<world, stored, run, told, heard, evidence, starts, stops>>

\* A job ends: a request or a statement fails, its context is over, the process dies.
Stop(r) ==
    /\ run[r] # Idle /\ stops < MaxStops
    /\ stops' = stops + 1
    /\ Set(r, Idle)
    /\ UNCHANGED <<world, stored, event, row, told, heard, evidence, starts>>

Next ==
    \/ \E r \in Runner :
         \/ \E job \in Jobs(r) : Start(r, job)
         \/ ReadMapping(r) \/ SaveMapping(r)
         \/ LoadCandidate(r) \/ Confirm(r) \/ Miss(r)
         \/ \E t \in Ticker \cup {None} : ReadCalendar(r, t)
         \/ SaveCalendar(r)
         \/ ReadFeed(r) \/ \E f \in Filing : StoreFiling(r, f)
         \/ Backfill(r) \/ FeedDone(r) \/ Sweep(r) \/ SweepHistory(r) \/ Deliver(r)
         \/ LoadPending(r) \/ Unsupported(r) \/ RecordOffering(r) \/ ReadPrice(r) \/ SavePrice(r)
         \/ DeliverOffers(r) \/ Report(r) \/ RecordProgress(r) \/ Stop(r)
    \/ SetCompanyFollow \/ Publish \/ Relist \/ UpsertCompanyOverride \/ Elapse

Spec == Init /\ [][Next]_vars

-----------------------------------------------------------------------------
(* Properties                                                              *)

TypeOK ==
    /\ stored \subseteq 1 .. published
    /\ row.verified <=> row.exchange # None
    /\ row.verified => row.ticker # None /\ row.listedBy \in {"sec", "longbridge"}
    /\ row # NoRow => row.exists
    /\ \A f \in Offering : event[f].status = "parsed" <=> event[f].type # None

\* An issuer is shown as listed only under a ticker that SEC or Longbridge confirmed
\* with that market, however the jobs overwrite each other's rows.
ListedOnEvidence == row.verified => <<row.ticker, row.exchange>> \in evidence

\* A filing is announced at most once, by whoever stored it, and so are its terms.
ToldOnce == \A f \in Filing : told[f].filing <= 1 /\ told[f].offer <= 1

\* Of an issuer's offerings at most one counts as the initial one.
OneInitial == Cardinality({f \in Offering : event[f].type = "initial"}) <= 1

\* What a follower's row records as told was handed over or the state at the start,
\* also when a job ends between the two.
ProgressTold == follow.id # 0 => follow.key \in heard
=============================================================================
