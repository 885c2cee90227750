\* What comes in and what is asked of it, with two or three goroutines each.
SPECIFICATION Spec
CONSTANTS
    server = server
    cli = cli
    c1 = c1
    c2 = c2
    c3 = c3
    lock1 = lock1
    lock2 = lock2
    path = path
    score = score
    filing = filing
    facts = facts
    model1 = model1
    model2 = model2
    f1 = f1
    f2 = f2
    scheduler = scheduler
    manual = manual
    Nobody = Nobody
    Off = Off
    NoCoverage = NoCoverage
    Process = {server, cli}
    Client = {c1, c3}
    Home <- Homes
    Budgets = {0, 1}
    Intervals = {1, 2}
    DayLength = 2
    BudgetEnd = 2
    Deaths = 1
    Requester = {r1, r2}
    Interval = 2
    MaxDelay = 6
    PacerEnd = 11
    Refresher = {r1, r2}
    Content = {1, 2, NoCoverage}
    LastDay = 2
    Reader = {r1, r2}
    Writer = {w1, w2}
    Lifetime = 2
    MaxWrites = 2
    Class = {1, 2}
    Sync = {s1, s2}
    Reply = {"ok", "503", "timeout", "404"}
    MaxRetries = 1
    TransientAfter = 1
    IncompleteAfter = 2
    IndexEnd = 4
    Forms <- TwoOfferings
    Documents <- TheirTerms
    Ticker = {tickerA, tickerB}
    MaxJobs = 3
    MaxChanges = 1
    MaxBreaks = 1
INVARIANTS DownloadsKept SeesEarlierStatements AnalysisKept FilingsKept RadarKept
PROPERTIES BudgetKept CooldownKept SnapshotsKept
\* The bounded clocks and counters run out.
CHECK_DEADLOCK FALSE
