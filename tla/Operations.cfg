\* The operating side, component by component, under faults and crashes.
SPECIFICATION Operations
CONSTANTS
    Task = {sync}
    Expr = {hourly}
    Editor = {e1, e2}
    Finisher = {run1}
    Instance = {i1, i2, i3, i4}
    MaxJobs = 1
    Target = {1, 2}
    Runner = {alerts1, alerts2}
    MaxPerRun = 1
    MaxDate = 2
    target2 = 2
    alerts2 = alerts2
    MainRow = {m1, m2}
    DiscoveryRow = {d1}
    MaxBatches = 2
    MaxRuns = 2
    Stages <- TwoStages
    Narrowed = {"insiders"}
    Chunks = 2
    MaxEdition = 2
    MaxLosses = 2
    Security = {1, 2}
    Candidate = {2}
    MaxDrop = 0
    MinCoverage = 1
    RepairAge = 2
    MaxDay = 3
    MaxStarts = 3
    MaxFaults = 1
    Issuer = {1, 2}
    Ticker = {1, 2, 3}
    NonCommon = {3}
    MaxChanges = 2
    MaxStops = 1
    batch2 = batch2
    pass2 = pass2
    Operation = {nightly, manual}
    MaxStamp = 3
    KeepPairs = 2
    Replica = TRUE
    FileFaults = TRUE
    BadCopies = TRUE
    MaxDeaths = 1
    None = None
    Event = {event1, event2}
    Batch = {batch1, batch2}
    Producer = {deliver1}
    Worker = {pass1, pass2}
    Operator = {operator1}
    Delays = 1
    MaxRequeues = 1
    MaxCleanups = 1
    MaxCrashes = 1
    Faults = TRUE
    LeaseExpiry = TRUE
INVARIANTS TypeOK FailedIsRetryable SentWasAccepted ItemsFollowBatch CronFollowsRows
PROPERTIES SettledStays RestorePointsKept AlertsTold CleanupKeeps BatchesKept
\* The bounded components run out of work.
CHECK_DEADLOCK FALSE
