\* One target, its scheduled refreshes and failures of SEC in between.
SPECIFICATION SpecObserved
CONSTANTS
    f1 = f1
    scheduler = scheduler
    Target = {1}
    Filing = {f1}
    WithItems = {}
    Runner = {scheduler}
    Scheduled = scheduler
    Kinds = {"upstream"}
    Cooldown = 2
    RetryLimit = 1
    Retention = 3
    Edits = FALSE
    MaxTime = 4
    MaxRuns = 4
    MaxCrashes = 0
INVARIANT NothingMissed
CHECK_DEADLOCK FALSE
