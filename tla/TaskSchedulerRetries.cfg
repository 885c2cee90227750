\* Safety: an SEC task with the manual-success cooldown and a discovery task
\* with a run log of its own; statements always succeed.
SPECIFICATION Spec
CONSTANTS
    filing = filing
    ipo = ipo
    discovery = discovery
    c1 = c1
    c2 = c2
    tick1 = tick1
    tick2 = tick2
    Task = {ipo, discovery}
    SECTask = {ipo}
    StandaloneTask = {discovery}
    CooldownTask = {ipo}
    Caller = {c1}
    Ticker = {tick1, tick2}
    Nobody = Nobody
    MaxTaskAutoRetries = 3
    RetryBatch = 2
    MaxCrashes = 1
    DBFaults = FALSE
SYMMETRY GoroutineSymmetry
INVARIANTS TypeOK SerialRetries RowsMatchRuns RetriesBounded NoLostRetry
PROPERTY BusyConsumesNoAttempt
