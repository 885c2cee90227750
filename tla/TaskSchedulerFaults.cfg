\* Cron or an HTTP request, and the retry scan, compete for two SEC tasks while
\* any statement may fail and the process may die.
SPECIFICATION Spec
CONSTANTS
    filing = filing
    ipo = ipo
    discovery = discovery
    c1 = c1
    c2 = c2
    tick1 = tick1
    tick2 = tick2
    Task = {filing, ipo}
    SECTask = {filing, ipo}
    StandaloneTask = {}
    CooldownTask = {}
    Caller = {c1}
    Ticker = {tick1}
    Nobody = Nobody
    MaxTaskAutoRetries = 1
    RetryBatch = 1
    MaxCrashes = 1
    DBFaults = TRUE
SYMMETRY TaskSymmetry
INVARIANTS RunsExclude LiveRunShown
PROPERTY RoundsKept
