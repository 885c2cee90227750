\* A finishing run refreshes next_run_at from a row it read before the save.
SPECIFICATION Spec
CONSTANTS
    Task = {sync}
    Expr = {hourly}
    Never = Never
    Editor = {e1}
    Finisher = {run1}
    Instance = {i1, i2, i3}
    MaxJobs = 1
INVARIANT NoStaleNextRun
