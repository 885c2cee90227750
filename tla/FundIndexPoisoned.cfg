\* One filing, two funds, and SEC's temporary failures.
SPECIFICATION Spec
CONSTANTS
    s1 = s1
    s2 = s2
    Class = {1, 2}
    Sync = {s1, s2}
    Answer = {"ok", "503", "timeout", "404"}
    MaxRetries = 1
    TransientAfter = 1
    IncompleteAfter = 2
    MaxTime = 4
INVARIANT NotPoisoned
CHECK_DEADLOCK FALSE
