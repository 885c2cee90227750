\* Two writers, which may use transactions of their own, and two requests.
SPECIFICATION Spec
CONSTANTS
    Reader = {r1, r2}
    Writer = {w1, w2}
    Lifetime = 2
    MaxWrites = 3
INVARIANT SeesEarlierWrites
\* The bounded writers stop.
CHECK_DEADLOCK FALSE
