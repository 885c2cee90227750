-------------------------- MODULE MCTaskScheduler --------------------------
(* Instances of TaskScheduler for TLC.                                     *)
EXTENDS TaskScheduler, TLC

CONSTANTS filing, ipo, discovery, c1, c2, tick1, tick2

\* Goroutines of a kind are interchangeable: no action or property names one.
GoroutineSymmetry == Permutations(Caller) \cup Permutations(Ticker)

\* So are tasks of the same kind.
TaskSymmetry == Permutations(SECTask)
=============================================================================
