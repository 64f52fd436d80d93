\* Two workers, two processes that are preempted or run to HALT: what the pool
\* tests assert of the states after pool_stop.
SPECIFICATION Spec
CONSTANTS
    Proc = {p1, p2}
    NoProc = NoProc
    Thread = {t1, t2}
    NoThread = NoThread
    NumWorkers = 2
    DefaultReductions = 2
    SpawnPriorities = {2}
    Outcomes = {"preempted", "halt"}
    Failures = {}
    SpawnWhileRunning = FALSE
INVARIANTS DrainedPoolLeavesExited
