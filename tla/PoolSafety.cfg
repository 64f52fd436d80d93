\* Two workers, two processes, every way a slice may end and every call that
\* may fail; three levels, so that dequeue and steal choose differently.
SPECIFICATION Spec
CONSTANTS
    Proc = {p1, p2}
    NoProc = NoProc
    Thread = {t1, t2}
    NoThread = NoThread
    NumWorkers = 2
    DefaultReductions = 2
    SpawnPriorities = {0, 2, 3}
    Outcomes = {"preempted", "off_end", "wait", "halt", "raise", "error", "not_found"}
    Failures = {"node_alloc", "worker_create"}
    SpawnWhileRunning = TRUE
SYMMETRY Symmetry
INVARIANTS TypeOK SingleOwner CountsAgree NothingLost SliceHasBudget StoppedMeansStopped
