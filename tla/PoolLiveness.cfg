\* Two workers and two processes that are preempted again and again or halt.
SPECIFICATION FairSpec
CONSTANTS
    Proc = {p1, p2}
    NoProc = NoProc
    Thread = {t1, t2}
    NoThread = NoThread
    NumWorkers = 2
    DefaultReductions = 2
    SpawnPriorities = {0, 2, 3}
    Outcomes = {"preempted", "halt", "not_found"}
    Failures = {}
    SpawnWhileRunning = TRUE
PROPERTIES LinkedEventuallyRuns StopReturns
