---------------------------- MODULE SchedulerPool ----------------------------
(***************************************************************************)
(* The scheduler loop and the worker pool of                               *)
(* src/scheduler/beam_scheduler_loop.c on top of the shared run queue.     *)
(*                                                                         *)
(* One host thread creates processes, links them on the queue, starts,     *)
(* stops and destroys the pool.  Worker threads dequeue (or steal), mark   *)
(* the process RUNNING, execute a slice, look at the state the slice left  *)
(* and link the process again, or let go of it.  Every access to shared    *)
(* memory that is not under the queue's mutex is a step of its own.        *)
(*                                                                         *)
(* A slice (beam_emu_execute_code) is abstracted to its outcome: the state *)
(* it writes, the result it returns and the reductions it leaves.          *)
(***************************************************************************)
EXTENDS RunQueue

CONSTANTS
    Thread,       \* pthread ids the operating system may hand out
    NoThread,     \* an unset entry of pool->threads
    NumWorkers,   \* pool->num_workers
    DefaultReductions,  \* BEAM_DEFAULT_REDUCTIONS
    SpawnPriorities,    \* the levels the host links new processes on
    Outcomes,     \* the ways a slice of the loaded code may end
    Failures,     \* the calls that may fail: see MayFail
    SpawnWhileRunning   \* the host links processes while workers run

AllOutcomes == {"preempted", "off_end", "wait", "halt", "raise", "error",
                "not_found"}
Resumable == {"preempted", "off_end"}  \* the process has not ended
MayFail == {"node_alloc", "worker_create"}

ASSUME PoolAssumption ==
    /\ NoThread \notin Thread
    /\ NumWorkers \in Nat \ {0}
    /\ DefaultReductions \in Nat \ {0, 1}
    /\ SpawnPriorities \subseteq Priority
    /\ Outcomes \subseteq AllOutcomes
    /\ Failures \subseteq MayFail
    /\ SpawnWhileRunning \in BOOLEAN

VARIABLES
    reductions,  \* proc->reductions
    unspawned,   \* processes the host has not linked yet
    hostPc,      \* where the host thread is
    hostMark,    \* the process whose state the host is about to write
    slot,        \* the loop index i of pool_start and of pool_stop
    threads,     \* pool->threads
    running,     \* pool->running
    destroying,  \* pool_stop was called by pool_destroy
    pc,          \* where each worker thread is
    hold,        \* the process a worker has taken off the queue
    mark,        \* the process a worker has linked, its state not yet written
    res,         \* the result of the worker's last slice
    via,         \* the worker took its process by dequeue or by steal
    ended,       \* history: processes whose last slice ended them for good
    dropped,     \* history: processes lost because no node could be allocated
    startFailed  \* history: some pool_start returned an error

hostVars == <<unspawned, hostPc, hostMark, slot, threads, running, destroying>>
workVars == <<pc, hold, mark, res, via>>
histVars == <<ended, dropped, startFailed>>
procVars == <<procState, reductions>>
vars == <<rqVars, procVars, hostVars, workVars, histVars>>

Slot == 0 .. NumWorkers - 1
WorkerPc == {"off", "loop", "dequeue", "mark_running", "execute", "inspect",
             "enqueue", "mark_runnable", "steal", "sleep"}
HostPc == {"idle", "mark", "starting", "joining", "free", "gone"}
Results == {"OK", "ERROR", "NOT_FOUND"}

-----------------------------------------------------------------------------
\* beam_process_create for every process, beam_run_queue_create, pool_create.
Init ==
    /\ beam_run_queue_create
    /\ procState = [p \in Proc |-> "RUNNABLE"]
    /\ reductions = [p \in Proc |-> DefaultReductions]
    /\ unspawned = Proc
    /\ hostPc = "idle"
    /\ hostMark = NoProc
    /\ slot = 0
    /\ threads = [i \in Slot |-> NoThread]
    /\ running = FALSE
    /\ destroying = FALSE
    /\ pc = [t \in Thread |-> "off"]
    /\ hold = [t \in Thread |-> NoProc]
    /\ mark = [t \in Thread |-> NoProc]
    /\ res = [t \in Thread |-> "OK"]
    /\ via = [t \in Thread |-> "dequeue"]
    /\ ended = {}
    /\ dropped = {}
    /\ startFailed = FALSE

-----------------------------------------------------------------------------
(* The host thread. *)

\* beam_run_queue_enqueue called by the host, up to the unlock.
HostEnqueue(p, prio) ==
    /\ hostPc = "idle"
    /\ p \in unspawned
    /\ SpawnWhileRunning \/ ~running
    /\ beam_run_queue_enqueue(p, prio)
    /\ unspawned' = unspawned \ {p}
    /\ hostMark' = p
    /\ hostPc' = "mark"
    /\ UNCHANGED <<procVars, slot, threads, running, destroying, workVars,
                   histVars>>

\* beam_run_queue_enqueue called by the host, after the unlock.
HostMarkRunnable ==
    /\ hostPc = "mark"
    /\ beam_process_set_state(hostMark, "RUNNABLE")
    /\ hostMark' = NoProc
    /\ hostPc' = "idle"
    /\ UNCHANGED <<rqVars, reductions, unspawned, slot, threads, running,
                   destroying, workVars, histVars>>

\* beam_scheduler_pool_start, up to its loop.
PoolStart ==
    /\ hostPc = "idle"
    /\ ~running
    /\ running' = TRUE
    /\ hostPc' = "starting"
    /\ UNCHANGED <<rqVars, procVars, unspawned, hostMark, slot, threads, destroying,
                   workVars, histVars>>

\* One turn of the loop of pool_start: pthread_create succeeds.
CreateWorker(t) ==
    /\ hostPc = "starting"
    /\ slot < NumWorkers
    /\ pc[t] = "off"
    /\ threads' = [threads EXCEPT ![slot] = t]
    /\ pc' = [pc EXCEPT ![t] = "loop"]
    /\ slot' = slot + 1
    /\ UNCHANGED <<rqVars, procVars, unspawned, hostPc, hostMark, running,
                   destroying, hold, mark, res, via, histVars>>

\* The loop of pool_start: the argument or the thread cannot be created.  The
\* threads already created are neither stopped nor joined here.
CreateWorkerFails ==
    /\ hostPc = "starting"
    /\ slot < NumWorkers
    /\ "worker_create" \in Failures
    /\ running' = FALSE
    /\ hostPc' = "idle"
    /\ startFailed' = TRUE
    /\ slot' = 0
    /\ UNCHANGED <<rqVars, procVars, unspawned, hostMark, threads,
                   destroying, workVars, ended, dropped>>

\* pool_start returns BEAM_OK.
PoolStarted ==
    /\ hostPc = "starting"
    /\ slot = NumWorkers
    /\ hostPc' = "idle"
    /\ slot' = 0
    /\ UNCHANGED <<rqVars, procVars, unspawned, hostMark, threads,
                   running, destroying, workVars, histVars>>

\* beam_scheduler_pool_stop on a running pool, up to its joins.
PoolStop ==
    /\ hostPc = "idle"
    /\ running
    /\ running' = FALSE
    /\ hostPc' = "joining"
    /\ UNCHANGED <<rqVars, procVars, unspawned, hostMark, slot, threads, destroying,
                   workVars, histVars>>

\* Mutant of the next definition: the loop does not wait for the thread.
JoinWithoutWaiting ==
    /\ hostPc = "joining"
    /\ slot < NumWorkers
    /\ slot' = slot + 1
    /\ UNCHANGED <<rqVars, procVars, unspawned, hostPc, hostMark, threads,
                   running, destroying, workVars, histVars>>

\* One pthread_join of pool_stop returns.
JoinWorker ==
    /\ hostPc = "joining"
    /\ slot < NumWorkers
    /\ pc[threads[slot]] = "off"
    /\ slot' = slot + 1
    /\ UNCHANGED <<rqVars, procVars, unspawned, hostPc, hostMark, threads,
                   running, destroying, workVars, histVars>>

\* pool_stop returns, to the host or to pool_destroy.
PoolStopped ==
    /\ hostPc = "joining"
    /\ slot = NumWorkers
    /\ hostPc' = IF destroying THEN "free" ELSE "idle"
    /\ slot' = 0
    /\ UNCHANGED <<rqVars, procVars, unspawned, hostMark, threads,
                   running, destroying, workVars, histVars>>

\* beam_scheduler_pool_destroy: stop the pool if its flag is set.
PoolDestroy ==
    /\ hostPc = "idle"
    /\ destroying' = TRUE
    /\ running' = FALSE
    /\ hostPc' = IF running THEN "joining" ELSE "free"
    /\ UNCHANGED <<rqVars, procVars, unspawned, hostMark, slot, threads, workVars,
                   histVars>>

\* The frees of pool_destroy: schedulers, threads and the pool itself.
PoolFree ==
    /\ hostPc = "free"
    /\ hostPc' = "gone"
    /\ threads' = [i \in Slot |-> NoThread]
    /\ UNCHANGED <<rqVars, procVars, unspawned, hostMark, slot, running,
                   destroying, workVars, histVars>>

-----------------------------------------------------------------------------
(* A worker thread. *)

Goto(t, label) == pc' = [pc EXCEPT ![t] = label]

\* The locals of a call that returns are forgotten.
ForgetSlice(t) ==
    /\ res' = [res EXCEPT ![t] = "OK"]
    /\ via' = [via EXCEPT ![t] = "dequeue"]

\* Where the worker goes when it is done with a process: beam_scheduler_step
\* returns the result of the slice, and the thread tries to steal whenever
\* that result is NOT_FOUND, whoever produced it.
AfterSlice(t) ==
    IF via[t] = "dequeue" /\ res[t] = "NOT_FOUND" THEN "steal" ELSE "loop"

\* Mutant of the next definition: the flag is not looked at.
LoopForever(t) ==
    /\ pc[t] = "loop"
    /\ Goto(t, "dequeue")
    /\ UNCHANGED <<rqVars, procVars, hostVars, hold, mark, res, via, histVars>>

\* while (pool->running).  Once the pool is freed the read is undefined and
\* may yield either value; the other fields of the pool and its schedulers,
\* which a worker of a failed start still reads, are taken to keep their values.
WorkerLoop(t) ==
    /\ pc[t] = "loop"
    /\ \/ /\ running \/ hostPc = "gone"
          /\ Goto(t, "dequeue")
       \/ /\ ~running \/ hostPc = "gone"
          /\ Goto(t, "off")
    /\ UNCHANGED <<rqVars, procVars, hostVars, hold, mark, res, via, histVars>>

\* beam_scheduler_step takes a process off the queue.
WorkerDequeue(t) ==
    /\ pc[t] = "dequeue"
    /\ \E p \in Proc :
        /\ beam_run_queue_dequeue(p)
        /\ hold' = [hold EXCEPT ![t] = p]
    /\ via' = [via EXCEPT ![t] = "dequeue"]
    /\ Goto(t, "mark_running")
    /\ UNCHANGED <<procVars, hostVars, mark, res, histVars>>

\* beam_scheduler_step finds nothing and returns NOT_FOUND.
WorkerDequeueNothing(t) ==
    /\ pc[t] = "dequeue"
    /\ NothingQueued
    /\ Goto(t, "steal")
    /\ UNCHANGED <<rqVars, procVars, hostVars, hold, mark, res, via, histVars>>

\* The thread steals from the same, shared queue.
WorkerSteal(t) ==
    /\ pc[t] = "steal"
    /\ \E p \in Proc :
        /\ beam_run_queue_steal(p)
        /\ hold' = [hold EXCEPT ![t] = p]
    /\ via' = [via EXCEPT ![t] = "steal"]
    /\ Goto(t, "mark_running")
    /\ UNCHANGED <<procVars, hostVars, mark, res, histVars>>

\* Nothing to steal: nanosleep for a millisecond.
WorkerStealNothing(t) ==
    /\ pc[t] = "steal"
    /\ NothingQueued
    /\ Goto(t, "sleep")
    /\ UNCHANGED <<rqVars, procVars, hostVars, hold, mark, res, via, histVars>>

WorkerWakes(t) ==
    /\ pc[t] = "sleep"
    /\ Goto(t, "loop")
    /\ UNCHANGED <<rqVars, procVars, hostVars, hold, mark, res, via, histVars>>

\* The store that ends dequeue and steal, made after the unlock.
WorkerMarkRunning(t) ==
    /\ pc[t] = "mark_running"
    /\ beam_process_set_state(hold[t], "RUNNING")
    /\ Goto(t, "execute")
    /\ UNCHANGED <<rqVars, reductions, hostVars, hold, mark, res, via, histVars>>

\* What beam_emu_execute_code returns for each way a slice may end; HALT,
\* EXCEPTION, BADARG and NO_MEMORY are not told apart by the scheduler.
ResultOf(outcome) ==
    CASE outcome \in {"preempted", "off_end", "wait"} -> "OK"
      [] outcome \in {"halt", "raise", "error"}       -> "ERROR"
      [] outcome = "not_found"                        -> "NOT_FOUND"

\* Mutant of the next definition: WAIT suspends the process.
WaitSuspends(outcome, state) ==
    CASE outcome = "preempted"         -> "RUNNABLE"
      [] outcome = "wait"              -> "SUSPENDED"
      [] outcome \in {"halt", "raise"} -> "EXITED"
      [] OTHER                         -> state

\* The state the slice leaves, given the one the process has: running off the
\* end of the code and a failing instruction do not write it.
StateAfter(outcome, state) ==
    CASE outcome = "preempted"         -> "RUNNABLE"
      [] outcome = "wait"              -> "WAITING"
      [] outcome \in {"halt", "raise"} -> "EXITED"
      [] OTHER                         -> state

\* The reductions a slice may leave: every instruction takes one, and the
\* slice is preempted by the instruction that leaves none.  A process whose
\* saved ip is past the code ends its slice without taking any.
ReductionsAfter(outcome, budget) ==
    CASE outcome = "preempted" -> IF budget > 0 THEN {0} ELSE {budget - 1}
      [] outcome = "off_end"   -> {budget} \cup 1 .. budget - 1
      [] OTHER                 -> 1 .. budget - 1

\* Mutant of the next definition: a preempted slice leaves the state alone and
\* returns an error.
ExecuteLosesPreemption(t) ==
    /\ pc[t] = "execute"
    /\ \E outcome \in Outcomes :
        /\ procState' = [procState EXCEPT ![hold[t]] =
             IF outcome = "preempted" THEN @ ELSE StateAfter(outcome, @)]
        /\ \E r \in ReductionsAfter(outcome, reductions[hold[t]]) :
             reductions' = [reductions EXCEPT ![hold[t]] = r]
        /\ res' = [res EXCEPT ![t] =
             IF outcome = "preempted" THEN "ERROR" ELSE ResultOf(outcome)]
        /\ ended' = IF outcome \in Resumable THEN ended \ {hold[t]}
                                          ELSE ended \cup {hold[t]}
    /\ Goto(t, "inspect")
    /\ UNCHANGED <<rqVars, hostVars, hold, mark, via, dropped, startFailed>>

\* beam_emu_execute_code runs a slice of the process.
WorkerExecute(t) ==
    /\ pc[t] = "execute"
    /\ \E outcome \in Outcomes :
        /\ procState' = [procState EXCEPT ![hold[t]] = StateAfter(outcome, @)]
        /\ \E r \in ReductionsAfter(outcome, reductions[hold[t]]) :
             reductions' = [reductions EXCEPT ![hold[t]] = r]
        /\ res' = [res EXCEPT ![t] = ResultOf(outcome)]
        /\ ended' = IF outcome \in Resumable THEN ended \ {hold[t]}
                                          ELSE ended \cup {hold[t]}
    /\ Goto(t, "inspect")
    /\ UNCHANGED <<rqVars, hostVars, hold, mark, via, dropped, startFailed>>

\* The test that decides whether the process goes back on the queue.
MustRequeue(t) ==
    \/ procState[hold[t]] = "RUNNABLE"
    \/ res[t] = "OK" /\ procState[hold[t]] = "RUNNING"

\* Mutant of the next definition: the budget is not renewed.
RequeueWithoutBudget(t) ==
    /\ pc[t] = "inspect"
    /\ MustRequeue(t)
    /\ Goto(t, "enqueue")
    /\ UNCHANGED <<rqVars, procVars, hostVars, hold, mark, res, via, histVars>>

\* beam_process_get_state says requeue: the budget is renewed first.
WorkerRequeues(t) ==
    /\ pc[t] = "inspect"
    /\ MustRequeue(t)
    /\ reductions' = [reductions EXCEPT ![hold[t]] = DefaultReductions]
    /\ Goto(t, "enqueue")
    /\ UNCHANGED <<rqVars, procState, hostVars, hold, mark, res, via, histVars>>

\* Any other state: the worker lets go of the process.
WorkerReleases(t) ==
    /\ pc[t] = "inspect"
    /\ ~MustRequeue(t)
    /\ hold' = [hold EXCEPT ![t] = NoProc]
    /\ Goto(t, AfterSlice(t))
    /\ ForgetSlice(t)
    /\ UNCHANGED <<rqVars, procVars, hostVars, mark, histVars>>

\* beam_run_queue_enqueue up to the unlock, always on the NORMAL level.
WorkerEnqueue(t) ==
    /\ pc[t] = "enqueue"
    /\ beam_run_queue_enqueue(hold[t], BEAM_PRIO_NORMAL)
    /\ mark' = [mark EXCEPT ![t] = hold[t]]
    /\ hold' = [hold EXCEPT ![t] = NoProc]
    /\ Goto(t, "mark_runnable")
    /\ UNCHANGED <<procVars, hostVars, res, via, histVars>>

\* No node for the process: the error is ignored and the process is lost.
WorkerEnqueueFails(t) ==
    /\ pc[t] = "enqueue"
    /\ "node_alloc" \in Failures
    /\ dropped' = dropped \cup {hold[t]}
    /\ hold' = [hold EXCEPT ![t] = NoProc]
    /\ Goto(t, AfterSlice(t))
    /\ ForgetSlice(t)
    /\ UNCHANGED <<rqVars, procVars, hostVars, mark, ended, startFailed>>

\* The store that ends beam_run_queue_enqueue, made after the unlock.
WorkerMarkRunnable(t) ==
    /\ pc[t] = "mark_runnable"
    /\ beam_process_set_state(mark[t], "RUNNABLE")
    /\ mark' = [mark EXCEPT ![t] = NoProc]
    /\ Goto(t, AfterSlice(t))
    /\ ForgetSlice(t)
    /\ UNCHANGED <<rqVars, reductions, hostVars, hold, histVars>>

-----------------------------------------------------------------------------
Worker(t) ==
    \/ WorkerLoop(t) \/ WorkerDequeue(t) \/ WorkerDequeueNothing(t)
    \/ WorkerSteal(t) \/ WorkerStealNothing(t) \/ WorkerWakes(t)
    \/ WorkerMarkRunning(t) \/ WorkerExecute(t)
    \/ WorkerRequeues(t) \/ WorkerReleases(t)
    \/ WorkerEnqueue(t) \/ WorkerEnqueueFails(t) \/ WorkerMarkRunnable(t)

\* The host decides to make a call.
HostCalls ==
    \/ \E p \in Proc, prio \in SpawnPriorities : HostEnqueue(p, prio)
    \/ PoolStart \/ PoolStop \/ PoolDestroy

\* The host goes on with the call it is in.
HostContinues ==
    \/ HostMarkRunnable \/ PoolStarted \/ CreateWorkerFails
    \/ \E t \in Thread : CreateWorker(t)
    \/ JoinWorker \/ PoolStopped \/ PoolFree

\* The pool is destroyed and every thread has returned.
Finished ==
    /\ hostPc = "gone"
    /\ \A t \in Thread : pc[t] = "off"
    /\ UNCHANGED vars

Next == HostCalls \/ HostContinues \/ (\E t \in Thread : Worker(t)) \/ Finished

Spec == Init /\ [][Next]_vars

\* The operating system runs every thread that can run: workers always make
\* progress, and so does the host inside a call.  Nothing forces the host to
\* make a call.
FairSpec ==
    /\ Spec
    /\ WF_vars(HostContinues)
    /\ \A t \in Thread : WF_vars(Worker(t))

-----------------------------------------------------------------------------
TypeOK ==
    /\ queues \in [Priority -> Seq(Proc)]
    /\ total_count \in Nat
    /\ procState \in [Proc -> ProcState]
    /\ reductions \in [Proc -> Int]
    /\ unspawned \subseteq Proc
    /\ hostPc \in HostPc
    /\ hostMark \in Proc \cup {NoProc}
    /\ slot \in 0 .. NumWorkers
    /\ threads \in [Slot -> Thread \cup {NoThread}]
    /\ running \in BOOLEAN
    /\ destroying \in BOOLEAN
    /\ pc \in [Thread -> WorkerPc]
    /\ hold \in [Thread -> Proc \cup {NoProc}]
    /\ mark \in [Thread -> Proc \cup {NoProc}]
    /\ res \in [Thread -> Results]
    /\ via \in [Thread -> {"dequeue", "steal"}]
    /\ ended \subseteq Proc
    /\ dropped \subseteq Proc
    /\ startFailed \in BOOLEAN

Held(p) == \E t \in Thread : hold[t] = p

(***************************************************************************)
(* A process is in one place only: it is linked at most once on the four   *)
(* levels, a process taken by a worker is not linked, and no two workers   *)
(* ever hold (so execute) the same process, whatever dequeues, steals and  *)
(* late state writes interleave (beam_scheduler_loop.c:26-85).             *)
(***************************************************************************)
LinkedOnce ==
    \A a, b \in Priority :
        \A i \in 1 .. Len(queues[a]), j \in 1 .. Len(queues[b]) :
            queues[a][i] = queues[b][j] => a = b /\ i = j

HeldNotLinked ==
    \A t \in Thread, a \in Priority :
        \A i \in 1 .. Len(queues[a]) : queues[a][i] # hold[t]

HeldOnce ==
    \A t, u \in Thread : hold[t] = hold[u] /\ hold[t] # NoProc => t = u

SingleOwner == LinkedOnce /\ HeldNotLinked /\ HeldOnce

(***************************************************************************)
(* A process whose slice was preempted (or ran off the end of the code) is *)
(* never lost: it is linked or held until a slice of it ends for good,     *)
(* unless no node could be allocated to link it again (the result of the   *)
(* enqueue is ignored, beam_scheduler_loop.c:40-41 and :73-74).            *)
(***************************************************************************)
NothingLost ==
    \A p \in Proc :
        \/ p \in unspawned \/ Queued(p) \/ Held(p)
        \/ p \in ended \/ p \in dropped

(***************************************************************************)
(* A slice always starts with a budget: a process comes back from the      *)
(* queue with its reductions renewed, so it cannot be preempted by its     *)
(* first instruction for ever (beam_scheduler_loop.c:39, :72).             *)
(***************************************************************************)
SliceHasBudget ==
    \A t \in Thread : pc[t] = "execute" => reductions[hold[t]] > 1

(***************************************************************************)
(* When pool_stop or pool_destroy has returned no worker thread is left    *)
(* that could touch the pool or the queue, provided every pool_start so    *)
(* far succeeded: a failed one leaves threads that nobody joins            *)
(* (beam_scheduler_loop.c:150-161).                                        *)
(***************************************************************************)
StoppedMeansStopped ==
    ~startFailed /\ ~running /\ hostPc \in {"idle", "mark", "free", "gone"}
        => \A t \in Thread : pc[t] = "off"

(***************************************************************************)
(* What the tests of the pool assert after pool_stop: when the queue is    *)
(* empty and the workers have returned, every process that only runs to    *)
(* HALT is EXITED (tests/unit/test_scheduler_loop.c:98-100, :148-150).     *)
(***************************************************************************)
DrainedPoolLeavesExited ==
    (/\ hostPc = "idle" /\ ~running /\ unspawned = {} /\ total_count = 0
     /\ \A t \in Thread : pc[t] = "off")
        => \A p \in Proc : procState[p] = "EXITED"

(***************************************************************************)
(* No starvation down to the NORMAL level: a process linked there or above *)
(* is eventually taken by a worker, unless the pool is stopped.            *)
(***************************************************************************)
LinkedEventuallyRuns ==
    \A p \in Proc :
        (running /\ \E prio \in BEAM_PRIO_MAX .. BEAM_PRIO_NORMAL : p \in OnLevel(prio))
            ~> (~running \/ Held(p))

(***************************************************************************)
(* pool_stop returns: every worker sees the cleared flag, whatever it is   *)
(* doing, and can be joined.                                               *)
(***************************************************************************)
StopReturns == (hostPc = "joining") ~> (hostPc \in {"idle", "free"})
=============================================================================
