------------------------- MODULE SchedulerPoolSafety -------------------------
(***************************************************************************)
(* The safety properties of the worker pool that rest on the ownership     *)
(* argument of SchedulerPoolProofs: the count of the queue, the fate of    *)
(* every process, the budget of a slice and what pool_stop leaves behind,  *)
(* for any sets of processes and threads, any number of workers and any    *)
(* choice of outcomes and failures.                                        *)
(***************************************************************************)
EXTENDS SchedulerPoolProofs

(***************************************************************************)
(* What has to be known beside IInv, one part per property.                *)
(***************************************************************************)

\* A process that may still run is in a state MustRequeue will see: a late
\* write of an earlier owner can only make it RUNNABLE.
Live(p) == procState[p] \in {"RUNNABLE", "RUNNING"}

HeldIsLive ==
    \A t \in Thread :
        /\ pc[t] = "execute" => Live(hold[t])
        /\ pc[t] = "inspect" =>
             hold[t] \in ended \/ (res[t] = "OK" /\ Live(hold[t]))

\* The budget is full wherever a process waits for a slice.
BudgetWhereWaiting ==
    /\ \A p \in unspawned : reductions[p] > 1
    /\ \A a \in Priority : \A i \in 1 .. Len(queues[a]) : reductions[queues[a][i]] > 1
    /\ \A t \in Thread :
         pc[t] \in {"mark_running", "execute", "enqueue"} => reductions[hold[t]] > 1

\* The flag and the loop index follow from where the host is.
HostAgrees ==
    /\ hostPc \in {"idle", "mark", "free", "gone"} => slot = 0
    /\ hostPc = "starting" => running
    /\ hostPc \in {"joining", "free", "gone"} => ~running

\* The host has the thread in pool->threads and has not joined it yet.
Joinable(t) ==
    \E i \in Slot :
        /\ threads[i] = t
        /\ \/ hostPc = "starting" /\ i < slot
           \/ hostPc \in {"idle", "mark"} /\ running
           \/ hostPc = "joining" /\ slot <= i

NoStrayWorker == ~startFailed => \A t \in Thread : pc[t] # "off" => Joinable(t)

-----------------------------------------------------------------------------
(* The count and the lengths of the four levels. *)

\* The four levels, named, and their lengths.
LEMMA LevelFacts ==
    ASSUME queues \in [Priority -> Seq(Proc)]
    PROVE  /\ Priority = {BEAM_PRIO_MAX, BEAM_PRIO_HIGH, BEAM_PRIO_NORMAL, BEAM_PRIO_LOW}
           /\ \A a \in Priority : Len(queues[a]) \in Nat
  <1>1. Priority = {BEAM_PRIO_MAX, BEAM_PRIO_HIGH, BEAM_PRIO_NORMAL, BEAM_PRIO_LOW}
    BY DEF Priority, BEAM_PRIO_MAX, BEAM_PRIO_HIGH, BEAM_PRIO_NORMAL, BEAM_PRIO_LOW
  <1>2. \A a \in Priority : Len(queues[a]) \in Nat
    OBVIOUS
  <1> QED BY <1>1, <1>2

\* A level that gains n processes (n may be negative) changes the sum by n.
LEMMA SumMoves ==
    ASSUME queues \in [Priority -> Seq(Proc)], queues' \in [Priority -> Seq(Proc)],
           total_count \in Nat, CountsAgree,
           NEW prio \in Priority, NEW n \in Int,
           \A a \in Priority : a # prio => queues'[a] = queues[a],
           Len(queues'[prio]) = Len(queues[prio]) + n,
           total_count' = total_count + n
    PROVE  CountsAgree'
  <1> USE DEF BEAM_PRIO_MAX, BEAM_PRIO_HIGH, BEAM_PRIO_NORMAL, BEAM_PRIO_LOW
  <1>1. Priority = {0, 1, 2, 3}
    BY LevelFacts
  <1> DEFINE L0 == Len(queues[0])  L1 == Len(queues[1])
             L2 == Len(queues[2])  L3 == Len(queues[3])
  <1>2. L0 \in Nat /\ L1 \in Nat /\ L2 \in Nat /\ L3 \in Nat
    BY <1>1, LevelFacts
  <1>3. total_count = L0 + L1 + L2 + L3
    BY DEF CountsAgree
  <1>4. prio \in {0, 1, 2, 3}
    BY <1>1
  <1>5. /\ Len(queues'[0]) = IF prio = 0 THEN L0 + n ELSE L0
        /\ Len(queues'[1]) = IF prio = 1 THEN L1 + n ELSE L1
        /\ Len(queues'[2]) = IF prio = 2 THEN L2 + n ELSE L2
        /\ Len(queues'[3]) = IF prio = 3 THEN L3 + n ELSE L3
    BY <1>1
  <1> HIDE DEF L0, L1, L2, L3
  <1>6. total_count + n = Len(queues'[0]) + Len(queues'[1])
                        + Len(queues'[2]) + Len(queues'[3])
    BY <1>2, <1>3, <1>4, <1>5
  <1> QED BY <1>6 DEF CountsAgree

\* Linking counts one more, unlinking one less, nothing else counts.
LEMMA CountStep ==
    ASSUME IInv, CountsAgree, [Next]_vars
    PROVE  CountsAgree'
  <1> TypeOK /\ PcAgrees /\ queues \in [Priority -> Seq(Proc)] /\ total_count \in Nat
    BY DEF IInv, TypeOK
  <1> USE DEF rqVars, procVars, hostVars, workVars, histVars
  <1>1. ASSUME NEW p \in Proc, NEW prio \in Priority, beam_run_queue_enqueue(p, prio)
        PROVE  CountsAgree'
    <2>1. total_count' = total_count + 1
      BY <1>1 DEF beam_run_queue_enqueue
    <2> QED BY <1>1, <2>1, EnqueueEffect, SumMoves
  <1>2. ASSUME NEW p \in Proc, beam_run_queue_dequeue(p) \/ beam_run_queue_steal(p)
        PROVE  CountsAgree'
    <2>1. PICK prio \in Priority : Popped(prio, p)
      BY <1>2, TakeEffect
    <2>2. /\ Len(queues'[prio]) = Len(queues[prio]) + (-1)
          /\ total_count' = total_count + (-1)
      BY <2>1 DEF Popped
    <2>3. /\ queues' \in [Priority -> Seq(Proc)]
          /\ \A a \in Priority : a # prio => queues'[a] = queues[a]
      BY <2>1 DEF Popped
    <2> QED BY <2>2, <2>3, SumMoves
  <1>3. ASSUME UNCHANGED rqVars PROVE CountsAgree'
    BY <1>3 DEF CountsAgree
  <1>4. ASSUME NEW p \in Proc, NEW prio \in SpawnPriorities, HostEnqueue(p, prio)
        PROVE  CountsAgree'
    <2>1. prio \in Priority /\ beam_run_queue_enqueue(p, prio)
      BY <1>4, SetFacts DEF HostEnqueue
    <2> QED BY <1>1, <2>1
  <1>5. ASSUME NEW t \in Thread, WorkerEnqueue(t)
        PROVE  CountsAgree'
    <2>1. /\ hold[t] \in Proc /\ BEAM_PRIO_NORMAL \in Priority
          /\ beam_run_queue_enqueue(hold[t], BEAM_PRIO_NORMAL)
      BY <1>5, LevelFacts DEF WorkerEnqueue, PcAgrees, TypeOK
    <2> QED BY <1>1, <2>1
  <1>6. ASSUME NEW t \in Thread, WorkerDequeue(t) \/ WorkerSteal(t)
        PROVE  CountsAgree'
    BY <1>2, <1>6 DEF WorkerDequeue, WorkerSteal
  <1>7. ASSUME NEW t \in Thread, Worker(t)
        PROVE  CountsAgree'
    BY <1>3, <1>5, <1>6, <1>7
    DEF Worker, WorkerLoop, WorkerDequeueNothing, WorkerStealNothing,
        WorkerWakes, WorkerMarkRunning, WorkerExecute, WorkerRequeues,
        WorkerReleases, WorkerEnqueueFails, WorkerMarkRunnable
  <1>8. CASE HostContinues
    BY <1>3, <1>8
    DEF HostContinues, HostMarkRunnable, PoolStarted, CreateWorkerFails,
        CreateWorker, JoinWorker, PoolStopped, PoolFree
  <1>9. CASE HostCalls
    BY <1>3, <1>4, <1>9 DEF HostCalls, PoolStart, PoolStop, PoolDestroy
  <1>10. CASE UNCHANGED vars
    BY <1>3, <1>10 DEF vars
  <1> QED
    BY <1>7, <1>8, <1>9, <1>10 DEF Next, Finished

(***************************************************************************)
(* The total_count that dequeue and steal read to decide that there is     *)
(* nothing to run is at every moment the number of linked processes, so a  *)
(* worker is never sent to sleep by a count that has drifted.              *)
(***************************************************************************)
THEOREM CountCorrect == Spec => []CountsAgree
  <1>1. Init => CountsAgree
    <2> SUFFICES ASSUME Init PROVE CountsAgree
      OBVIOUS
    <2>1. \A a \in Priority : Len(queues[a]) = 0
      BY DEF Init, beam_run_queue_create
    <2>2. total_count = 0
      BY DEF Init, beam_run_queue_create
    <2>3. /\ Len(queues[BEAM_PRIO_MAX]) = 0 /\ Len(queues[BEAM_PRIO_HIGH]) = 0
          /\ Len(queues[BEAM_PRIO_NORMAL]) = 0 /\ Len(queues[BEAM_PRIO_LOW]) = 0
      BY <2>1 DEF Priority, BEAM_PRIO_MAX, BEAM_PRIO_HIGH, BEAM_PRIO_NORMAL, BEAM_PRIO_LOW
    <2> QED BY <2>2, <2>3 DEF CountsAgree
  <1>2. IInv /\ CountsAgree /\ [Next]_vars => CountsAgree'
    BY CountStep
  <1> QED BY <1>1, <1>2, Inductive, PTL DEF Spec

-----------------------------------------------------------------------------
(* No process is lost. *)

\* A worker at its slice, or inspecting what it left, holds a process.
LEMMA SliceHasProc ==
    ASSUME TypeOK, PcAgrees, NEW t \in Thread,
           pc[t] \in {"mark_running", "execute", "inspect", "enqueue"}
    PROVE  hold[t] \in Proc
  BY DEF TypeOK, PcAgrees

\* A state write that leaves a process RUNNABLE or RUNNING harms no holder.
LEMMA WriteKeepsLive ==
    ASSUME TypeOK, PcAgrees, HeldIsLive,
           NEW q \in Proc, NEW s \in {"RUNNABLE", "RUNNING"},
           procState' = [procState EXCEPT ![q] = s],
           hold' = hold, ended' = ended,
           \A t \in Thread :
               \/ pc'[t] = pc[t] /\ res'[t] = res[t]
               \/ pc'[t] \notin {"execute", "inspect"}
               \/ pc'[t] = "execute" /\ hold[t] = q
    PROVE  HeldIsLive'
  <1>1. \A p \in Proc : Live(p) => Live(p)'
    BY DEF TypeOK, Live
  <1>2. Live(q)'
    BY DEF TypeOK, Live
  <1> SUFFICES ASSUME NEW t \in Thread
               PROVE  /\ pc'[t] = "execute" => Live(hold[t])'
                      /\ pc'[t] = "inspect" =>
                           hold[t] \in ended \/ (res'[t] = "OK" /\ Live(hold[t])')
    BY DEF HeldIsLive
  <1>3. pc[t] \in {"execute", "inspect"} => hold[t] \in Proc
    BY SliceHasProc
  <1> QED BY <1>1, <1>2, <1>3 DEF HeldIsLive

\* The slice of a process: it stays live or it has ended, and no other holder
\* sees it.
LEMMA ExecuteKeepsLive ==
    ASSUME IInv, HeldIsLive, NEW t \in Thread, WorkerExecute(t)
    PROVE  HeldIsLive'
  <1> TypeOK /\ PcAgrees /\ HeldOnce
    BY DEF IInv, SingleOwner
  <1>1. hold[t] \in Proc /\ pc[t] = "execute" /\ Live(hold[t])
    BY SliceHasProc DEF WorkerExecute, HeldIsLive
  <1>2. hold' = hold /\ pc' = [pc EXCEPT ![t] = "inspect"]
    BY DEF WorkerExecute, Goto
  <1>3. PICK outcome \in Outcomes :
          /\ procState' = [procState EXCEPT ![hold[t]] = StateAfter(outcome, @)]
          /\ res' = [res EXCEPT ![t] = ResultOf(outcome)]
          /\ ended' = IF outcome \in Resumable THEN ended \ {hold[t]}
                                               ELSE ended \cup {hold[t]}
    BY DEF WorkerExecute
  <1>4. hold[t] \in ended' \/ (res'[t] = "OK" /\ Live(hold[t])')
    <2>1. CASE outcome \in Resumable
      <3>1. res'[t] = "OK"
        BY <1>3, <2>1 DEF TypeOK, ResultOf, Resumable
      <3>2. procState'[hold[t]] \in {"RUNNABLE", procState[hold[t]]}
        BY <1>1, <1>3, <2>1 DEF TypeOK, StateAfter, Resumable
      <3> QED BY <1>1, <1>2, <3>1, <3>2 DEF Live
    <2>2. CASE outcome \notin Resumable
      BY <1>3, <2>2
    <2> QED BY <2>1, <2>2
  <1> SUFFICES ASSUME NEW u \in Thread
               PROVE  /\ pc'[u] = "execute" => Live(hold[u])'
                      /\ pc'[u] = "inspect" =>
                           hold'[u] \in ended' \/ (res'[u] = "OK" /\ Live(hold[u])')
    BY DEF HeldIsLive
  <1>5. CASE u = t
    BY <1>2, <1>4, <1>5 DEF TypeOK
  <1>6. CASE u # t
    <2>1. pc'[u] = pc[u] /\ res'[u] = res[u]
      BY <1>2, <1>3, <1>6 DEF TypeOK
    <2>2. ASSUME pc[u] \in {"execute", "inspect"}
          PROVE  hold[u] \in Proc /\ hold[u] # hold[t]
      BY <1>1, <1>6, <2>2, SliceHasProc, NoProcAssumption DEF HeldOnce
    <2>3. \A p \in Proc : p # hold[t] =>
            procState'[p] = procState[p] /\ (p \in ended <=> p \in ended')
      BY <1>1, <1>3 DEF TypeOK
    <2> QED BY <1>2, <2>1, <2>2, <2>3 DEF HeldIsLive, Live
  <1> QED BY <1>5, <1>6

\* Every step keeps the held processes live until they have ended.
LEMMA LiveStep ==
    ASSUME IInv, HeldIsLive, [Next]_vars
    PROVE  HeldIsLive'
  <1> TypeOK /\ PcAgrees
    BY DEF IInv
  <1> USE DEF rqVars, procVars, hostVars, workVars, histVars
  <1>1. CASE HostMarkRunnable
    <2>1. hostMark \in Proc
      BY <1>1 DEF HostMarkRunnable, PcAgrees, TypeOK
    <2> QED BY <1>1, <2>1, WriteKeepsLive DEF HostMarkRunnable, beam_process_set_state
  <1>2. ASSUME NEW t \in Thread, WorkerMarkRunnable(t)
        PROVE  HeldIsLive'
    <2>1. mark[t] \in Proc
      BY <1>2 DEF WorkerMarkRunnable, PcAgrees, TypeOK
    <2>2. /\ procState' = [procState EXCEPT ![mark[t]] = "RUNNABLE"]
          /\ hold' = hold /\ ended' = ended
      BY <1>2 DEF WorkerMarkRunnable, beam_process_set_state
    <2>3. \A u \in Thread : \/ pc'[u] = pc[u] /\ res'[u] = res[u]
                            \/ pc'[u] \notin {"execute", "inspect"}
      BY <1>2 DEF WorkerMarkRunnable, Goto, AfterSlice, ForgetSlice, TypeOK
    <2> QED BY <2>1, <2>2, <2>3, WriteKeepsLive
  <1>3. ASSUME NEW t \in Thread, WorkerMarkRunning(t)
        PROVE  HeldIsLive'
    <2>1. hold[t] \in Proc
      BY <1>3, SliceHasProc DEF WorkerMarkRunning
    <2>2. /\ procState' = [procState EXCEPT ![hold[t]] = "RUNNING"]
          /\ hold' = hold /\ ended' = ended
      BY <1>3 DEF WorkerMarkRunning, beam_process_set_state
    <2>3. \A u \in Thread : \/ pc'[u] = pc[u] /\ res'[u] = res[u]
                            \/ pc'[u] = "execute" /\ hold[u] = hold[t]
      BY <1>3 DEF WorkerMarkRunning, Goto, TypeOK
    <2> QED BY <2>1, <2>2, <2>3, WriteKeepsLive
  <1>4. ASSUME procState' = procState, ended' = ended,
               \A u \in Thread :
                 \/ pc'[u] = pc[u] /\ res'[u] = res[u] /\ hold'[u] = hold[u]
                 \/ pc'[u] \notin {"execute", "inspect"}
        PROVE  HeldIsLive'
    BY <1>4 DEF HeldIsLive, Live
  <1>5. ASSUME NEW t \in Thread, Worker(t)
        PROVE  HeldIsLive'
    <2> USE DEF Goto, AfterSlice, ForgetSlice, TypeOK
    <2>1. CASE WorkerLoop(t)
      BY <1>4, <2>1 DEF WorkerLoop
    <2>2. CASE WorkerDequeue(t) \/ WorkerSteal(t)
      BY <1>4, <2>2 DEF WorkerDequeue, WorkerSteal
    <2>3. CASE WorkerDequeueNothing(t) \/ WorkerStealNothing(t) \/ WorkerWakes(t)
      BY <1>4, <2>3 DEF WorkerDequeueNothing, WorkerStealNothing, WorkerWakes
    <2>4. CASE WorkerRequeues(t)
      BY <1>4, <2>4 DEF WorkerRequeues
    <2>5. CASE WorkerReleases(t)
      BY <1>4, <2>5 DEF WorkerReleases
    <2>6. CASE WorkerEnqueue(t)
      BY <1>4, <2>6 DEF WorkerEnqueue
    <2>7. CASE WorkerEnqueueFails(t)
      BY <1>4, <2>7 DEF WorkerEnqueueFails
    <2>8. CASE WorkerMarkRunning(t) \/ WorkerExecute(t) \/ WorkerMarkRunnable(t)
      BY <1>2, <1>3, <2>8, ExecuteKeepsLive
    <2> QED
      BY <1>5, <2>1, <2>2, <2>3, <2>4, <2>5, <2>6, <2>7, <2>8 DEF Worker
  <1>6. CASE \E t \in Thread : CreateWorker(t)
    BY <1>4, <1>6 DEF CreateWorker, TypeOK
  <1>7. CASE HostContinues
    BY <1>1, <1>4, <1>6, <1>7
    DEF HostContinues, PoolStarted, CreateWorkerFails, JoinWorker, PoolStopped, PoolFree
  <1>8. CASE HostCalls
    BY <1>4, <1>8 DEF HostCalls, HostEnqueue, PoolStart, PoolStop, PoolDestroy
  <1>9. CASE UNCHANGED vars
    BY <1>4, <1>9 DEF vars
  <1> QED
    BY <1>5, <1>7, <1>8, <1>9 DEF Next, Finished

\* A process is queued when some index of some level shows it.
LEMMA QueuedAt ==
    \A p : Queued(p) <=>
             \E a \in Priority : \E i \in 1 .. Len(queues[a]) : queues[a][i] = p
  BY DEF Queued, OnLevel

\* Linking a process adds it to the queued ones.
LEMMA EnqueueQueues ==
    ASSUME TypeOK, NEW p \in Proc, NEW prio \in Priority,
           beam_run_queue_enqueue(p, prio)
    PROVE  /\ Queued(p)'
           /\ \A q \in Proc : Queued(q) => Queued(q)'
  <1>1. /\ \A a \in Priority : a # prio => queues'[a] = queues[a]
        /\ Len(queues'[prio]) = Len(queues[prio]) + 1
        /\ \A i \in 1 .. Len(queues[prio]) : queues'[prio][i] = queues[prio][i]
        /\ queues'[prio][Len(queues[prio]) + 1] = p
    BY EnqueueEffect DEF TypeOK
  <1>2. \A a \in Priority : Len(queues[a]) \in Nat
    BY DEF TypeOK
  <1>3. Queued(p)'
    <2>1. Len(queues[prio]) + 1 \in 1 .. Len(queues'[prio])
      BY <1>1, <1>2
    <2> QED BY <1>1, <2>1 DEF Queued, OnLevel
  <1>4. ASSUME NEW q \in Proc, Queued(q) PROVE Queued(q)'
    <2>1. PICK a \in Priority : \E i \in 1 .. Len(queues[a]) : queues[a][i] = q
      BY <1>4, QueuedAt
    <2>2. PICK i \in 1 .. Len(queues[a]) : queues[a][i] = q
      BY <2>1
    <2>3. i \in 1 .. Len(queues'[a]) /\ queues'[a][i] = q
      BY <1>1, <1>2, <2>2
    <2> QED BY <2>3 DEF Queued, OnLevel
  <1> QED BY <1>3, <1>4

\* Taking a process unlinks no other.
LEMMA TakeLeavesOthers ==
    ASSUME TypeOK, NEW p \in Proc,
           beam_run_queue_dequeue(p) \/ beam_run_queue_steal(p),
           NEW q \in Proc, q # p, Queued(q)
    PROVE  Queued(q)'
  <1>1. PICK prio \in Priority : Popped(prio, p)
    BY TakeEffect DEF TypeOK
  <1>2. PICK a \in Priority : \E i \in 1 .. Len(queues[a]) : queues[a][i] = q
    BY QueuedAt
  <1>3. PICK i \in 1 .. Len(queues[a]) : queues[a][i] = q
    BY <1>2
  <1>4. Len(queues[a]) \in Nat
    BY DEF TypeOK
  <1>5. CASE a # prio
    BY <1>1, <1>3, <1>5 DEF Popped, Queued, OnLevel
  <1>6. CASE a = prio
    <2>1. i # 1
      BY <1>1, <1>3, <1>6 DEF Popped
    <2>2. i - 1 \in 1 .. Len(queues[a]) - 1 /\ (i - 1) + 1 = i
      BY <1>3, <1>4, <2>1
    <2>3. i - 1 \in 1 .. Len(queues'[a]) /\ queues'[a][i - 1] = q
      BY <1>1, <1>3, <1>6, <2>2 DEF Popped
    <2> QED BY <2>3 DEF Queued, OnLevel
  <1> QED BY <1>5, <1>6

\* A process only ever moves: from the host to the queue, from the queue to a
\* worker, from a worker to the queue or to its end.
LEMMA LostStep ==
    ASSUME IInv, HeldIsLive, NothingLost, [Next]_vars
    PROVE  NothingLost'
  <1> TypeOK /\ PcAgrees
    BY DEF IInv
  <1> USE DEF rqVars, procVars, hostVars, workVars, histVars
  <1>1. ASSUME NEW p \in Proc, NEW prio \in SpawnPriorities, HostEnqueue(p, prio)
        PROVE  NothingLost'
    <2>1. /\ prio \in Priority /\ beam_run_queue_enqueue(p, prio)
          /\ unspawned' = unspawned \ {p}
          /\ hold' = hold /\ ended' = ended /\ dropped' = dropped
      BY <1>1, SetFacts DEF HostEnqueue
    <2>2. Queued(p)' /\ \A q \in Proc : Queued(q) => Queued(q)'
      BY <2>1, EnqueueQueues
    <2> QED BY <2>1, <2>2 DEF NothingLost, Held
  <1>2. ASSUME NEW t \in Thread, WorkerEnqueue(t)
        PROVE  NothingLost'
    <2>1. PICK p \in Proc : p = hold[t]
      BY <1>2, SliceHasProc DEF WorkerEnqueue
    <2>2. /\ BEAM_PRIO_NORMAL \in Priority
          /\ beam_run_queue_enqueue(p, BEAM_PRIO_NORMAL)
          /\ unspawned' = unspawned /\ ended' = ended /\ dropped' = dropped
          /\ hold' = [hold EXCEPT ![t] = NoProc]
      BY <1>2, <2>1, LevelFacts DEF WorkerEnqueue, TypeOK
    <2>3. Queued(p)' /\ \A q \in Proc : Queued(q) => Queued(q)'
      BY <2>2, EnqueueQueues
    <2>4. \A u \in Thread : u = t \/ hold'[u] = hold[u]
      BY <2>2 DEF TypeOK
    <2> QED BY <2>1, <2>2, <2>3, <2>4 DEF NothingLost, Held
  <1>3. ASSUME NEW t \in Thread, WorkerDequeue(t) \/ WorkerSteal(t)
        PROVE  NothingLost'
    <2>1. PICK p \in Proc :
            /\ beam_run_queue_dequeue(p) \/ beam_run_queue_steal(p)
            /\ hold' = [hold EXCEPT ![t] = p]
      BY <1>3 DEF WorkerDequeue, WorkerSteal
    <2>2. /\ unspawned' = unspawned /\ ended' = ended /\ dropped' = dropped
          /\ hold[t] = NoProc
      BY <1>3 DEF WorkerDequeue, WorkerSteal, PcAgrees
    <2>3. \A q \in Proc : q # p /\ Queued(q) => Queued(q)'
      BY <2>1, TakeLeavesOthers
    <2>4. \A u \in Thread : hold'[u] = IF u = t THEN p ELSE hold[u]
      BY <2>1 DEF TypeOK
    <2> QED BY <2>2, <2>3, <2>4, NoProcAssumption DEF NothingLost, Held
  <1>4. ASSUME NEW t \in Thread, WorkerReleases(t)
        PROVE  NothingLost'
    <2>1. /\ queues' = queues /\ unspawned' = unspawned
          /\ ended' = ended /\ dropped' = dropped
          /\ hold' = [hold EXCEPT ![t] = NoProc]
      BY <1>4 DEF WorkerReleases
    <2>2. hold[t] \in ended
      BY <1>4 DEF WorkerReleases, MustRequeue, HeldIsLive, Live
    <2>3. \A u \in Thread : u = t \/ hold'[u] = hold[u]
      BY <2>1 DEF TypeOK
    <2> QED BY <2>1, <2>2, <2>3 DEF NothingLost, Held, Queued, OnLevel
  <1>5. ASSUME NEW t \in Thread, WorkerEnqueueFails(t)
        PROVE  NothingLost'
    <2>1. /\ queues' = queues /\ unspawned' = unspawned
          /\ ended' = ended /\ dropped' = dropped \cup {hold[t]}
          /\ hold' = [hold EXCEPT ![t] = NoProc]
      BY <1>5 DEF WorkerEnqueueFails
    <2>2. \A u \in Thread : u = t \/ hold'[u] = hold[u]
      BY <2>1 DEF TypeOK
    <2> QED BY <2>1, <2>2 DEF NothingLost, Held, Queued, OnLevel
  <1>6. ASSUME NEW t \in Thread, WorkerExecute(t)
        PROVE  NothingLost'
    <2>1. /\ queues' = queues /\ unspawned' = unspawned
          /\ dropped' = dropped /\ hold' = hold
          /\ \A q \in ended : q = hold[t] \/ q \in ended'
      BY <1>6 DEF WorkerExecute
    <2> QED BY <2>1 DEF NothingLost, Held, Queued, OnLevel
  <1>7. ASSUME queues' = queues, unspawned' = unspawned, hold' = hold,
               ended' = ended, dropped' = dropped
        PROVE  NothingLost'
    BY <1>7 DEF NothingLost, Held, Queued, OnLevel
  <1>8. ASSUME NEW t \in Thread, Worker(t)
        PROVE  NothingLost'
    BY <1>2, <1>3, <1>4, <1>5, <1>6, <1>7, <1>8
    DEF Worker, WorkerLoop, WorkerDequeueNothing, WorkerStealNothing,
        WorkerWakes, WorkerMarkRunning, WorkerRequeues, WorkerMarkRunnable
  <1>9. CASE HostContinues
    BY <1>7, <1>9
    DEF HostContinues, HostMarkRunnable, PoolStarted, CreateWorkerFails,
        CreateWorker, JoinWorker, PoolStopped, PoolFree
  <1>10. CASE HostCalls
    BY <1>1, <1>7, <1>10 DEF HostCalls, PoolStart, PoolStop, PoolDestroy
  <1>11. CASE UNCHANGED vars
    BY <1>7, <1>11 DEF vars
  <1> QED
    BY <1>8, <1>9, <1>10, <1>11 DEF Next, Finished

(***************************************************************************)
(* A process that has not ended is never lost by the workers: whatever     *)
(* late writes of its state by an earlier owner the test after a slice     *)
(* sees (beam_scheduler_loop.c:36-42), it is linked again, unless no node  *)
(* could be allocated.                                                     *)
(***************************************************************************)
THEOREM NoneLost == Spec => []NothingLost
  <1>1. Init => HeldIsLive /\ NothingLost
    BY DEF Init, HeldIsLive, NothingLost
  <1>2. IInv /\ HeldIsLive /\ NothingLost /\ [Next]_vars
          => (HeldIsLive /\ NothingLost)'
    BY LiveStep, LostStep
  <1> QED BY <1>1, <1>2, Inductive, PTL DEF Spec

-----------------------------------------------------------------------------
(* Every slice starts with a budget. *)

\* A slice spends, and a requeue renews, the budget of the worker's own process,
\* which nobody else has.
LEMMA BudgetStep ==
    ASSUME IInv, BudgetWhereWaiting, [Next]_vars
    PROVE  BudgetWhereWaiting'
  <1> TypeOK /\ PcAgrees /\ SingleOwner /\ UnspawnedIsNowhere
    BY DEF IInv
  <1> USE DEF rqVars, procVars, hostVars, workVars, histVars
  <1>1. ASSUME NEW p \in Proc, NEW prio \in Priority, beam_run_queue_enqueue(p, prio),
               reductions[p] > 1, reductions' = reductions
        PROVE  \A a \in Priority : \A i \in 1 .. Len(queues'[a]) :
                 reductions'[queues'[a][i]] > 1
    <2>1. /\ \A a \in Priority : a # prio => queues'[a] = queues[a]
          /\ Len(queues'[prio]) = Len(queues[prio]) + 1
          /\ \A i \in 1 .. Len(queues[prio]) : queues'[prio][i] = queues[prio][i]
          /\ queues'[prio][Len(queues[prio]) + 1] = p
      BY <1>1, EnqueueEffect DEF TypeOK
    <2>2. \A a \in Priority : Len(queues[a]) \in Nat
      BY DEF TypeOK
    <2>3. \A a \in Priority : \A i \in 1 .. Len(queues'[a]) :
            queues'[a][i] = p \/ (i \in 1 .. Len(queues[a]) /\ queues'[a][i] = queues[a][i])
      BY <2>1, <2>2
    <2> QED BY <1>1, <2>3 DEF BudgetWhereWaiting
  <1>2. ASSUME NEW p \in Proc, NEW prio \in SpawnPriorities, HostEnqueue(p, prio)
        PROVE  BudgetWhereWaiting'
    <2>1. /\ prio \in Priority /\ beam_run_queue_enqueue(p, prio)
          /\ reductions[p] > 1 /\ reductions' = reductions
          /\ unspawned' = unspawned \ {p} /\ hold' = hold /\ pc' = pc
      BY <1>2, SetFacts DEF HostEnqueue, BudgetWhereWaiting
    <2>2. \A a \in Priority : \A i \in 1 .. Len(queues'[a]) : reductions'[queues'[a][i]] > 1
      BY <1>1, <2>1
    <2> QED BY <2>1, <2>2 DEF BudgetWhereWaiting
  <1>3. ASSUME NEW t \in Thread, WorkerEnqueue(t)
        PROVE  BudgetWhereWaiting'
    <2>1. PICK p \in Proc : p = hold[t]
      BY <1>3, SliceHasProc DEF WorkerEnqueue
    <2>2. /\ BEAM_PRIO_NORMAL \in Priority /\ beam_run_queue_enqueue(p, BEAM_PRIO_NORMAL)
          /\ reductions[p] > 1 /\ reductions' = reductions /\ unspawned' = unspawned
      BY <1>3, <2>1, LevelFacts DEF WorkerEnqueue, BudgetWhereWaiting, TypeOK
    <2>3. \A a \in Priority : \A i \in 1 .. Len(queues'[a]) : reductions'[queues'[a][i]] > 1
      BY <1>1, <2>2
    <2>4. /\ pc'[t] = "mark_runnable"
          /\ \A u \in Thread : u # t => hold'[u] = hold[u] /\ pc'[u] = pc[u]
      BY <1>3 DEF WorkerEnqueue, Goto, TypeOK
    <2> QED BY <2>2, <2>3, <2>4 DEF BudgetWhereWaiting
  <1>4. ASSUME NEW t \in Thread, WorkerDequeue(t) \/ WorkerSteal(t)
        PROVE  BudgetWhereWaiting'
    <2>1. PICK p \in Proc :
            /\ beam_run_queue_dequeue(p) \/ beam_run_queue_steal(p)
            /\ hold' = [hold EXCEPT ![t] = p]
      BY <1>4 DEF WorkerDequeue, WorkerSteal
    <2>2. PICK prio \in Priority : Popped(prio, p)
      BY <2>1, TakeEffect DEF TypeOK
    <2>3. \A a \in Priority : Len(queues[a]) \in Nat
      BY DEF TypeOK
    <2>4. reductions[p] > 1
      <3>1. 1 \in 1 .. Len(queues[prio]) /\ p = queues[prio][1]
        BY <2>2, <2>3 DEF Popped
      <3> QED BY <3>1 DEF BudgetWhereWaiting
    <2>5. \A a \in Priority : \A i \in 1 .. Len(queues'[a]) :
            \E j \in 1 .. Len(queues[a]) : queues'[a][i] = queues[a][j]
      <3> SUFFICES ASSUME NEW a \in Priority, NEW i \in 1 .. Len(queues'[a])
                   PROVE  \E j \in 1 .. Len(queues[a]) : queues'[a][i] = queues[a][j]
        OBVIOUS
      <3>1. CASE a # prio
        BY <2>2, <3>1 DEF Popped
      <3>2. CASE a = prio
        <4>1. i + 1 \in 1 .. Len(queues[a]) /\ queues'[a][i] = queues[a][i + 1]
          BY <2>2, <2>3, <3>2 DEF Popped
        <4> QED BY <4>1
      <3> QED BY <3>1, <3>2
    <2>6. /\ reductions' = reductions /\ unspawned' = unspawned
          /\ \A u \in Thread : u # t => hold'[u] = hold[u] /\ pc'[u] = pc[u]
          /\ hold'[t] = p
      BY <1>4, <2>1 DEF WorkerDequeue, WorkerSteal, Goto, TypeOK
    <2> QED BY <2>4, <2>5, <2>6 DEF BudgetWhereWaiting
  <1>5. ASSUME NEW t \in Thread, hold[t] \in Proc,
               queues' = queues, unspawned' = unspawned, hold' = hold,
               \A p \in Proc : p # hold[t] => reductions'[p] = reductions[p],
               \A u \in Thread : u # t => pc'[u] = pc[u],
               pc'[t] \in {"mark_running", "execute", "enqueue"}
                 => reductions'[hold[t]] > 1
        PROVE  BudgetWhereWaiting'
    <2>1. \A p \in unspawned : p \in Proc /\ p # hold[t]
      BY <1>5 DEF TypeOK, UnspawnedIsNowhere
    <2>2. \A a \in Priority : \A i \in 1 .. Len(queues[a]) :
            queues[a][i] \in Proc /\ queues[a][i] # hold[t]
      <3>1. \A a \in Priority : \A i \in 1 .. Len(queues[a]) : queues[a][i] \in Proc
        BY DEF TypeOK
      <3> QED BY <1>5, <3>1 DEF SingleOwner, HeldNotLinked
    <2>3. \A u \in Thread : u # t /\ pc[u] \in {"mark_running", "execute", "enqueue"}
            => hold[u] \in Proc /\ hold[u] # hold[t]
      BY <1>5, SliceHasProc, NoProcAssumption DEF SingleOwner, HeldOnce
    <2> QED BY <1>5, <2>1, <2>2, <2>3 DEF BudgetWhereWaiting
  <1>6. ASSUME NEW t \in Thread, WorkerExecute(t)
        PROVE  BudgetWhereWaiting'
    <2>1. hold[t] \in Proc
      BY <1>6, SliceHasProc DEF WorkerExecute
    <2>2. /\ queues' = queues /\ unspawned' = unspawned /\ hold' = hold
          /\ \A u \in Thread : u # t => pc'[u] = pc[u]
          /\ pc'[t] = "inspect"
      BY <1>6 DEF WorkerExecute, Goto, TypeOK
    <2>3. \A p \in Proc : p # hold[t] => reductions'[p] = reductions[p]
      BY <1>6, <2>1 DEF WorkerExecute, TypeOK
    <2> QED BY <1>5, <2>1, <2>2, <2>3
  <1>7. ASSUME NEW t \in Thread, WorkerRequeues(t)
        PROVE  BudgetWhereWaiting'
    <2>1. hold[t] \in Proc
      BY <1>7, SliceHasProc DEF WorkerRequeues
    <2>2. /\ queues' = queues /\ unspawned' = unspawned /\ hold' = hold
          /\ \A u \in Thread : u # t => pc'[u] = pc[u]
      BY <1>7 DEF WorkerRequeues, Goto, TypeOK
    <2>3. /\ reductions'[hold[t]] > 1
          /\ \A p \in Proc : p # hold[t] => reductions'[p] = reductions[p]
      BY <1>7, <2>1, ConstantFacts DEF WorkerRequeues, TypeOK
    <2> QED BY <1>5, <2>1, <2>2, <2>3
  <1>8. ASSUME queues' = queues, unspawned' = unspawned, reductions' = reductions,
               \A u \in Thread :
                 \/ pc'[u] \notin {"mark_running", "execute", "enqueue"}
                 \/ pc[u] \in {"mark_running", "execute", "enqueue"} /\ hold'[u] = hold[u]
        PROVE  BudgetWhereWaiting'
    BY <1>8 DEF BudgetWhereWaiting
  <1>9. ASSUME NEW t \in Thread, Worker(t)
        PROVE  BudgetWhereWaiting'
    <2> USE DEF Goto, AfterSlice, ForgetSlice, TypeOK, PcAgrees
    <2>1. CASE WorkerLoop(t)
      BY <1>8, <2>1 DEF WorkerLoop
    <2>2. CASE WorkerDequeueNothing(t) \/ WorkerStealNothing(t) \/ WorkerWakes(t)
      BY <1>8, <2>2 DEF WorkerDequeueNothing, WorkerStealNothing, WorkerWakes
    <2>3. CASE WorkerMarkRunning(t)
      BY <1>8, <2>3 DEF WorkerMarkRunning
    <2>4. CASE WorkerReleases(t)
      BY <1>8, <2>4 DEF WorkerReleases
    <2>5. CASE WorkerEnqueueFails(t)
      BY <1>8, <2>5 DEF WorkerEnqueueFails
    <2>6. CASE WorkerMarkRunnable(t)
      BY <1>8, <2>6 DEF WorkerMarkRunnable
    <2> QED
      BY <1>3, <1>4, <1>6, <1>7, <1>9, <2>1, <2>2, <2>3, <2>4, <2>5, <2>6 DEF Worker
  <1>10. CASE \E t \in Thread : CreateWorker(t)
    BY <1>8, <1>10 DEF CreateWorker, TypeOK
  <1>11. CASE HostContinues
    BY <1>8, <1>10, <1>11
    DEF HostContinues, HostMarkRunnable, PoolStarted, CreateWorkerFails,
        JoinWorker, PoolStopped, PoolFree
  <1>12. CASE HostCalls
    BY <1>2, <1>8, <1>12 DEF HostCalls, PoolStart, PoolStop, PoolDestroy
  <1>13. CASE UNCHANGED vars
    BY <1>8, <1>13 DEF vars
  <1> QED
    BY <1>9, <1>11, <1>12, <1>13 DEF Next, Finished

(***************************************************************************)
(* Every slice of every process starts with reductions to spend: the       *)
(* budget renewed before the enqueue (beam_scheduler_loop.c:39, :72) is    *)
(* still there when a worker, the same or another, executes the process.   *)
(***************************************************************************)
THEOREM BudgetAtEverySlice == Spec => []SliceHasBudget
  <1>1. Init => BudgetWhereWaiting
    <2> SUFFICES ASSUME Init PROVE BudgetWhereWaiting
      OBVIOUS
    <2>1. \A a \in Priority : 1 .. Len(queues[a]) = {}
      BY DEF Init, beam_run_queue_create
    <2>2. \A p \in unspawned : reductions[p] > 1
      BY ConstantFacts DEF Init
    <2>3. \A t \in Thread : pc[t] = "off"
      BY DEF Init
    <2> QED BY <2>1, <2>2, <2>3 DEF BudgetWhereWaiting
  <1>2. IInv /\ BudgetWhereWaiting /\ [Next]_vars => BudgetWhereWaiting'
    BY BudgetStep
  <1>3. BudgetWhereWaiting => SliceHasBudget
    BY DEF BudgetWhereWaiting, SliceHasBudget
  <1> QED BY <1>1, <1>2, <1>3, Inductive, PTL DEF Spec

-----------------------------------------------------------------------------
(* pool_stop joins every worker. *)

\* The flag and the loop index, step by step.
LEMMA HostStep ==
    ASSUME IInv, HostAgrees, [Next]_vars
    PROVE  HostAgrees'
  <1> TypeOK
    BY DEF IInv
  <1> USE DEF HostAgrees, rqVars, procVars, hostVars, workVars, histVars
  <1>1. CASE HostCalls
    BY <1>1 DEF HostCalls, HostEnqueue, PoolStart, PoolStop, PoolDestroy, TypeOK
  <1>2. CASE HostContinues
    BY <1>2
    DEF HostContinues, HostMarkRunnable, PoolStarted, CreateWorkerFails,
        CreateWorker, JoinWorker, PoolStopped, PoolFree
  <1>3. ASSUME NEW t \in Thread, Worker(t) PROVE HostAgrees'
    BY <1>3
    DEF Worker, WorkerLoop, WorkerDequeue, WorkerDequeueNothing, WorkerSteal,
        WorkerStealNothing, WorkerWakes, WorkerMarkRunning, WorkerExecute,
        WorkerRequeues, WorkerReleases, WorkerEnqueue, WorkerEnqueueFails,
        WorkerMarkRunnable
  <1>4. CASE UNCHANGED vars
    BY <1>4 DEF vars
  <1> QED BY <1>1, <1>2, <1>3, <1>4 DEF Next, Finished

\* A worker starts only with an entry in pool->threads, keeps the entry while
\* the pool runs, and is off before pool_stop goes past its entry.
LEMMA StrayStep ==
    ASSUME IInv, HostAgrees, NoStrayWorker, [Next]_vars
    PROVE  NoStrayWorker'
  <1> TypeOK
    BY DEF IInv
  <1> USE DEF rqVars, procVars, hostVars, workVars, histVars
  <1>1. ASSUME UNCHANGED <<hostPc, slot, threads, running, startFailed>>,
               \A t \in Thread : pc'[t] # "off" => pc[t] # "off"
        PROVE  NoStrayWorker'
    BY <1>1 DEF NoStrayWorker, Joinable
  <1>2. ASSUME NEW p \in Proc, NEW prio \in SpawnPriorities, HostEnqueue(p, prio)
        PROVE  NoStrayWorker'
    BY <1>2 DEF HostEnqueue, NoStrayWorker, Joinable
  <1>3. CASE HostMarkRunnable
    BY <1>3 DEF HostMarkRunnable, NoStrayWorker, Joinable
  <1>4. CASE PoolStart
    BY <1>4 DEF PoolStart, NoStrayWorker, Joinable
  <1>5. ASSUME NEW t \in Thread, CreateWorker(t)
        PROVE  NoStrayWorker'
    <2>1. /\ slot \in Slot /\ slot \in Nat /\ slot' = slot + 1
          /\ hostPc = "starting" /\ hostPc' = hostPc /\ startFailed' = startFailed
      BY <1>5, ConstantFacts DEF CreateWorker, TypeOK, Slot
    <2>2. \A i \in Slot : i \in Nat
      BY DEF Slot
    <2>3. /\ threads'[slot] = t
          /\ \A i \in Slot : i # slot => threads'[i] = threads[i]
          /\ \A u \in Thread : u # t => pc'[u] = pc[u]
      BY <1>5, <2>1 DEF CreateWorker, TypeOK
    <2> SUFFICES ASSUME ~startFailed, NEW u \in Thread, pc'[u] # "off"
                 PROVE  \E i \in Slot : threads'[i] = u /\ i < slot'
      BY <2>1 DEF NoStrayWorker, Joinable
    <2>4. CASE u = t
      BY <2>1, <2>3, <2>4
    <2>5. CASE u # t
      <3>1. PICK i \in Slot : threads[i] = u /\ i < slot
        BY <2>1, <2>3, <2>5 DEF NoStrayWorker, Joinable
      <3>2. threads'[i] = u /\ i < slot'
        BY <2>1, <2>2, <2>3, <3>1
      <3> QED BY <3>2
    <2> QED BY <2>4, <2>5
  <1>6. CASE CreateWorkerFails
    BY <1>6 DEF CreateWorkerFails, NoStrayWorker
  <1>7. CASE PoolStarted
    BY <1>7 DEF PoolStarted, NoStrayWorker, Joinable, HostAgrees
  <1>8. CASE PoolStop
    <2>1. \A i \in Slot : 0 <= i
      BY DEF Slot
    <2> QED BY <1>8, <2>1 DEF PoolStop, NoStrayWorker, Joinable, HostAgrees
  <1>9. CASE JoinWorker
    <2>1. /\ slot \in Slot /\ slot \in Nat /\ slot' = slot + 1 /\ pc[threads[slot]] = "off"
          /\ hostPc = "joining" /\ hostPc' = hostPc /\ startFailed' = startFailed
          /\ threads' = threads /\ pc' = pc
      BY <1>9, ConstantFacts DEF JoinWorker, TypeOK, Slot
    <2>2. \A i \in Slot : i \in Nat /\ (slot <= i => i = slot \/ slot' <= i)
      BY <2>1 DEF Slot
    <2> QED BY <2>1, <2>2 DEF NoStrayWorker, Joinable
  <1>10. CASE PoolStopped
    <2>1. \A i \in Slot : ~(slot <= i)
      BY <1>10, ConstantFacts DEF PoolStopped, Slot
    <2>2. startFailed' = startFailed /\ pc' = pc /\ hostPc = "joining"
      BY <1>10 DEF PoolStopped
    <2> QED BY <2>1, <2>2 DEF NoStrayWorker, Joinable
  <1>11. CASE PoolDestroy
    <2>1. \A i \in Slot : 0 <= i
      BY DEF Slot
    <2> QED BY <1>11, <2>1 DEF PoolDestroy, NoStrayWorker, Joinable, HostAgrees
  <1>12. CASE PoolFree
    BY <1>12 DEF PoolFree, NoStrayWorker, Joinable
  <1>13. ASSUME NEW t \in Thread, Worker(t)
        PROVE  NoStrayWorker'
    <2>1. UNCHANGED <<hostPc, slot, threads, running, startFailed>>
      BY <1>13
      DEF Worker, WorkerLoop, WorkerDequeue, WorkerDequeueNothing, WorkerSteal,
          WorkerStealNothing, WorkerWakes, WorkerMarkRunning, WorkerExecute,
          WorkerRequeues, WorkerReleases, WorkerEnqueue, WorkerEnqueueFails,
          WorkerMarkRunnable
    <2>2. pc[t] # "off"
      BY <1>13
      DEF Worker, WorkerLoop, WorkerDequeue, WorkerDequeueNothing, WorkerSteal,
          WorkerStealNothing, WorkerWakes, WorkerMarkRunning, WorkerExecute,
          WorkerRequeues, WorkerReleases, WorkerEnqueue, WorkerEnqueueFails,
          WorkerMarkRunnable
    <2>3. \A u \in Thread : u # t => pc'[u] = pc[u]
      BY <1>13
      DEF Worker, WorkerLoop, WorkerDequeue, WorkerDequeueNothing, WorkerSteal,
          WorkerStealNothing, WorkerWakes, WorkerMarkRunning, WorkerExecute,
          WorkerRequeues, WorkerReleases, WorkerEnqueue, WorkerEnqueueFails,
          WorkerMarkRunnable, Goto, TypeOK
    <2> QED BY <1>1, <2>1, <2>2, <2>3
  <1>14. CASE UNCHANGED vars
    BY <1>1, <1>14 DEF vars
  <1> QED
    BY <1>2, <1>3, <1>4, <1>5, <1>6, <1>7, <1>8, <1>9, <1>10, <1>11, <1>12, <1>13, <1>14
    DEF Next, HostCalls, HostContinues, Finished

(***************************************************************************)
(* When pool_stop or pool_destroy has returned, and before the first       *)
(* pool_start, no worker thread runs, for any number of workers and of     *)
(* stop and start rounds, as long as no pool_start failed                  *)
(* (beam_scheduler_loop.c:117-131, :167-175).                              *)
(***************************************************************************)
THEOREM StopJoinsAll == Spec => []StoppedMeansStopped
  <1>1. Init => HostAgrees /\ NoStrayWorker
    BY DEF Init, HostAgrees, NoStrayWorker
  <1>2. IInv /\ HostAgrees /\ NoStrayWorker /\ [Next]_vars
          => (HostAgrees /\ NoStrayWorker)'
    BY HostStep, StrayStep
  <1>3. NoStrayWorker => StoppedMeansStopped
    BY DEF NoStrayWorker, Joinable, StoppedMeansStopped
  <1> QED BY <1>1, <1>2, <1>3, Inductive, PTL DEF Spec
=============================================================================
