------------------------- MODULE SchedulerPoolProofs -------------------------
(***************************************************************************)
(* Proofs about the worker pool, for any sets of processes and threads,    *)
(* any number of workers and any choice of outcomes and failures.          *)
(***************************************************************************)
EXTENDS SchedulerPool, TLAPS

(***************************************************************************)
(* The inductive invariant, part by part.                                  *)
(***************************************************************************)

\* A worker holds a process exactly between taking it off the queue and
\* linking it again or letting go; it owes a state write exactly after it has
\* linked one.
PcAgrees ==
    /\ \A t \in Thread :
        /\ hold[t] # NoProc
             <=> pc[t] \in {"mark_running", "execute", "inspect", "enqueue"}
        /\ mark[t] # NoProc <=> pc[t] = "mark_runnable"
    /\ hostMark # NoProc <=> hostPc = "mark"

\* A process the host has not linked yet is nowhere.
UnspawnedIsNowhere ==
    \A p \in unspawned :
        /\ \A t \in Thread : hold[t] # p
        /\ \A a \in Priority : \A i \in 1 .. Len(queues[a]) : queues[a][i] # p

IInv == TypeOK /\ PcAgrees /\ SingleOwner /\ UnspawnedIsNowhere

-----------------------------------------------------------------------------
(* What appending and taking the head do to a sequence. *)

\* Append, the linking at q->tail (run_queue.c:45-51).
LEMMA AppendFacts ==
    ASSUME NEW S, NEW s \in Seq(S), NEW e \in S
    PROVE  /\ Append(s, e) \in Seq(S)
           /\ Len(Append(s, e)) = Len(s) + 1
           /\ \A i \in 1 .. Len(s) : Append(s, e)[i] = s[i]
           /\ Append(s, e)[Len(s) + 1] = e
    OBVIOUS

\* Head and Tail, the unlinking of q->head (run_queue.c:73-79).
LEMMA HeadTailFacts ==
    ASSUME NEW S, NEW s \in Seq(S), s # << >>
    PROVE  /\ Len(s) \in Nat /\ Len(s) > 0
           /\ Head(s) = s[1] /\ Head(s) \in S
           /\ Tail(s) \in Seq(S)
           /\ Len(Tail(s)) = Len(s) - 1
           /\ \A i \in 1 .. Len(s) - 1 : Tail(s)[i] = s[i + 1]
    OBVIOUS

\* beam_run_queue_enqueue seen index by index.
LEMMA EnqueueEffect ==
    ASSUME queues \in [Priority -> Seq(Proc)], total_count \in Nat,
           NEW p \in Proc, NEW prio \in Priority,
           beam_run_queue_enqueue(p, prio)
    PROVE  /\ queues' \in [Priority -> Seq(Proc)]
           /\ total_count' \in Nat
           /\ \A a \in Priority : a # prio => queues'[a] = queues[a]
           /\ Len(queues'[prio]) = Len(queues[prio]) + 1
           /\ \A i \in 1 .. Len(queues[prio]) : queues'[prio][i] = queues[prio][i]
           /\ queues'[prio][Len(queues[prio]) + 1] = p
  <1>1. queues'[prio] = Append(queues[prio], p) /\ queues[prio] \in Seq(Proc)
    BY DEF beam_run_queue_enqueue
  <1>2. \A a \in Priority : a # prio => queues'[a] = queues[a]
    BY DEF beam_run_queue_enqueue
  <1>3. Append(queues[prio], p) \in Seq(Proc)
    BY <1>1, AppendFacts
  <1>4. queues' \in [Priority -> Seq(Proc)]
    BY <1>3 DEF beam_run_queue_enqueue
  <1> QED
    BY <1>1, <1>2, <1>4, AppendFacts DEF beam_run_queue_enqueue

\* PopHead, the common part of dequeue and steal, seen index by index.
Popped(prio, p) ==
    /\ queues' \in [Priority -> Seq(Proc)]
    /\ total_count' = total_count - 1
    /\ \A a \in Priority : a # prio => queues'[a] = queues[a]
    /\ Len(queues[prio]) \in Nat /\ Len(queues[prio]) > 0
    /\ p = queues[prio][1]
    /\ Len(queues'[prio]) = Len(queues[prio]) - 1
    /\ \A i \in 1 .. Len(queues[prio]) - 1 :
            queues'[prio][i] = queues[prio][i + 1]

\* PopHead seen index by index: the level loses its first process.
LEMMA PopEffect ==
    ASSUME queues \in [Priority -> Seq(Proc)],
           NEW p, NEW prio \in Priority, queues[prio] # << >>,
           PopHead(prio, p)
    PROVE  Popped(prio, p)
  <1>1. queues'[prio] = Tail(queues[prio]) /\ queues[prio] \in Seq(Proc)
    BY DEF PopHead
  <1>2. \A a \in Priority : a # prio => queues'[a] = queues[a]
    BY DEF PopHead
  <1>3. Tail(queues[prio]) \in Seq(Proc)
    BY <1>1, HeadTailFacts
  <1>4. queues' \in [Priority -> Seq(Proc)]
    BY <1>3 DEF PopHead
  <1> QED
    BY <1>1, <1>2, <1>4, HeadTailFacts DEF PopHead, Popped

\* Dequeue and steal both pop the head of some level.
LEMMA TakeEffect ==
    ASSUME queues \in [Priority -> Seq(Proc)], total_count \in Nat,
           NEW p \in Proc,
           beam_run_queue_dequeue(p) \/ beam_run_queue_steal(p)
    PROVE  /\ \E prio \in Priority : Popped(prio, p)
           /\ total_count' \in Nat
  <1>1. PICK prio \in Priority : queues[prio] # << >> /\ PopHead(prio, p)
    BY DEF beam_run_queue_dequeue, beam_run_queue_steal
  <1>2. Popped(prio, p)
    BY <1>1, PopEffect
  <1>3. total_count > 0
    BY DEF beam_run_queue_dequeue, beam_run_queue_steal
  <1> QED
    BY <1>2, <1>3 DEF Popped

-----------------------------------------------------------------------------
(* Every step preserves the types and the agreement of pc and ownership. *)

\* The assumptions on the constants that the proofs use, one by one.
LEMMA ConstantFacts ==
    /\ NumWorkers \in Nat /\ NumWorkers > 0
    /\ DefaultReductions \in Nat /\ DefaultReductions > 1
  BY PoolAssumption

\* The assumptions about sets that the proofs use.
LEMMA SetFacts ==
    /\ NoThread \notin Thread
    /\ SpawnPriorities \subseteq Priority
    /\ Outcomes \subseteq AllOutcomes
  BY PoolAssumption

\* What beam_process_create, beam_run_queue_create and pool_create set up is
\* well typed.
LEMMA TypeInit == Init => TypeOK
  <1> SUFFICES ASSUME Init PROVE TypeOK
    OBVIOUS
  <1>1. slot \in 0 .. NumWorkers /\ reductions \in [Proc -> Int]
        /\ total_count \in Nat
    BY ConstantFacts DEF Init, beam_run_queue_create
  <1>2. queues \in [Priority -> Seq(Proc)]
    BY DEF Init, beam_run_queue_create
  <1> QED
    BY <1>1, <1>2 DEF Init, TypeOK, ProcState, HostPc, WorkerPc, Results

\* Every step of the host and of a worker keeps the types: one step of the
\* proof per action.
LEMMA TypeStep ==
    ASSUME TypeOK, PcAgrees, [Next]_vars
    PROVE  TypeOK'
  <1> USE NoProcAssumption
      DEF TypeOK, rqVars, procVars, hostVars,
          workVars, histVars
  <1>1. ASSUME NEW p \in Proc, NEW prio \in SpawnPriorities, HostEnqueue(p, prio)
        PROVE  TypeOK'
    <2>1. prio \in Priority /\ beam_run_queue_enqueue(p, prio)
      BY <1>1, SetFacts DEF HostEnqueue
    <2>2. queues' \in [Priority -> Seq(Proc)] /\ total_count' \in Nat
      BY <2>1, EnqueueEffect
    <2> QED BY <1>1, <2>2 DEF HostEnqueue, HostPc
  <1>2. CASE HostMarkRunnable
    BY <1>2 DEF HostMarkRunnable, beam_process_set_state, ProcState, HostPc
  <1>3. CASE PoolStart
    BY <1>3 DEF PoolStart, HostPc
  <1>4. CASE CreateWorkerFails
    <2>1. slot' \in 0 .. NumWorkers
      BY <1>4, ConstantFacts DEF CreateWorkerFails
    <2> QED BY <1>4, <2>1 DEF CreateWorkerFails, HostPc
  <1>5. CASE PoolStarted
    BY <1>5 DEF PoolStarted, HostPc
  <1>6. CASE PoolStop
    BY <1>6 DEF PoolStop, HostPc
  <1>7. CASE JoinWorker
    <2>1. slot' \in 0 .. NumWorkers
      BY <1>7, ConstantFacts DEF JoinWorker
    <2> QED BY <1>7, <2>1 DEF JoinWorker
  <1>8. CASE PoolStopped
    BY <1>8 DEF PoolStopped, HostPc
  <1>9. CASE PoolDestroy
    BY <1>9 DEF PoolDestroy, HostPc
  <1>10. CASE PoolFree
    BY <1>10 DEF PoolFree, HostPc
  <1>11. ASSUME NEW t \in Thread, CreateWorker(t)
        PROVE  TypeOK'
    <2>1. slot' \in 0 .. NumWorkers
      BY <1>11, ConstantFacts DEF CreateWorker
    <2> QED BY <1>11, <2>1 DEF CreateWorker, WorkerPc
  <1>12. ASSUME NEW t \in Thread, Worker(t)
        PROVE  TypeOK'
    <2> USE DEF Goto, WorkerPc
    <2>1. CASE WorkerLoop(t)
      BY <2>1 DEF WorkerLoop
    <2>2. CASE WorkerDequeueNothing(t)
      BY <2>2 DEF WorkerDequeueNothing
    <2>3. CASE WorkerStealNothing(t)
      BY <2>3 DEF WorkerStealNothing
    <2>4. CASE WorkerWakes(t)
      BY <2>4 DEF WorkerWakes
    <2>5. CASE WorkerMarkRunning(t)
      BY <2>5 DEF WorkerMarkRunning, beam_process_set_state, ProcState
    <2>6. CASE WorkerRequeues(t)
      <3>1. hold[t] \in Proc
        BY <2>6 DEF WorkerRequeues, PcAgrees
      <3>2. DefaultReductions \in Int
        BY ConstantFacts
      <3>3. reductions' \in [Proc -> Int]
        BY <2>6, <3>1, <3>2 DEF WorkerRequeues
      <3> QED BY <2>6, <3>3 DEF WorkerRequeues
    <2>7. CASE WorkerReleases(t)
      BY <2>7 DEF WorkerReleases, AfterSlice, ForgetSlice, Results
    <2>8. CASE WorkerEnqueueFails(t)
      BY <2>8 DEF WorkerEnqueueFails, PcAgrees, AfterSlice, ForgetSlice, Results
    <2>9. CASE WorkerMarkRunnable(t)
      BY <2>9 DEF WorkerMarkRunnable, beam_process_set_state, ProcState, AfterSlice, ForgetSlice, Results
    <2>10. CASE WorkerDequeue(t)
      <3>1. PICK p \in Proc : beam_run_queue_dequeue(p) /\ hold' = [hold EXCEPT ![t] = p]
        BY <2>10 DEF WorkerDequeue
      <3>2. queues' \in [Priority -> Seq(Proc)] /\ total_count' \in Nat
        BY <3>1, TakeEffect DEF Popped
      <3> QED BY <2>10, <3>1, <3>2 DEF WorkerDequeue
    <2>11. CASE WorkerSteal(t)
      <3>1. PICK p \in Proc : beam_run_queue_steal(p) /\ hold' = [hold EXCEPT ![t] = p]
        BY <2>11 DEF WorkerSteal
      <3>2. queues' \in [Priority -> Seq(Proc)] /\ total_count' \in Nat
        BY <3>1, TakeEffect DEF Popped
      <3> QED BY <2>11, <3>1, <3>2 DEF WorkerSteal
    <2>12. CASE WorkerEnqueue(t)
      <3>1. hold[t] \in Proc
        BY <2>12 DEF WorkerEnqueue, PcAgrees
      <3>2. queues' \in [Priority -> Seq(Proc)] /\ total_count' \in Nat
        BY <2>12, <3>1, EnqueueEffect
        DEF WorkerEnqueue, Priority, BEAM_PRIO_NORMAL, BEAM_PRIO_MAX, BEAM_PRIO_LOW
      <3> QED BY <2>12, <3>1, <3>2 DEF WorkerEnqueue
    <2>13. CASE WorkerExecute(t)
      <3>1. hold[t] \in Proc
        BY <2>13 DEF WorkerExecute, PcAgrees
      <3>2. PICK outcome \in Outcomes :
              /\ procState' = [procState EXCEPT ![hold[t]] = StateAfter(outcome, @)]
              /\ \E r \in ReductionsAfter(outcome, reductions[hold[t]]) :
                   reductions' = [reductions EXCEPT ![hold[t]] = r]
              /\ res' = [res EXCEPT ![t] = ResultOf(outcome)]
              /\ ended' = IF outcome \in Resumable THEN ended \ {hold[t]}
                                                   ELSE ended \cup {hold[t]}
        BY <2>13 DEF WorkerExecute
      <3>3. PICK r \in ReductionsAfter(outcome, reductions[hold[t]]) :
              reductions' = [reductions EXCEPT ![hold[t]] = r]
        BY <3>2
      <3>4. reductions' \in [Proc -> Int]
        BY <3>1, <3>3 DEF ReductionsAfter
      <3>5. procState' \in [Proc -> ProcState]
        BY <3>1, <3>2 DEF StateAfter, ProcState
      <3>6. res' \in [Thread -> Results]
        BY <3>2, SetFacts DEF ResultOf, Results, AllOutcomes
      <3>7. ended' \subseteq Proc
        BY <3>1, <3>2
      <3> QED BY <2>13, <3>4, <3>5, <3>6, <3>7 DEF WorkerExecute
    <2> QED
      BY <1>12, <2>1, <2>2, <2>3, <2>4, <2>5, <2>6, <2>7, <2>8, <2>9, <2>10, <2>11, <2>12, <2>13 DEF Worker
  <1>13. CASE UNCHANGED vars
    BY <1>13 DEF vars
  <1> QED
    BY <1>1, <1>2, <1>3, <1>4, <1>5, <1>6, <1>7, <1>8, <1>9, <1>10, <1>11, <1>12, <1>13
    DEF Next, HostCalls, HostContinues, Finished

\* Before the pool starts nobody holds, nor owes a state to, a process.
LEMMA PcInit == Init => PcAgrees
  BY DEF Init, PcAgrees

\* What a thread holds and owes follows from where it is, step by step.
LEMMA PcStep ==
    ASSUME TypeOK, PcAgrees, [Next]_vars
    PROVE  PcAgrees'
  <1> USE NoProcAssumption
      DEF TypeOK, PcAgrees, procVars, hostVars, workVars, histVars
  <1>1. ASSUME NEW p \in Proc, NEW prio \in SpawnPriorities, HostEnqueue(p, prio)
        PROVE  PcAgrees'
    BY <1>1 DEF HostEnqueue
  <1>2. CASE HostMarkRunnable
    BY <1>2 DEF HostMarkRunnable
  <1>3. CASE PoolStart
    BY <1>3 DEF PoolStart
  <1>4. CASE CreateWorkerFails
    BY <1>4 DEF CreateWorkerFails
  <1>5. CASE PoolStarted
    BY <1>5 DEF PoolStarted
  <1>6. CASE PoolStop
    BY <1>6 DEF PoolStop
  <1>7. CASE JoinWorker
    BY <1>7 DEF JoinWorker
  <1>8. CASE PoolStopped
    BY <1>8 DEF PoolStopped
  <1>9. CASE PoolDestroy
    BY <1>9 DEF PoolDestroy
  <1>10. CASE PoolFree
    BY <1>10 DEF PoolFree
  <1>11. ASSUME NEW t \in Thread, CreateWorker(t)
        PROVE  PcAgrees'
    BY <1>11 DEF CreateWorker
  <1>12. ASSUME NEW t \in Thread, Worker(t)
        PROVE  PcAgrees'
    <2> USE DEF Goto
    <2>1. CASE WorkerLoop(t)
      BY <2>1 DEF WorkerLoop
    <2>2. CASE WorkerDequeue(t)
      BY <2>2 DEF WorkerDequeue
    <2>3. CASE WorkerDequeueNothing(t)
      BY <2>3 DEF WorkerDequeueNothing
    <2>4. CASE WorkerSteal(t)
      BY <2>4 DEF WorkerSteal
    <2>5. CASE WorkerStealNothing(t)
      BY <2>5 DEF WorkerStealNothing
    <2>6. CASE WorkerWakes(t)
      BY <2>6 DEF WorkerWakes
    <2>7. CASE WorkerMarkRunning(t)
      BY <2>7 DEF WorkerMarkRunning
    <2>8. CASE WorkerExecute(t)
      BY <2>8 DEF WorkerExecute
    <2>9. CASE WorkerRequeues(t)
      BY <2>9 DEF WorkerRequeues
    <2>10. CASE WorkerReleases(t)
      BY <2>10 DEF WorkerReleases, AfterSlice
    <2>11. CASE WorkerEnqueue(t)
      BY <2>11 DEF WorkerEnqueue
    <2>12. CASE WorkerEnqueueFails(t)
      BY <2>12 DEF WorkerEnqueueFails, AfterSlice
    <2>13. CASE WorkerMarkRunnable(t)
      BY <2>13 DEF WorkerMarkRunnable, AfterSlice
    <2> QED
      BY <1>12, <2>1, <2>2, <2>3, <2>4, <2>5, <2>6, <2>7, <2>8, <2>9, <2>10, <2>11, <2>12, <2>13 DEF Worker
  <1>13. CASE UNCHANGED vars
    BY <1>13 DEF vars
  <1> QED
    BY <1>1, <1>2, <1>3, <1>4, <1>5, <1>6, <1>7, <1>8, <1>9, <1>10, <1>11, <1>12, <1>13
    DEF Next, HostCalls, HostContinues, Finished

-----------------------------------------------------------------------------
(* Every step keeps each process in one place. *)

\* Linking a process that is nowhere.
LEMMA LinkKeepsOwner ==
    ASSUME TypeOK, SingleOwner,
           NEW p \in Proc, NEW prio \in Priority,
           beam_run_queue_enqueue(p, prio),
           \A a \in Priority : \A i \in 1 .. Len(queues[a]) : queues[a][i] # p,
           \A t \in Thread : hold'[t] # p,
           \A t \in Thread : hold'[t] = hold[t] \/ hold'[t] = NoProc
    PROVE  /\ SingleOwner'
           /\ \A a \in Priority : \A i \in 1 .. Len(queues'[a]) :
                \/ queues'[a][i] = p
                \/ \E j \in 1 .. Len(queues[a]) : queues'[a][i] = queues[a][j]
  <1>1. /\ queues' \in [Priority -> Seq(Proc)]
        /\ \A a \in Priority : a # prio => queues'[a] = queues[a]
        /\ Len(queues'[prio]) = Len(queues[prio]) + 1
        /\ \A i \in 1 .. Len(queues[prio]) : queues'[prio][i] = queues[prio][i]
        /\ queues'[prio][Len(queues[prio]) + 1] = p
    BY EnqueueEffect DEF TypeOK
  <1>2. \A a \in Priority : Len(queues[a]) \in Nat
    BY DEF TypeOK
  <1>3. \A a \in Priority : \A i \in 1 .. Len(queues'[a]) :
          \/ a = prio /\ i = Len(queues[prio]) + 1 /\ queues'[a][i] = p
          \/ i \in 1 .. Len(queues[a]) /\ queues'[a][i] = queues[a][i]
    BY <1>1, <1>2
  <1>4. LinkedOnce'
    <2> SUFFICES ASSUME NEW a \in Priority, NEW b \in Priority,
                        NEW i \in 1 .. Len(queues'[a]), NEW j \in 1 .. Len(queues'[b]),
                        queues'[a][i] = queues'[b][j]
                 PROVE  a = b /\ i = j
      BY DEF LinkedOnce
    <2>1. \/ a = prio /\ i = Len(queues[prio]) + 1 /\ queues'[a][i] = p
          \/ i \in 1 .. Len(queues[a]) /\ queues'[a][i] = queues[a][i]
      BY <1>3
    <2>2. \/ b = prio /\ j = Len(queues[prio]) + 1 /\ queues'[b][j] = p
          \/ j \in 1 .. Len(queues[b]) /\ queues'[b][j] = queues[b][j]
      BY <1>3
    <2>3. CASE queues'[a][i] = p
      <3>1. a = prio /\ i = Len(queues[prio]) + 1
        BY <2>1, <2>3
      <3>2. b = prio /\ j = Len(queues[prio]) + 1
        BY <2>2, <2>3
      <3> QED BY <3>1, <3>2
    <2>4. CASE queues'[a][i] # p
      <3>1. i \in 1 .. Len(queues[a]) /\ queues'[a][i] = queues[a][i]
        BY <2>1, <2>4
      <3>2. j \in 1 .. Len(queues[b]) /\ queues'[b][j] = queues[b][j]
        BY <2>2, <2>4
      <3>3. \A m \in 1 .. Len(queues[a]), n \in 1 .. Len(queues[b]) :
              queues[a][m] = queues[b][n] => a = b /\ m = n
        BY DEF SingleOwner, LinkedOnce
      <3> QED BY <3>1, <3>2, <3>3
    <2> QED BY <2>3, <2>4
  <1>5. HeldNotLinked'
    <2>1. \A a \in Priority : \A i \in 1 .. Len(queues[a]) : queues[a][i] # NoProc
      BY NoProcAssumption DEF TypeOK
    <2> QED BY <1>3, <2>1, NoProcAssumption DEF SingleOwner, HeldNotLinked
  <1>6. HeldOnce'
    BY DEF SingleOwner, HeldOnce
  <1> QED BY <1>3, <1>4, <1>5, <1>6 DEF SingleOwner

\* Taking the head of a level.
LEMMA TakeKeepsOwner ==
    ASSUME TypeOK, SingleOwner, UnspawnedIsNowhere,
           NEW t \in Thread, NEW p \in Proc,
           beam_run_queue_dequeue(p) \/ beam_run_queue_steal(p),
           hold' = [hold EXCEPT ![t] = p],
           unspawned' = unspawned
    PROVE  SingleOwner' /\ UnspawnedIsNowhere'
  <1>1. PICK prio \in Priority : Popped(prio, p)
    BY TakeEffect DEF TypeOK
  <1>2. \A a \in Priority : Len(queues[a]) \in Nat
    BY DEF TypeOK
  <1>3. \A a \in Priority : \A i \in 1 .. Len(queues'[a]) :
          \/ a # prio /\ i \in 1 .. Len(queues[a]) /\ queues'[a][i] = queues[a][i]
          \/ a = prio /\ i + 1 \in 1 .. Len(queues[a]) /\ i + 1 # 1
             /\ queues'[a][i] = queues[a][i + 1]
    BY <1>1, <1>2 DEF Popped
  <1>4. p = queues[prio][1] /\ 1 \in 1 .. Len(queues[prio])
    BY <1>1, <1>2 DEF Popped
  <1>5. \A a \in Priority : \A i \in 1 .. Len(queues'[a]) : queues'[a][i] # p
    BY <1>3, <1>4 DEF SingleOwner, LinkedOnce
  <1>6. \A u \in Thread : hold[u] # p
    BY <1>4 DEF SingleOwner, HeldNotLinked
  <1>7. \A u \in Thread : hold'[u] = IF u = t THEN p ELSE hold[u]
    BY DEF TypeOK
  <1>8. LinkedOnce'
    <2> SUFFICES ASSUME NEW a \in Priority, NEW b \in Priority,
                        NEW i \in 1 .. Len(queues'[a]), NEW j \in 1 .. Len(queues'[b]),
                        queues'[a][i] = queues'[b][j]
                 PROVE  a = b /\ i = j
      BY DEF LinkedOnce
    <2>1. PICK i0 \in 1 .. Len(queues[a]) :
            queues'[a][i] = queues[a][i0] /\ i0 = IF a = prio THEN i + 1 ELSE i
      BY <1>3
    <2>2. PICK j0 \in 1 .. Len(queues[b]) :
            queues'[b][j] = queues[b][j0] /\ j0 = IF b = prio THEN j + 1 ELSE j
      BY <1>3
    <2>3. queues[a][i0] = queues[b][j0]
      BY <2>1, <2>2
    <2>4. a = b /\ i0 = j0
      <3>1. \A m \in 1 .. Len(queues[a]), n \in 1 .. Len(queues[b]) :
              queues[a][m] = queues[b][n] => a = b /\ m = n
        BY DEF SingleOwner, LinkedOnce
      <3> QED BY <2>1, <2>2, <2>3, <3>1
    <2> QED BY <2>1, <2>2, <2>4
  <1>9. HeldNotLinked'
    BY <1>3, <1>5, <1>7 DEF SingleOwner, HeldNotLinked
  <1>10. HeldOnce'
    BY <1>6, <1>7 DEF SingleOwner, HeldOnce
  <1>11. UnspawnedIsNowhere'
    <2> SUFFICES ASSUME NEW q \in unspawned
                 PROVE  /\ \A u \in Thread : hold'[u] # q
                        /\ \A a \in Priority : \A i \in 1 .. Len(queues'[a]) :
                             queues'[a][i] # q
      BY DEF UnspawnedIsNowhere
    <2>1. \A u \in Thread : hold'[u] # q
      BY <1>4, <1>7 DEF UnspawnedIsNowhere
    <2>2. \A a \in Priority : \A i \in 1 .. Len(queues'[a]) : queues'[a][i] # q
      BY <1>3 DEF UnspawnedIsNowhere
    <2> QED BY <2>1, <2>2
  <1> QED BY <1>8, <1>9, <1>10, <1>11 DEF SingleOwner

\* Steps that leave the queue alone, and at most let go of a process.
LEMMA ReleaseKeepsOwner ==
    ASSUME TypeOK, SingleOwner, UnspawnedIsNowhere,
           queues' = queues, unspawned' = unspawned,
           \A t \in Thread : hold'[t] = hold[t] \/ hold'[t] = NoProc
    PROVE  SingleOwner' /\ UnspawnedIsNowhere'
  <1>1. \A a \in Priority : \A i \in 1 .. Len(queues[a]) : queues[a][i] # NoProc
    BY NoProcAssumption DEF TypeOK
  <1>2. NoProc \notin unspawned
    BY NoProcAssumption DEF TypeOK
  <1> QED
    BY <1>1, <1>2
    DEF SingleOwner, LinkedOnce, HeldNotLinked, HeldOnce, UnspawnedIsNowhere

\* Before anything is linked nothing is owned.
LEMMA OwnerInit == Init => SingleOwner /\ UnspawnedIsNowhere
  <1> SUFFICES ASSUME Init PROVE SingleOwner /\ UnspawnedIsNowhere
    OBVIOUS
  <1>1. \A a \in Priority : Len(queues[a]) = 0
    BY DEF Init, beam_run_queue_create
  <1>2. \A a \in Priority : 1 .. Len(queues[a]) = {}
    BY <1>1
  <1>3. \A t \in Thread : hold[t] = NoProc
    BY DEF Init
  <1>4. unspawned = Proc
    BY DEF Init
  <1> QED
    BY <1>2, <1>3, <1>4, NoProcAssumption
    DEF SingleOwner, LinkedOnce, HeldNotLinked, HeldOnce, UnspawnedIsNowhere

\* Every step keeps one owner per process: linking takes the process from its
\* only holder, taking it unlinks its only node.
LEMMA OwnerStep ==
    ASSUME IInv, [Next]_vars
    PROVE  SingleOwner' /\ UnspawnedIsNowhere'
  <1> TypeOK /\ PcAgrees /\ SingleOwner /\ UnspawnedIsNowhere
    BY DEF IInv
  <1> USE DEF rqVars, procVars, hostVars, workVars, histVars
  <1>1. ASSUME NEW p \in Proc, NEW prio \in SpawnPriorities, HostEnqueue(p, prio)
        PROVE  SingleOwner' /\ UnspawnedIsNowhere'
    <2>1. /\ prio \in Priority /\ beam_run_queue_enqueue(p, prio)
          /\ p \in unspawned /\ unspawned' = unspawned \ {p} /\ hold' = hold
      BY <1>1, SetFacts DEF HostEnqueue
    <2>2. /\ \A a \in Priority : \A i \in 1 .. Len(queues[a]) : queues[a][i] # p
          /\ \A t \in Thread : hold'[t] # p
          /\ \A t \in Thread : hold'[t] = hold[t] \/ hold'[t] = NoProc
      BY <2>1 DEF UnspawnedIsNowhere
    <2>3. /\ SingleOwner'
          /\ \A a \in Priority : \A i \in 1 .. Len(queues'[a]) :
                \/ queues'[a][i] = p
                \/ \E j \in 1 .. Len(queues[a]) : queues'[a][i] = queues[a][j]
      BY <2>1, <2>2, LinkKeepsOwner
    <2>4. UnspawnedIsNowhere'
      BY <2>1, <2>3 DEF UnspawnedIsNowhere
    <2> QED BY <2>3, <2>4
  <1>2. ASSUME NEW t \in Thread, WorkerEnqueue(t)
        PROVE  SingleOwner' /\ UnspawnedIsNowhere'
    <2>1. /\ hold[t] \in Proc /\ BEAM_PRIO_NORMAL \in Priority
          /\ beam_run_queue_enqueue(hold[t], BEAM_PRIO_NORMAL)
          /\ hold' = [hold EXCEPT ![t] = NoProc] /\ unspawned' = unspawned
      BY <1>2
      DEF WorkerEnqueue, PcAgrees, TypeOK, Priority, BEAM_PRIO_NORMAL,
          BEAM_PRIO_MAX, BEAM_PRIO_LOW
    <2>2. \A u \in Thread : hold'[u] = IF u = t THEN NoProc ELSE hold[u]
      BY <2>1 DEF TypeOK
    <2>3. /\ \A a \in Priority : \A i \in 1 .. Len(queues[a]) : queues[a][i] # hold[t]
          /\ \A u \in Thread : hold'[u] # hold[t]
          /\ \A u \in Thread : hold'[u] = hold[u] \/ hold'[u] = NoProc
      BY <2>1, <2>2, NoProcAssumption DEF SingleOwner, HeldNotLinked, HeldOnce
    <2>4. /\ SingleOwner'
          /\ \A a \in Priority : \A i \in 1 .. Len(queues'[a]) :
                \/ queues'[a][i] = hold[t]
                \/ \E j \in 1 .. Len(queues[a]) : queues'[a][i] = queues[a][j]
      BY <2>1, <2>3, LinkKeepsOwner
    <2>5. NoProc \notin unspawned
      BY NoProcAssumption DEF TypeOK
    <2>6. UnspawnedIsNowhere'
      BY <2>1, <2>2, <2>4, <2>5 DEF UnspawnedIsNowhere
    <2> QED BY <2>4, <2>6
  <1>3. ASSUME NEW t \in Thread, WorkerDequeue(t) \/ WorkerSteal(t)
        PROVE  SingleOwner' /\ UnspawnedIsNowhere'
    <2>1. PICK p \in Proc :
            /\ beam_run_queue_dequeue(p) \/ beam_run_queue_steal(p)
            /\ hold' = [hold EXCEPT ![t] = p]
      BY <1>3 DEF WorkerDequeue, WorkerSteal
    <2>2. unspawned' = unspawned
      BY <1>3 DEF WorkerDequeue, WorkerSteal
    <2> QED BY <2>1, <2>2, TakeKeepsOwner
  <1>4. ASSUME NEW t \in Thread,
               WorkerReleases(t) \/ WorkerEnqueueFails(t)
        PROVE  SingleOwner' /\ UnspawnedIsNowhere'
    <2>1. /\ queues' = queues /\ unspawned' = unspawned
          /\ hold' = [hold EXCEPT ![t] = NoProc]
      BY <1>4 DEF WorkerReleases, WorkerEnqueueFails
    <2>2. \A u \in Thread : hold'[u] = hold[u] \/ hold'[u] = NoProc
      BY <2>1 DEF TypeOK
    <2> QED BY <2>1, <2>2, ReleaseKeepsOwner
  <1>5. ASSUME queues' = queues, unspawned' = unspawned, hold' = hold
        PROVE  SingleOwner' /\ UnspawnedIsNowhere'
    <2>1. \A u \in Thread : hold'[u] = hold[u] \/ hold'[u] = NoProc
      BY <1>5
    <2> QED BY <1>5, <2>1, ReleaseKeepsOwner
  <1>6. ASSUME NEW t \in Thread, Worker(t)
        PROVE  SingleOwner' /\ UnspawnedIsNowhere'
    BY <1>2, <1>3, <1>4, <1>5, <1>6
    DEF Worker, WorkerLoop, WorkerDequeueNothing, WorkerStealNothing,
        WorkerWakes, WorkerMarkRunning, WorkerExecute, WorkerRequeues,
        WorkerMarkRunnable
  <1>7. CASE HostContinues
    BY <1>5, <1>7
    DEF HostContinues, HostMarkRunnable, PoolStarted, CreateWorkerFails,
        CreateWorker, JoinWorker, PoolStopped, PoolFree
  <1>8. CASE HostCalls
    BY <1>1, <1>5, <1>8 DEF HostCalls, PoolStart, PoolStop, PoolDestroy
  <1>9. CASE UNCHANGED vars
    BY <1>5, <1>9 DEF vars
  <1> QED
    BY <1>6, <1>7, <1>8, <1>9 DEF Next, Finished

-----------------------------------------------------------------------------
\* The inductive invariant holds in every reachable state.
LEMMA Inductive == Spec => []IInv
  <1>1. Init => IInv
    BY TypeInit, PcInit, OwnerInit DEF IInv
  <1>2. IInv /\ [Next]_vars => IInv'
    BY TypeStep, PcStep, OwnerStep DEF IInv
  <1> QED BY <1>1, <1>2, PTL DEF Spec

(***************************************************************************)
(* The variables of the pool keep their types, for any number of threads   *)
(* and processes.                                                          *)
(***************************************************************************)
THEOREM TypeCorrect == Spec => []TypeOK
  <1>1. IInv => TypeOK
    BY DEF IInv
  <1> QED BY <1>1, Inductive, PTL

(***************************************************************************)
(* No process is ever linked twice, linked while a worker holds it, or     *)
(* held by two workers: the locked sections of run_queue.c and the rule    *)
(* that only the holder links a process again suffice, however the         *)
(* unlocked state writes interleave and even when a failed pool_start      *)
(* leaves workers behind.                                                  *)
(***************************************************************************)
THEOREM OneOwner == Spec => []SingleOwner
  <1>1. IInv => SingleOwner
    BY DEF IInv
  <1> QED BY <1>1, Inductive, PTL

=============================================================================
