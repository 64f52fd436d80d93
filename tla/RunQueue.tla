------------------------------ MODULE RunQueue ------------------------------
(***************************************************************************)
(* The priority run queue of src/scheduler/run_queue.c: four FIFO levels   *)
(* and a total count, all guarded by one mutex.                            *)
(*                                                                         *)
(* Everything the C code does between pthread_mutex_lock and               *)
(* pthread_mutex_unlock is one step of the operators below.  The write of  *)
(* the process state that each C function makes AFTER it has unlocked      *)
(* (run_queue.c:56, :85, :119) is not part of that step: the callers take  *)
(* it as a step of their own, beam_process_set_state, so that other        *)
(* threads may run in between, as they may in the program.                 *)
(***************************************************************************)
EXTENDS Integers, Sequences

CONSTANTS Proc,     \* the processes (beam_process_t*)
          NoProc    \* the NULL process pointer

ASSUME NoProcAssumption == NoProc \notin Proc

VARIABLES queues,       \* queues[prio]: the processes of a level, head first
          total_count,  \* rq->total_count
          procState     \* proc->state of every process

rqVars == <<queues, total_count>>

-----------------------------------------------------------------------------
\* beam_priority_t: the smaller the number, the more urgent the level.
BEAM_PRIO_MAX    == 0
BEAM_PRIO_HIGH   == 1
BEAM_PRIO_NORMAL == 2
BEAM_PRIO_LOW    == 3
Priority == BEAM_PRIO_MAX .. BEAM_PRIO_LOW

\* beam_process_state_t; SUSPENDED is declared in the C enum and never set.
ProcState == {"RUNNABLE", "RUNNING", "WAITING", "EXITED"}

\* A level as the set of processes linked on it.
OnLevel(prio) == {queues[prio][i] : i \in 1 .. Len(queues[prio])}

\* The process is linked on some level.
Queued(proc) == \E prio \in Priority : proc \in OnLevel(prio)

-----------------------------------------------------------------------------
\* beam_run_queue_create: memset leaves every level empty.
beam_run_queue_create ==
    /\ queues = [prio \in Priority |-> << >>]
    /\ total_count = 0

\* Mutant of the next definition: the counter is not maintained.
EnqueueForgetsCount(proc, prio) ==
    /\ queues' = [queues EXCEPT ![prio] = Append(@, proc)]
    /\ UNCHANGED total_count

\* The locked part of beam_run_queue_enqueue: link at the tail, count.
beam_run_queue_enqueue(proc, prio) ==
    /\ queues' = [queues EXCEPT ![prio] = Append(@, proc)]
    /\ total_count' = total_count + 1

\* Unlink the head of a level: what dequeue and steal do with the level chosen.
PopHead(prio, proc) ==
    /\ proc = Head(queues[prio])
    /\ queues' = [queues EXCEPT ![prio] = Tail(@)]
    /\ total_count' = total_count - 1

\* Mutant of the next definition: the head is returned but stays linked.
DequeueLeavesHead(proc) ==
    /\ total_count > 0
    /\ \E prio \in Priority :
        /\ queues[prio] # << >>
        /\ \A q \in Priority : q < prio => queues[q] = << >>
        /\ proc = Head(queues[prio])
    /\ UNCHANGED rqVars

\* Mutant of the next definition: the levels are scanned from the wrong end.
DequeueLowestFirst(proc) ==
    /\ total_count > 0
    /\ \E prio \in Priority :
        /\ queues[prio] # << >>
        /\ \A q \in Priority : q > prio => queues[q] = << >>
        /\ PopHead(prio, proc)

\* The locked part of a successful beam_run_queue_dequeue: MAX -> LOW.
beam_run_queue_dequeue(proc) ==
    /\ total_count > 0
    /\ \E prio \in Priority :
        /\ queues[prio] # << >>
        /\ \A q \in Priority : q < prio => queues[q] = << >>
        /\ PopHead(prio, proc)

\* The locked part of a successful beam_run_queue_steal: LOW -> MAX.
beam_run_queue_steal(proc) ==
    /\ total_count > 0
    /\ \E prio \in Priority :
        /\ queues[prio] # << >>
        /\ \A q \in Priority : q > prio => queues[q] = << >>
        /\ PopHead(prio, proc)

\* Dequeue and steal return NULL: no process is counted, or none is linked.
NothingQueued ==
    \/ total_count = 0
    \/ \A prio \in Priority : queues[prio] = << >>

\* beam_process_set_state: a plain store, with no lock held.
beam_process_set_state(proc, state) ==
    procState' = [procState EXCEPT ![proc] = state]

-----------------------------------------------------------------------------
(***************************************************************************)
(* The count that dequeue and steal trust to decide that the queue is      *)
(* empty is the number of nodes really linked on the four levels.          *)
(***************************************************************************)
CountsAgree ==
    total_count = Len(queues[BEAM_PRIO_MAX]) + Len(queues[BEAM_PRIO_HIGH])
                + Len(queues[BEAM_PRIO_NORMAL]) + Len(queues[BEAM_PRIO_LOW])
=============================================================================
