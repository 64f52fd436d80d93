--------------------------------- MODULE Vm ---------------------------------
(***************************************************************************)
(* beam_vm.c over its subsystems, and the creation of a worker pool: who   *)
(* owns which block when any allocation may fail.  The subsystems' own     *)
(* behaviour is in the modules named after them; here each is its blocks.  *)
(***************************************************************************)
EXTENDS Loader

CONSTANT PoolWorkers    \* num_workers

ASSUME PoolWorkersAssumption == PoolWorkers \in Nat \ {0}

VARIABLES
    ctx,            \* is there a beam_context_t?
    pool,           \* is there a beam_scheduler_pool_t?
    halfPool        \* a pool was given up with slots not yet written

vmVars == <<loaderVars, ctx>>

poolVars == <<pool, halfPool>>

\* Blocks of each subsystem when it is new.  A subsystem that cannot have all
\* of them returns those it has and is NULL.
SubsystemBlocks ==
    [code_server |-> 1, atom_table |-> 3, ets_table |-> 2, poller |-> 1,
     run_queue |-> 1, scheduler |-> 1]

Subsystem == DOMAIN SubsystemBlocks

BlocksOf(subsystems) ==
    BagUnion({Several(s, 0, SubsystemBlocks[s]) : s \in subsystems})

PoolBlocks(n) == One("pool", 0) (+) One("schedulers", 0) (+) One("threads", 0)
                     (+) Several("pool_scheduler", 0, n)

VmInit ==
    /\ LoaderInit
    /\ ctx = FALSE /\ pool = FALSE /\ halfPool = FALSE

\* Mutant of the next definition: the failing half returns the context only.
CreateForgetsSubsystems(got) ==
    LET all == One("ctx", 0) (+) BlocksOf(got)
    IN  /\ ~ctx
        /\ IF got = Subsystem
           THEN ctx' = TRUE /\ mem' = sys_alloc(mem, all)
           ELSE ctx' = FALSE /\ mem' = sys_free(sys_alloc(mem, all), One("ctx", 0))
        /\ UNCHANGED loaderVars

\* All six are tried; when one is NULL beam_vm_destroy returns the others.
\* beam_scheduler_create refuses a NULL run queue.
beam_vm_create(got) ==
    LET all == One("ctx", 0) (+) BlocksOf(got)
    IN  /\ ~ctx
        /\ "scheduler" \in got => "run_queue" \in got
        /\ IF got = Subsystem
           THEN ctx' = TRUE /\ mem' = sys_alloc(mem, all)
           ELSE ctx' = FALSE /\ mem' = sys_free(sys_alloc(mem, all), all)
        /\ UNCHANGED loaderVars

\* The code server destroys the files it owns.
beam_vm_destroy ==
    /\ ctx /\ ctx' = FALSE
    /\ mem' = sys_free(mem, One("ctx", 0) (+) BlocksOf(Subsystem) (+) ModuleBlocks)
    /\ files' = [f \in File |-> IF f \in hand THEN files[f] ELSE NoFile]
    /\ modules' = <<>>
    /\ UNCHANGED <<hand, boxed, parses, odd>>

\* Both arrays are tried; schedulers come one by one after them.  On a failure
\* pool_destroy walks all slots of the array, of which only the first n, and
\* the one that failed, have been written: a slot that is not is NULL by luck
\* or is destroyed as if it were a scheduler.
beam_scheduler_pool_create(arrays, n, lucky) ==
    LET taken == One("pool", 0) (+) SetToBag({<<a, 0>> : a \in arrays})
                     (+) Several("pool_scheduler", 0, n)
        failed == arrays # {"schedulers", "threads"} \/ n < PoolWorkers
        written == IF arrays = {"schedulers", "threads"} THEN n + 1 ELSE 0
        unwritten == "schedulers" \in arrays /\ written < PoolWorkers
    IN  /\ ~pool
        /\ n > 0 => arrays = {"schedulers", "threads"}
        /\ pool' = ~failed
        /\ mem' = IF failed
                  THEN Touch(sys_free(sys_alloc(mem, taken), taken),
                             unwritten /\ ~lucky)
                  ELSE sys_alloc(mem, taken)
        /\ halfPool' = (halfPool \/ (failed /\ unwritten))

\* A pool that is not running; the one that runs is in SchedulerPool.
beam_scheduler_pool_destroy ==
    /\ pool /\ pool' = FALSE
    /\ mem' = sys_free(mem, PoolBlocks(PoolWorkers))
    /\ UNCHANGED halfPool

\* Any of a file's allocations may fail.  The code server's calls need the
\* server, and a host registers under names that are kept whole.
VmNext ==
    \/ \E got \in SUBSET Subsystem : beam_vm_create(got)
    \/ beam_vm_destroy
    \/ /\ \/ \E image \in Images :
                \E ok \in SUBSET Requests(image), wrapped, none \in BOOLEAN :
                    LoadFile(image, ok, wrapped, none)
          \/ ctx /\ \E mod_name \in {n \in AtomNames : Stored[n] = n}, f \in File :
                        beam_code_server_register_module(mod_name, f)
          \/ \E f \in File : DestroyFile(f)
       /\ UNCHANGED ctx

VmSpec == MemoryInit /\ VmInit /\ [][VmNext]_<<mem, vmVars>>

PoolNext ==
    \/ \E arrays \in SUBSET {"schedulers", "threads"}, n \in 0 .. PoolWorkers,
          lucky \in BOOLEAN : beam_scheduler_pool_create(arrays, n, lucky)
    \/ beam_scheduler_pool_destroy

-----------------------------------------------------------------------------
VmBlocks ==
    (IF ctx THEN One("ctx", 0) (+) BlocksOf(Subsystem) (+) ModuleBlocks
            ELSE EmptyBag)
        (+) (IF pool THEN PoolBlocks(PoolWorkers) ELSE EmptyBag)
        (+) BagUnion({FileBlocks(f, files[f]) : f \in hand})
        (+) SetToBag({<<"module", f>> : f \in boxed})
=============================================================================
