# Verification of the modular BEAM virtual machine

TLA+ models of the concurrent and stateful parts of this repository, checked
with TLC on small instances. The safety properties of the scheduler, the
mailbox, the atom table (with its refinement), ETS, the node table, the poller,
the code server and the interpreter are proved with TLAPS for instances of any
size. Paths below are relative to the repository; `src/...` is its C code.

## The system

| Part | State it keeps | Operations | Who calls it | Hard because | Correct when |
|---|---|---|---|---|---|
| Run queue `src/scheduler/run_queue.c` | four FIFO levels, a total count, one mutex | enqueue, dequeue (MAX to LOW), steal (LOW to MAX) | host, workers | the process state is stored *after* the unlock | a process is linked once; the count is the number linked |
| Scheduler loop and pool `beam_scheduler_loop.c` | worker threads, the `running` flag | step, worker thread, start, stop, destroy | host | workers, host and late stores interleave; a start can fail half way | one owner per process, none lost, stop stops, nobody starves |
| Process `erl_process.c` | state, reductions, one array shared by heap and stack, mailbox, frame | create, push, pop, alloc_heap, setters | everyone | heap and stack grow towards each other | frames survive what happens above them |
| Interpreter `src/emulator/beam_emu.c` | ip, cp, catch frames, X registers | one case per opcode | a worker's slice | preemption between any two instructions, unwinding | calls return, slices end, a cut slice goes on |
| Mailbox `src/messaging/erl_message.c` | lock-free list, two counters, save cursor | enqueue, dequeue, peek, remove, reset | any sender, one receiver | atomic exchange followed by a separate link; plain counter | nothing lost, senders' order, cursor never dangles |
| Atom table `src/global/atom_table.c` | buckets, index map, rwlock | intern, lookup | anyone | read-locked miss is stale under the write lock; the map moves | one atom per name; lookup inverts intern |
| ETS `src/global/ets.c` | buckets, count, table type | insert, lookup, delete, update_counter | anyone | no lock at all | contents follow the operations |
| Garbage collector `src/memory/beam_gc.c` | to-space | collect | the owner | sharing, headers, code addresses among the roots, roots outside the process | all that is reachable is copied, terms stay what they are |
| Allocators `src/memory/beam_alloc.c` | counts of blocks and bytes | alloc, realloc, free | all | any call may fail | what is taken is returned once |
| Loader `beam_load.c`, code server `beam_code_server.c` | parsed files, bounded list of modules | parse, destroy, register, look up | host | allocations fail inside a parse; who owns the file after register | one owner per file, no leak |
| Decoder `beam_decode.c` | none | code chunk to instructions | host | variable length arguments, truncated chunks | stays in step with what was written |
| VM context `src/core/beam_vm.c` | six subsystems | create, destroy | host | any subsystem may fail | all or nothing |
| Node table `src/global/dist_node.c` | bounded list under a read-write lock | connect, is_connected | anyone | names are cut when stored, not when compared | what was connected is found |
| Poller and sockets `src/io/sys_poll.c` | table of descriptors beside the kernel's list | register, poll, listen, accept, dispatch | host | descriptors are reused, memory fails after the read | table and kernel agree, no byte lost |
| BIFs `beam_bif.c` | none | six functions over registers | interpreter, host | walk terms of any age | - |
| NIFs, JIT | - | wrappers, mmap | host | - | - |

The host creates processes, links them on the run queue and starts the pool. A
worker dequeues (or steals) a process, the interpreter runs a slice of it and
writes its state, and the worker looks at that state to link it again or let it
go. A slice may send to other processes' mailboxes, and reads its own through
the save cursor. The atom table and ETS are shared by all.

## Modules

| Module | Models | Source |
|---|---|---|
| `RunQueue` | the queue: what happens under its mutex, as operators | `run_queue.c` |
| `SchedulerPool` (extends `RunQueue`) | host thread, worker threads, pool life cycle | `beam_scheduler_loop.c`, slices of `beam_emu.c` by outcome |
| `SchedulerPoolProofs`, `SchedulerPoolSafety` | TLAPS proofs about `SchedulerPool`: ownership; count, losses, budgets, stop | |
| `Mailbox` | the list node by node, senders, receiver, save cursor | `erl_message.c`, `LOOP_REC*` of `beam_emu.c` |
| `MailboxProofs` | TLAPS proofs about `Mailbox` | |
| `Emulator` | one process: its memory, frames, exceptions, receive, slices | `beam_emu.c`, `erl_process.c` |
| `EmulatorProofs` | TLAPS proofs about `Emulator` | |
| `SequenceFacts` | lemmas on least elements, induction over numbers and taking an element out of a sequence, for the proofs of mailbox, interpreter, ETS and host | |
| `AtomRegistry` | what the atom table promises | (abstract) |
| `AtomTable` | the table with its two locked sections per call | `atom_table.c` |
| `AtomTableProofs` | TLAPS proofs about `AtomTable`, the refinement included | |
| `Ets` | entries, chains, count, four table types | `ets.c` |
| `EtsProofs` | TLAPS proofs about `Ets` | |
| `Memory` | the system allocator: blocks in use, their count, undefined behaviour | `beam_alloc.c` |
| `Loader` (extends `Memory`) | parsing of files, who owns them, the code server | `beam_load.c`, `beam_code_server.c` |
| `Vm` (extends `Loader`) | the context over its subsystems, construction of the pool | `beam_vm.c`, `beam_scheduler_loop.c` |
| `ProcessHeap` (extends `Memory`) | one process's array word by word: tuples, lists, stack, BIFs, the collector | `erl_process.c`, `beam_gc.c`, `beam_bif.c`, `beam_core.h` |
| `Io` (extends `Memory`) | poller, sockets, kernel, bytes as messages | `sys_poll.c` |
| `NodeTable` | the node table | `dist_node.c` |
| `HostProofs` (extends `Vm`, `Io`, `NodeTable`) | TLAPS proofs about the node table, the poller, the parser and the code server | |
| `Decoder` | the code chunk byte by byte, and a compiler that writes one | `beam_decode.c`, `beam_opcodes_arity.h` |
| `MCHost` (extends `Vm`, `ProcessHeap`, `Io`, `NodeTable`, `Decoder`, `AtomTable`) | a host's calls, the properties across components | |
| `MC*` | constants, programs and symmetry sets for TLC | |

A definition that models a C function has its name where the function is one
step (`beam_run_queue_enqueue`, `atom_table_insert`); where the function is
several steps they are named for what they do (`EnqueueExchange`,
`EnqueueLink`, ...). A step ends where another thread can see or change what
the next line uses: at an unlock, an atomic access or a plain store to shared
memory. `PROJECT.json` maps every definition to its lines. Operators with a
comment "Mutant of ..." are plausible wrong versions of it; no
specification uses them, they show that a property can fail.

Correspondences worth knowing:

* `SchedulerPool`. The locked part of enqueue, dequeue and steal is one step
  and the store of `proc->state` that follows it another (`HostMarkRunnable`,
  `WorkerMarkRunning`, `WorkerMarkRunnable`). A slice is its outcome: the
  state, result and reductions that `beam_emu_execute_code` can leave
  (`StateAfter`, `ResultOf`, `ReductionsAfter`). `threads` entries that nobody
  joins after a failed start keep running; once the pool is freed, `running`
  reads as either value, and the pointers those workers still read are taken to
  keep theirs (what a stray pointer does is beyond the model).
* `Mailbox`. `next`, `head` and `tail` are separate memory; nodes are reused
  after they are freed. `order` is a history of the exchanges. In dequeue the
  test of the new head and the store that clears the tail are two steps.
* `Emulator`. `program` is chosen in `Init` from the programs of the instance
  (`Load` gives code, heap size, budget and messages) and never changes;
  `ReceivesInForm` and `FramesInForm` say what a compiler makes sure of. X registers
  are abstracted, so tests go both ways, except the one LOOP_REC loads. The
  heap array holds addresses (saved cp), 0 (Y registers) or `Junk` (terms, and
  memory never written); `Junk` popped into cp may be any address. `calls` and
  the `open` field of catch frames are history. The mailbox is here a sequence
  with a cursor, one step per operation; its races are `Mailbox`'s. Addresses
  past the code are all represented by its length, since the loop ends at any.
* `AtomTable`. A bucket is a set: names in a chain are distinct, which is what
  `OneAtomPerName` checks. Terms keep their encoding, index * 16 + tag. `Chained`
  is the refinement mapping: the registry is what the chains hold.
* `Ets`. The search along a chain is one step, every store one more. `Walk`
  follows the links from a bucket, `ChainFrom` is what it meets before NULL; an
  operation works on the first entry of its key (`EntryOfKey`). Small integers
  and the count keep a width, scaled down by `IntBits`, `CountBits`
  (`CountAssumption`: a `size_t` can count what is in memory). `OwnBuckets` is
  what the code, which takes no lock, needs of its callers. `DeleteUnlink` joins
  the unlinking store, the free and the load of `item_count`: with buckets of
  their own nobody else reads the chain or the entry, so that these steps can be
  moved up to the load. What is proved for racing clients too (`TypeCorrect`) is
  about the joined step.
* `Memory`. A block is its kind and a number, the blocks in use are a bag, so
  that taking twice and returning once shows. An operation's allocations are
  all its calls in order; a parameter says which succeed. `wild` becomes
  TRUE at undefined behaviour (a block returned that is not in use, a word read
  that was freed, never written or outside a buffer), and `MCHost` follows nothing beyond it.
* `Loader`. An image is what the parser tells apart in a buffer: the header, the
  chunks in order, the names of an atom table (out of `AtomNames`), whether a
  chunk ends inside the buffer, and how many of the parser's unchecked reads of
  the table do (`held`); one that does not is undefined behaviour (`ReadsPast`),
  and what it finds is taken for a name. `beam_file_parse` is one turn of its
  loop per chunk, a recursive function; any subset of the allocations an image
  asks for (`Requests`) may succeed. `Stored[name]` is the name as kept in 63
  characters, in `module_name` and in the code server's entries; the host
  registers under names that are kept whole, its own or others. `hand` are the
  files the host holds. Since register returns `BEAM_OK` both for a module it
  takes and for a name it knows, the model's host asks who owns the file, as a
  lookup would tell it. `odd` marks what was wrong with the tables of an image
  that was parsed: "lost" (too many names, or two tables, for which the parser
  loses blocks), "past" (not in the buffer to its end).
* `ProcessHeap`. A word is what the tag tests of `beam_core.h` see: integer,
  atom, pid, nil, header (the word 0 is the header of an empty tuple), list or
  boxed pointer. A pointer names an array: the present one, the one being
  copied to, or one that is gone. After a `realloc` that moves, all pointers are
  to one that is gone. ALLOCATE and DEALLOCATE put frames between the host's
  words on the stack: the code address a frame saves is a number, and one with
  the low bits of a pointer (`LooksLikePointer`) is followed by the collector. A
  host pops only what it has pushed, and a DEALLOCATE finds its frame on top.
  `risks` records what the collector cannot mend: the array grew, a term was
  left behind (it did not fit, or is a tuple whose header an earlier collection
  had replaced by a small integer), heap and stack met, or such an address was
  put on the stack.
* `Io`. The kernel is an interest list, lowest free descriptors and unread bytes;
  `close`, which the code does not wrap, and the peer are actions of their own.
* `NodeTable`. `Cut[name]` is the name as stored in 63 characters.
* `Decoder`. `WriteInstr` is the compiler; the decoder is an operator, applied to
  the chunk and to all its beginnings.

## What the runs check

All with `tlc -workers 2 -config X.cfg M`; states are distinct states.

| Run | States | Result |
|---|---|---|
| `PoolSafety` | 621k | `SingleOwner`, `CountsAgree`, `NothingLost`, `SliceHasBudget`, `StoppedMeansStopped`: 2 workers, 2 processes, three levels, all outcomes, failing node allocations and thread creations |
| `PoolLiveness` | 198k | `LinkedEventuallyRuns`, `StopReturns` under `FairSpec` |
| `PoolDrained` | violated | with two workers an EXITED process becomes RUNNABLE again |
| `MailboxReceive` | 13k | 2 senders race, then a receiver drains the list by dequeue or through the save cursor: `ListIsWhole`, `SenderOrder`, `CursorIsInList`, and under `FairSpec` `EverythingReceived` |
| `MailboxConcurrent` | violated | one sender, one receiver: a message is lost |
| `EtsPartitioned` | 866k | two clients in buckets of their own, colliding keys, four table types: `ContentsRight`, `CountRight`, `NoFreedEntryLinked` |
| `Emulator` | 91k | recursion, tail calls, nested try, raise: `ReturnsToCaller`, `BalancedAtHalt`; every kind of loop: `SliceEnds`; selective receive: `ReceiveTakesOnlyWanted`, `MessagesKept`; all with preemption |
| `Host` | 833k | any sequence of a host's calls on one component, memory running out anywhere: `NothingLeaked`, `UndefinedOnlyWhereKnown`, `ModulesHaveOneOwner`, `BytesAccountedFor`, `WatchedIsInTable`, `NodesFound`, `DecodesWhatWasWritten`, and of every collection `CollectCopiesAll`, `CollectReclaims`; of three callers of the atom table, three names and an index map of one, `OneAtomPerName`, `LookupInvertsIntern`, and that the table implements `AtomRegistry` |
| `GcTuples` | violated | a collected tuple is no tuple any more |
| `EmuResume` | violated | a preempted process does not go on where it stopped |
| `EmuIsolation` | violated | the heap overwrites the stack |
| `EmuWake` | violated | a waiting process is never run again |

The violated runs each state what a comment, a test or a document of the
repository says; `PROJECT.json` quotes it under `findings`.

`Host` starts with `part`, the component whose calls are made; the others rest.
Its two central statements cut across: whatever calls failed, the blocks in use
are those some live object will return, unless the parser lost some (`odd`); and
undefined behaviour, as far as `ProcessHeap`, `Loader` and `Vm` have it, is
reached in six ways: through a pool given up before its array was written
(`halfPool`), an atom table that its buffer does not hold, or in a process whose
array grew, whose term a collection left behind, whose heap met its stack, or on
whose stack a code address with the low bits of a pointer was put. The statement
is that nothing else is needed for these modules, not that the six are harmless,
and it says nothing of what the models leave out (below).

`CollectCopiesAll` compares what is reachable word by word, but for the first
word of a boxed one, of which it compares the number: `gc_copy_term` writes a
small integer where `beam_make_tuple` writes a header, and `beam_is_tuple`
tells them apart. `CollectKeepsTerms` looks at terms with `beam_is_tuple`, as a
program does and as `test_gc.c` asserts, and `GcTuples` shows that it fails at the
first collection of any tuple; with lists alone it would hold.
`DecodesWhatWasWritten` speaks of what is written before the first opcode 78, of
which the decoder reads three arguments and the arity table has two: from there
on the decoder is out of step. `ImplementsRegistry` and the other properties of
the atom table do not depend on the rest of `Host`; that table's own states are
141k of the run's.

Three properties one might expect are not stated, because the code does not have
them and no run needs to repeat it. `mbox->count` is a plain counter: with two
senders it may be too small, so only its lower bound is checked (`TypeOK`). ETS
takes no lock: two clients on one key lose an update, so the run gives each
client buckets of its own, and `CountRight` excepts overlapping updates of
`item_count`. A save cursor that has passed the last message is NULL, as before
the first: the scan starts over, and only the end of the slice stops it.

### Bounds, and why they are enough

Two processes and two workers are the least that show a worker taking what
another has just linked; three levels make dequeue and steal choose different
ends. A start that fails half way leaves a worker that meets the next start's;
with more threads `OneOwner` is a theorem. Budgets
(`DefaultReductions`) are small so that preemption falls between any two
instructions; 2 is the least that lets a slice run at all. Two senders with two
messages each meet in every order of exchange and link, and the list is empty,
single and longer. Three names in two buckets, with an index map of one, give a
collision, a race and two growths of the atom table. ETS entries are as many as force reuse of
freed addresses; two-bit integers wrap within a run. Stack arrays of seven words
hold three nested frames and let allocation fail at each depth.

In `Host`, three files, two places in the code server and three parses are a
module, a second file of its name and a table that is full. The images are a
module with two names and its code, one whose name is cut to the other's, with an
unknown chunk and one cut off, one with too many names, one with two tables, two
whose buffers end inside the table and before its count, and no BEAM file.
Code addresses (`CodeAddresses`) are one with the low bits of a list, one with
those of a boxed word and one that is neither. An array of five
words and five calls (`MaxCalls`) hold a nested or shared term with roots on
both sides and a second collection, grow once, and let copies not fit. Results
go to X0 and moves bring them elsewhere, so any register may hold them. Three
descriptors and two places in the poller's table fill it through reuse; reads
of two bytes split what arrives. Four names, one of which is cut to another,
overfill a table of three. Chunks have two instructions out of 21 opcodes, select_val (78) among
them, with arguments of one, two and four bytes; its list is not written, and
values are below 2^24, since nested lengths lack their offset in the code and
arguments are cut to 32 bits. `HeapLimit`,
`MaxCalls`, `MaxInt`, `XRegs`, `MaxFiles`, `MaxParses`, `MaxFd`, `MaxBytes`,
`MaxInstrs`, `Messages`, `MsgsPerSender` and the sizes of `Node`, `Entry` and `Thread` are
bounds of the models; all others are parameters of the code.

Symmetry sets are used for addresses, processes and threads that no definition
tells apart, and in no run with a temporal property.

### Fairness

`SchedulerPool!FairSpec`: weak fairness of each worker, and of the host inside
a call. The operating system runs every thread that can run; a mutex is held
for one step, a sleep ends. Nothing is assumed of the host's decision to call.
`Mailbox!FairSpec`: each sender and the receiver keep running. 
`Emulator!FairSpec`: the worker keeps running the slice and taking what is
queued, and the senders send. No strong fairness is used.

## What is proved

`SchedulerPoolProofs`, for every set of processes and threads, every number of
workers, every choice of outcomes, priorities and failures that satisfies
`NoProcAssumption` and `PoolAssumption`:

* `TypeCorrect`: `Spec => []TypeOK`;
* `OneOwner`: `Spec => []SingleOwner`. No process is linked twice, or linked
  while a worker holds it, or held by two workers.

`SingleOwner` is not inductive: a worker about to link a process must be known
to hold it, and the host must be known to link only what is nowhere yet. The
invariant is `IInv == TypeOK /\ PcAgrees /\ SingleOwner /\ UnspawnedIsNowhere`,
where `PcAgrees` ties what a worker holds to where it is in its loop. The proof
has one step per action; three lemmas carry the weight: linking a process that
is nowhere (`LinkKeepsOwner`), taking the head of a level (`TakeKeepsOwner`),
and letting go (`ReleaseKeepsOwner`). They rest on `EnqueueEffect` and
`TakeEffect`, which describe the queue index by index. The late stores of the
process state do not matter to ownership, and the proof shows why: no action's
guard that moves a process between owners reads more than the queue and the
worker's own variables.

`SchedulerPoolSafety`, from the same assumptions and on top of that invariant:

* `CountCorrect`: `Spec => []CountsAgree`. The count changes with the length of
  one level by as much (`SumMoves`); nothing else is needed.
* `NoneLost`: `Spec => []NothingLost`. A process a worker inspects must be in a
  state that makes it link it again although an earlier owner's late store may
  hit it: `HeldIsLive` says that such stores leave it RUNNABLE or RUNNING.
* `BudgetAtEverySlice`: `Spec => []SliceHasBudget`, with `BudgetWhereWaiting`: the
  budget is full on every level of the queue, before the spawn and in the hands
  of a worker that has not begun the slice. It needs `SingleOwner`: a second
  holder could spend it.
* `StopJoinsAll`: `Spec => []StoppedMeansStopped`, with `HostAgrees` (flag and
  loop index follow from where the host is) and `NoStrayWorker`: a thread that
  is not off has an entry in `pool->threads` that `pool_stop` has not gone past.

`HostProofs` is about the host's calls on one component.

For every set of names and ports, every way of cutting names that is idempotent,
and every table size (`NodeTableAssumption`): `NodeTypeCorrect`
(`NodeSpec => []NodeTypeOK`) and `ConnectedNodesAreFound`
(`NodeSpec => []NodesFound`). `NodesFound` is inductive together with the types. A node that is found has a
name that cutting leaves alone, because entries are made of cut names; so a
renewed port cannot belong to a name stored differently. The one fact about
numbers it needs, that the first entry of a name is one of its entries, comes
from the well-foundedness of the naturals (`FirstIsEntry`).

For every number of descriptors, table size and length of a read
(`IoAssumption`), however closes, reuse of descriptors, arrivals and reads
interleave and whichever allocations fail: `IoTypeCorrect`, `WatchedCorrect`
(`IoSpec => []WatchedIsInTable`) and `BytesCorrect`
(`IoSpec => []BytesAccountedFor`). The bytes are sums over descriptors and over
the messages in the mailbox: the lemmas on `Sums` say what changing one term or
appending one does. `IoInv` adds that only open descriptors are watched and hold
unread bytes.

For every set of images, also with tables that their buffer does not hold, every
size of the code server and every set of failing allocations
(`LoaderAssumption`): `LoaderTypeCorrect` (`VmSpec => []LoaderTypeOK`) and
`OneOwnerCorrect` (`VmSpec => []ModulesHaveOneOwner`), through creation and
destruction of the context too. `LoaderTypeOK` holds what `beam_file_destroy` and
`beam_file_get_atom` rely on: a table has exactly the names that `atom_count`
says, if it could be had at all (`ParsedFile`). What a read outside the buffer
finds counts as a name; that such a read is made is `Touch`, and not part of
these theorems. `LoaderInv` adds `FilesOwned` (a file is in memory if and only if
it is in the host's hands or registered) and `EntriesApart` (no two entries have
a name or a file in common). Types need what the parser returns for an image of
any length; its loop is unrolled into `Turns`, and induction over the number of
turns shows that each leaves a file of the right shape.

`EtsProofs`, for every number of clients, keys, buckets and entries, every hash
function and width (`EtsAssumption`, `CountAssumption`):

* `TypeCorrect`: `Spec => []TypeOK`, for every use of a table, racing clients
  included: no link leads out of memory and integers keep their bits.
* `ContentsCorrect`, `NoDangling`, `CountCorrect`: `Spec => []ContentsRight`,
  `[]NoFreedEntryLinked` and `[]CountRight`, for clients that share no bucket
  (`OwnBuckets`, which `MCEts` evaluates on its instance). Without it they are
  false: the code takes no lock.

The idea is to reason about sequences instead of links: a path is a sequence of
different entries each of which leads to the next, the last to NULL, and
`ChainOfPath` shows that what the walk finds is the path, so that inserting
in front, unlinking and changing a value become changes of one sequence
(`IsPath`, `Unlinks`, `Listing`). `EtsInv` has a path in every bucket
(`ChainsArePaths`), its entries allocated and in the bucket of their key
(`EntriesInPlace`), what a client has allocated and not linked yet ready and its
own (`NewAgrees`, `NewDiffer`), what it has found still the first of its key
(`FoundAgrees`), and the values of a key in the order of the operations
(`RefIsListed`). `CountInv` balances the count against the clients that are
between a change of a chain and its counting (`Uncounted`, `Overcounted`).

`AtomTableProofs`, for every set of names and callers, every hash function and
every initial size (`AtomAssumption`): `TypeCorrect`, `OneAtom`
(`OneAtomPerName`), `LookupCorrect` (`LookupInvertsIntern`) and `Refinement`
(`ImplementsRegistry`: the initial state maps to the empty registry, each step
to one of `AtomRegistry` or to a stutter, through `Chained`). The invariant ties
the two structures that an insertion writes one after the other:
`ChainsAreMapped` (an entry is in the bucket of its name and the map leads to
it), `MapIsChained` (what the map holds below the count is chained),
`NamesDiffer`, `IssuedIsMapped` and `CallAgrees`. A miss under the read lock
is not part of it: it may be stale, and the search is repeated under the write
lock.

`MailboxProofs`, for every set of senders and node addresses and any number of
messages (`MailboxAssumption`):

* `TypeCorrect`: `Spec => []TypeOK`, for every use of the mailbox, a receiver
  that runs while senders do included. Taking a message out of a node that was
  never filled would break it, so `PointersFilled` is carried along: every
  pointer, also a stale one, leads to memory that was once filled as a node.
* `WholeList`, `CursorCorrect`, `OrderCorrect`: `Spec => []ListIsWhole`,
  `[]CursorIsInList` and `[]SenderOrder`, for a receiver that starts when the
  senders are done (`ReceiverWaits`). This is not a convenience: with a
  concurrent receiver they are false, as `MailboxConcurrent` shows. What is
  proved is that any number of senders may race.

`ListIsWhole` speaks of an idle receiver only. `ListInv` adds `OwesItsLink` (a
sender between exchange and link owes exactly the link before its node),
`OrderDistinct`, `ReceiverWaited` and `ReceiverWorks`, which describes, for each
place of the receiver inside an operation, how far the node at position k is
taken out (`TakingOut`). `OrderCorrect` adds `NumbersGrow`: the numbers of a
sender grow along the list, after those received.

`EmulatorProofs`, for every heap size and budget and, where no form is named,
for every program, balanced or not (`LoadAssumption` asks only that operands are
numbers):

* `TypeCorrect`: `Spec => []TypeOK`. A catch frame's stack pointer stays within
  the array because the array only grows; a budget does not fall below zero
  because a slice begins with one (`BudgetLeft`); a jump stays in the code
  because the first LABEL of a non-empty set is one of it (`MinIsElement`, from
  the well-foundedness of the naturals).
* `NoMessageLostOrSwapped`: `Spec => []MessagesKept`, with `TakenWasSent`.

* `OnlyWantedTaken`: `Spec => []ReceiveTakesOnlyWanted`, for programs whose
  receives have the form a compiler gives them (`ReceivesInForm`, which
  `MCEmulator` evaluates on its programs): REMOVE_MESSAGE follows the test of
  the message, a test follows LOOP_REC, and nothing else leads there. However
  often the process is preempted or waits in between, what is removed is what
  was tested. `PatternInv` says that at the place after a test that succeeded
  the message at the cursor is one the program wants, and that no return
  address, handler or stack word leads inside such a pattern
  (`AddressesOutside`, `StackOutside`). A program that receives and makes
  closures is not of that form: its heap may overwrite return addresses, as
  `EmuIsolation` shows.

* `ReturnsCorrect` and `HaltsBalanced`: `Spec => []ReturnsToCaller` and
  `Spec => []BalancedAtHalt`, for programs whose frames have the form a compiler
  gives them. `FramesInForm` states that form with an annotation (`shape`: of
  every address the function it is in, the size of its frame and the number of
  open try blocks), instruction by instruction; `MCEmulator` gives it for its
  programs and evaluates it. Depth of recursion, nesting of try blocks and where
  slices are cut are not bounded.

  A stack is usually described by a walk along its frames, which would need
  induction. `FrameInv` has instead a set of *activations* (where a frame
  begins, how many calls and catch frames were open, the shape of the address
  where it goes on) that holds with each activation its caller, with its frame
  whole and its catch frames above it (`Kept`), holds one for every catch frame
  (`Handled`), and the one that runs (`Current`). Each instruction adds one
  activation or takes out those that do not fit any more; `Remains` and
  `SuspendedRemains` are that argument, once for all instructions. It shows why
  RAISE need not restore `cp`: a handler runs in a frame, and `cp` is popped
  from it before it is used. A preempted process begins anew below what it left
  on the stack; its old activations stay whole, so that even an exception into
  one of them returns properly. Code with MAKE_FUN2 is not of the form, since
  `alloc_heap` does not look at the stack.

Only model-checked, and why: the liveness properties (`LinkedEventuallyRuns`,
`StopReturns`, `EverythingReceived`, `SliceEnds`), since fairness is beyond the
prover; `Decoder` and `ProcessHeap`, recursive operators over bytes and terms,
and with them what `MCHost` says across components (`TypeOK`, `NothingLeaked`,
`UndefinedOnlyWhereKnown`).

## Not modelled

The arena allocator, which no component asks for (its realloc does not copy),
and the byte totals of the system allocator (frees are counted as one byte each,
and all counts are plain variables that threads share); the NIF wrappers, which convert or call a constructor that is
modelled; the JIT, which copies machine code into a mapped page. Of the loader,
the bytes of chunk headers and names; of the decoder, lists and large values
(above). What the bytes past a buffer are. The entries that atom table, ETS, run queue and mailbox free in their
destructors are not counted in `Vm`, whose subsystems are new. Messages and ETS
entries that point into a heap that is collected: terms in them are abstracted.
Weak memory orderings are not: a plain access is taken to be
one step, in program order.

## Plan

1. Done: `RunQueue`, `SchedulerPool`, `Mailbox`, `AtomTable`, `Ets`,
   `Emulator`; `Memory`, `Loader`, `Vm`, `ProcessHeap`, `Io`, `NodeTable`,
   `Decoder` and their composition `MCHost`; the proofs above.
2. Next proofs: `NothingLeaked` for one component at a time (`Loader`, `Io`),
   with bags as functions.
3. An abstract process life cycle (spawned, ready, running, waiting, ended)
   that `SchedulerPool` implements with one worker. Mixed use of dequeue and
   save cursor in `Mailbox`; a collection while a message points into the heap.
