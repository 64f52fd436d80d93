------------------------------ MODULE MCHost ------------------------------
(***************************************************************************)
(* A host and its calls, apart from the scheduler's threads.  Each part is *)
(* a host that makes the calls of one component, in any order, over memory *)
(* that may run out at any of them; the atom table has several callers at  *)
(* a time.                                                                 *)
(***************************************************************************)
EXTENDS Vm, ProcessHeap, Io, NodeTable, Decoder, AtomTable

CONSTANT Parts      \* the components whose calls are made

VARIABLE part

hostVars == <<part, vmVars, poolVars, heapVars, ioVars, nodeVars, decoderVars, vars>>

HostInit ==
    /\ part \in Parts
    /\ MemoryInit
    /\ VmInit /\ HeapInit /\ IoInit /\ NodeInit /\ DecoderInit /\ Init

\* Nothing is followed beyond undefined behaviour.
others(p) ==
    /\ part = p /\ ~mem.wild
    /\ UNCHANGED part
    /\ p # "vm" => UNCHANGED vmVars
    /\ p # "pool" => UNCHANGED poolVars
    /\ p # "process" => UNCHANGED processVars
    /\ p # "io" => UNCHANGED <<sockets, interest, entries, ready, unread, sent,
                               messages, dropped>>
    /\ p # "nodes" => UNCHANGED nodeVars
    /\ p # "decoder" => UNCHANGED decoderVars
    /\ p # "atoms" => UNCHANGED vars

HostNext ==
    \/ others("vm") /\ VmNext
    \/ others("pool") /\ PoolNext
    \/ others("process") /\ HeapNext
    \/ others("io") /\ IoNext
    \/ others("nodes") /\ NodeNext /\ UNCHANGED mem
    \/ others("decoder") /\ DecoderNext /\ UNCHANGED mem
    \/ others("atoms") /\ Next /\ UNCHANGED mem

HostSpec == HostInit /\ [][HostNext]_hostVars

-----------------------------------------------------------------------------
Chunk(id, at, names, inside) ==
    [id |-> id, at |-> at, names |-> names, inside |-> inside, held |-> 2 * Len(names) + 1]

\* A module with its code; one whose name is too long, with a chunk the loader
\* does not know and one that is cut off; one with too many names; one with two
\* tables of names; one that declares a name its buffer does not hold; one whose
\* buffer ends before the count; and something that is not a BEAM file.
MCImages ==
    LET Image(chunks) == [magic |-> TRUE, chunks |-> chunks]
        Short(names, held) == [Chunk("Atom", 1, names, TRUE) EXCEPT !.held = held]
    IN  {Image(<<Chunk("AtU8", 1, <<"m", "">>, TRUE), Chunk("Code", 2, <<>>, TRUE)>>),
         Image(<<Chunk("Attr", 1, <<>>, TRUE), Chunk("Atom", 2, <<"long_m">>, TRUE),
                 Chunk("Code", 3, <<>>, FALSE)>>),
         Image(<<Chunk("AtU8", 1, <<"m", "", "">>, TRUE)>>),
         Image(<<Chunk("Atom", 1, <<>>, TRUE), Chunk("AtU8", 2, <<"m">>, TRUE)>>),
         Image(<<Short(<<"m", "">>, 4)>>),
         Image(<<Short(<<"m">>, 0)>>),
         [magic |-> FALSE, chunks |-> <<>>]}

\* "long_m" has more than 63 characters, the first of which are "m".
MCStored == [n \in AtomNames |-> IF n = "long_m" THEN "m" ELSE n]

\* "long" has more than 63 characters, the first of which are "short".
MCCut == [n \in Node |-> IF n = "long" THEN "short" ELSE n]

\* Two names share a bucket, the third has its own.
MCBucketOf(name) == IF name = "n3" THEN 1 ELSE 0

MCArgs == {[tag |-> 1, val |-> 15], [tag |-> 2, val |-> 2047], [tag |-> 5, val |-> 70000]}

-----------------------------------------------------------------------------
HostTypeOK == MemoryTypeOK /\ LoaderTypeOK /\ HeapTypeOK /\ IoTypeOK /\ NodeTypeOK

\* Every block in use belongs to something the host can still destroy, and the
\* allocator counts as many, after any sequence of creations, failures and
\* destructions; only a file with too many names, or with two tables of them,
\* makes the loader lose blocks (beam_vm_create, beam_file_parse,
\* beam_scheduler_pool_create, beam_process_create and their destructors).
NothingLeaked ==
    "lost" \notin odd /\ ~mem.wild =>
        /\ mem.live = VmBlocks (+) (IF alive THEN ProcessBlocks ELSE EmptyBag)
                               (+) Several("message", 0, Len(messages))
        /\ mem.active_allocs = BagCardinality(mem.live)

\* No block is returned twice, nothing is read outside a buffer or from freed
\* or unwritten memory, except in six ways: beam_scheduler_pool_destroy walks the
\* unwritten slots of a pool that could not be completed, beam_file_parse reads
\* an atom table that its buffer does not hold to the end, and a process goes
\* wrong after its heap has grown, after the collector has left a term behind,
\* after its stack was written over, or with a continuation on its stack that
\* the collector takes for a pointer.
UndefinedOnlyWhereKnown == mem.wild => halfPool \/ "past" \in odd \/ risks # {}
=============================================================================
