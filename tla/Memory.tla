------------------------------- MODULE Memory -------------------------------
(***************************************************************************)
(* The system allocator of beam_alloc.c, through which every component     *)
(* takes and returns its memory.  A block is <<kind, number>>; the blocks  *)
(* in use are a bag, so that a block taken twice and returned once shows.  *)
(* Sizes, and the byte totals kept of them, are left out.  `wild' records  *)
(* what C leaves undefined: a block returned that is not in use, or a read *)
(* of freed or uninitialised memory.                                       *)
(***************************************************************************)
EXTENDS Integers, Bags, FiniteSets, TLC

VARIABLE mem

\* n blocks of one kind.
Several(kind, i, n) == IF n = 0 THEN EmptyBag ELSE <<kind, i>> :> n

One(kind, i) == Several(kind, i, 1)

beam_allocator_create_system ==
    [live |-> EmptyBag, active_allocs |-> 0, wild |-> FALSE]

sys_alloc(m, blocks) ==
    [m EXCEPT !.live = @ (+) blocks,
              !.active_allocs = @ + BagCardinality(blocks)]

\* The count stops at zero.
sys_free(m, blocks) ==
    LET n == BagCardinality(blocks)
    IN  [m EXCEPT !.live = @ (-) blocks,
                  !.active_allocs = IF @ > n THEN @ - n ELSE 0,
                  !.wild = @ \/ ~(blocks \sqsubseteq m.live)]

\* A step that meets an undefined word.
Touch(m, undefined) == [m EXCEPT !.wild = @ \/ undefined]

MemoryInit == mem = beam_allocator_create_system

MemoryTypeOK ==
    /\ mem.active_allocs \in Nat
    /\ mem.wild \in BOOLEAN
    /\ IsABag(mem.live)
=============================================================================
