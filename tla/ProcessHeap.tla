---------------------------- MODULE ProcessHeap ----------------------------
(***************************************************************************)
(* The memory of one process: erl_process.c keeps heap and stack in one    *)
(* array that grow towards each other, beam_gc.c copies what the registers *)
(* and the stack reach into a new array of the same size, beam_bif.c works *)
(* on the registers, and the interpreter's frames are on the stack.        *)
(*                                                                         *)
(* A word is an immediate, a tuple header or a pointer, told apart by what *)
(* beam_core.h tests in its low bits.  Pointers are addresses: "here" is   *)
(* the present array, "there" the one being copied to, "gone" a freed one. *)
(* A continuation that a frame saves is the number of an instruction, not  *)
(* marked as such: only the model knows it from a term.                    *)
(***************************************************************************)
EXTENDS Memory, Sequences, SequencesExt

CONSTANTS
    InitialWords,   \* initial_heap_words
    HeapLimit,      \* bound: largest array
    XRegs,          \* bound: registers 0 .. XRegs - 1 are used
    MaxInt,         \* bound: integers are 0 .. MaxInt
    CodeAddresses,  \* instructions that a frame may have to return to
    MaxCalls        \* bound: calls on a process

ASSUME HeapAssumption ==
    /\ {InitialWords, XRegs} \subseteq Nat \ {0}
    /\ {HeapLimit, MaxInt, MaxCalls} \cup CodeAddresses \subseteq Nat

VARIABLES
    alive, cells, heap_top, stack_top, x_regs,
    risks,          \* what has happened that the collector cannot mend
    calls           \* calls on it so far

processVars == <<alive, cells, heap_top, stack_top, x_regs, risks, calls>>

heapVars == <<mem, processVars>>

make_small_int(n) == <<"int", n>>
ETERM_NIL == <<"nil">>
Junk == <<"junk">>              \* a word nobody has written
BoolAtom(b) == <<"atom", b>>
SelfPid == <<"pid">>
Header(arity) == <<"header", arity>>
Zero == Header(0)               \* the header of an empty tuple is the word 0
Pointer(tag, i) == <<tag, "here", i>>
Continuation(ip) == <<"cp", ip>>

Reg == 0 .. XRegs - 1
heap_capacity == Cardinality(DOMAIN cells)
IsPointer(t) == t[1] \in {"boxed", "list"}

\* Two low bits of a continuation are those of a list, or of a boxed term that
\* is not NULL: who takes it for a term follows it.
LooksLikePointer(t) ==
    t[1] = "cp" /\ (t[2] % 4 = 1 \/ (t[2] % 4 = 2 /\ t[2] > 3))

\* Word i behind a pointer into array a; freed memory holds anything.
Word(a, t, i) == IF t[2] = "here" THEN a[t[3] + i] ELSE Junk

beam_is_small_int(t) == t[1] = "int"
beam_is_atom(t) == t[1] = "atom"
beam_is_list(t) == t[1] = "list"
beam_is_tuple(a, t) == t[1] = "boxed" /\ Word(a, t, 0)[1] = "header"
beam_tuple_arity(a, t) == IF beam_is_tuple(a, t) THEN Word(a, t, 0)[2] ELSE 0

\* Words of the object a pointer leads to, 0 if the collector sees none.
ObjectWords(a, t) ==
    CASE beam_is_tuple(a, t) -> beam_tuple_arity(a, t) + 1
      [] beam_is_list(t) -> 2
      [] OTHER -> 0

\* All pointers of a word or an array change their place with f.
Moved(t, f) ==
    IF IsPointer(t) THEN IF f[t[2]] = "gone" THEN <<t[1], "gone", 0>>
                         ELSE <<t[1], f[t[2]], t[3]>>
    ELSE t

MovedAll(a, f) == [i \in DOMAIN a |-> Moved(a[i], f)]

Uninitialised(n) == [i \in 0 .. n - 1 |-> Junk]

-----------------------------------------------------------------------------
(***************************************************************************)
(* The process                                                             *)
(***************************************************************************)
ProcessBlocks == One("process", 0) (+) One("heap", 0) (+) One("mailbox", 0)

HeapInit ==
    /\ alive = FALSE
    /\ cells = Uninitialised(InitialWords)
    /\ heap_top = 0
    /\ stack_top = InitialWords
    /\ x_regs = [r \in Reg |-> Zero]
    /\ risks = {}
    /\ calls = 0

Empty ==
    /\ cells' = Uninitialised(InitialWords)
    /\ heap_top' = 0
    /\ stack_top' = InitialWords
    /\ x_regs' = [r \in Reg |-> Zero]
    /\ risks' = {}

\* The first n of the three blocks.
Obtains(n) == CASE n = 0 -> EmptyBag
                [] n = 1 -> One("process", 0)
                [] n = 2 -> One("process", 0) (+) One("heap", 0)
                [] n = 3 -> ProcessBlocks

\* Mutant of the next definition: a failure returns blocks that were never had.
CreateReturnsAll(n) ==
    /\ ~alive
    /\ alive' = (n = 3)
    /\ mem' = IF n = 3 THEN sys_alloc(mem, ProcessBlocks)
              ELSE sys_free(sys_alloc(mem, Obtains(n)), ProcessBlocks)
    /\ Empty

\* n of the three blocks can be had, in their order; fewer are returned.
beam_process_create(n) ==
    /\ ~alive
    /\ alive' = (n = 3)
    /\ mem' = IF n = 3 THEN sys_alloc(mem, Obtains(n))
              ELSE sys_free(sys_alloc(mem, Obtains(n)), Obtains(n))
    /\ Empty

beam_process_destroy ==
    /\ alive /\ alive' = FALSE
    /\ mem' = sys_free(mem, ProcessBlocks)
    /\ Empty

\* beam_process_alloc_heap for an object of the given words, and the words
\* written.  The limit is the array's end, whatever the stack holds.  When the
\* array grows, realloc extends it or moves it: moved, every address taken
\* before leads to freed memory.  The stack stays at its index, and what lies
\* above it is uninitialised stack.  A failing realloc leaves all as it was.
AllocHeap(tag, words, dst) ==
    LET needed == Len(words)
        Put(a) == [i \in DOMAIN a |-> IF i \in heap_top .. heap_top + needed - 1
                                      THEN words[i - heap_top + 1] ELSE a[i]]
        new_cap == heap_capacity * 2 + needed
        Grown(a) == [i \in 0 .. new_cap - 1 |->
                        IF i \in DOMAIN a THEN a[i] ELSE Junk]
        Here(a, regs) ==
            /\ cells' = a
            /\ x_regs' = [regs EXCEPT ![dst] = Pointer(tag, heap_top)]
            /\ heap_top' = heap_top + needed
    IN  /\ alive
        /\ \/ /\ heap_top + needed <= heap_capacity
              /\ Here(Put(cells), x_regs)
              /\ risks' = IF heap_top + needed > stack_top
                          THEN risks \cup {"stack overwritten"} ELSE risks
           \/ /\ heap_top + needed > heap_capacity
              /\ new_cap <= HeapLimit
              /\ \E place \in {"here", "gone"} :
                   LET f == [here |-> place, gone |-> "gone"]
                       a == MovedAll(Put(Grown(cells)), f)
                   IN  Here(a, MovedAll(x_regs, f))
              /\ risks' = risks \cup {"grown"}
           \/ /\ heap_top + needed > heap_capacity
              /\ UNCHANGED <<cells, heap_top, x_regs, risks>>
        /\ UNCHANGED <<mem, alive, stack_top>>

\* beam_make_tuple of the first registers, also by way of the NIF interface;
\* without elements it writes zeros.
beam_make_tuple(arity, given, dst) ==
    AllocHeap("boxed",
              <<Header(arity)>> \o
              [i \in 1 .. arity |-> IF given THEN x_regs[i - 1] ELSE Zero], dst)

beam_make_list(head, tail, dst) ==
    AllocHeap("list", <<x_regs[head], x_regs[tail]>>, dst)

SetReg(dst, term) ==
    /\ alive
    /\ x_regs' = [x_regs EXCEPT ![dst] = term]
    /\ UNCHANGED <<mem, alive, cells, heap_top, stack_top, risks>>

beam_process_stack_push(r) ==
    /\ alive
    /\ stack_top > heap_top
    /\ stack_top' = stack_top - 1
    /\ cells' = [cells EXCEPT ![stack_top - 1] = x_regs[r]]
    /\ UNCHANGED <<mem, alive, heap_top, x_regs, risks>>

\* What the host pops is what it has pushed.
beam_process_stack_pop(dst) ==
    /\ alive
    /\ stack_top < heap_capacity /\ cells[stack_top][1] # "cp"
    /\ x_regs' = [x_regs EXCEPT ![dst] = cells[stack_top]]
    /\ stack_top' = stack_top + 1
    /\ UNCHANGED <<mem, alive, cells, heap_top, risks>>

\* ALLOCATE pushes cp and a zero for each Y register, as far as there is room;
\* the interpreter's other instructions are in Emulator.
BEAM_OP_ALLOCATE(cp, words) ==
    LET frame == <<Continuation(cp)>> \o [w \in 1 .. words |-> Zero]
        room == IF stack_top > heap_top THEN stack_top - heap_top ELSE 0
        n == IF room < words + 1 THEN room ELSE words + 1
    IN  /\ alive
        /\ n > 0
        /\ stack_top' = stack_top - n
        /\ cells' = [i \in DOMAIN cells |-> IF i \in stack_top - n .. stack_top - 1
                                            THEN frame[stack_top - i] ELSE cells[i]]
        /\ risks' = IF LooksLikePointer(Continuation(cp))
                    THEN risks \cup {"address on the stack"} ELSE risks
        /\ UNCHANGED <<mem, alive, heap_top, x_regs>>

\* DEALLOCATE of the frame on top.
BEAM_OP_DEALLOCATE(words) ==
    /\ alive
    /\ stack_top + words < heap_capacity /\ cells[stack_top + words][1] = "cp"
    /\ stack_top' = stack_top + words + 1
    /\ UNCHANGED <<mem, alive, cells, heap_top, x_regs, risks>>

-----------------------------------------------------------------------------
(***************************************************************************)
(* Built-in functions                                                      *)
(***************************************************************************)
\* Cells of a list followed from t; -1 if the walk leaves the array or, after
\* the stack has been written over, does not end.
bif_length_1(t) ==
    LET Follow(s, i) == IF beam_is_list(s.t) /\ s.t[2] = "here"
                        THEN [n |-> s.n + 1, t |-> Word(cells, s.t, 1)] ELSE s
        end == FoldLeft(Follow, [n |-> 0, t |-> t], [i \in 1 .. heap_capacity |-> i])
    IN  IF beam_is_list(end.t) THEN -1 ELSE end.n

\* beam_bif_dispatch: function i on the registers; the result goes to X0.  The
\* arithmetic is asked of integers only, as nothing checks it.
beam_bif_dispatch(i, arity) ==
    LET enough == arity >= (CASE i = 0 -> 0 [] i \in {1, 2} -> 2 [] OTHER -> 1)
        t == x_regs[0]
        n == CASE i = 1 -> t[2] + x_regs[1][2]
               [] i = 2 -> t[2] - x_regs[1][2]
               [] OTHER -> bif_length_1(t)
        result == CASE i = 0 -> SelfPid
                    [] i = 3 -> BoolAtom(beam_is_atom(t))
                    [] i = 4 -> BoolAtom(beam_is_tuple(cells, t))
                    [] i \in {1, 2, 5} -> make_small_int(n)
    IN  /\ alive
        /\ i \in {1, 2} => \A r \in {0, 1} : beam_is_small_int(x_regs[r])
        /\ i \in {1, 2, 5} /\ enough => n \in -1 .. MaxInt
        /\ x_regs' = [x_regs EXCEPT ![0] = IF enough THEN result ELSE Zero]
        /\ mem' = Touch(mem, enough /\ \/ i = 5 /\ n < 0
                                       \/ i = 4 /\ IsPointer(t) /\ t[1] = "boxed"
                                                /\ t[2] = "gone")
        /\ UNCHANGED <<alive, cells, heap_top, stack_top, risks>>

-----------------------------------------------------------------------------
(***************************************************************************)
(* The collector                                                           *)
(***************************************************************************)
\* Copies what t leads to behind to.top and leaves the new word in to.term.
\* The copy of a tuple begins with a small integer where the tuple had its
\* header.  What does not fit is left where it is, and so is a pointer behind
\* which there is no header: to.left.  What looks like a pointer is followed.
RECURSIVE gc_copy_term(_, _)
gc_copy_term(t, to) ==
    LET size == ObjectWords(cells, t)
        at == to.top
        tuple == beam_is_tuple(cells, t)
        Element(s, i) == LET c == gc_copy_term(Word(cells, t, i), s)
                         IN  [c EXCEPT !.cells[at + i] = c.term]
        begun == [to EXCEPT !.top = at + size,
                            !.cells[at] = make_small_int(size - 1)]
    IN  IF size = 0 \/ at + size > heap_capacity
        THEN [to EXCEPT !.term = t,
                        !.left = @ \/ IsPointer(t),
                        !.undefined = @ \/ t = Junk \/ LooksLikePointer(t)
                                        \/ (IsPointer(t) /\ t[2] = "gone")]
        ELSE [FoldLeft(Element, begun,
                       IF tuple THEN [i \in 1 .. size - 1 |-> i] ELSE <<0, 1>>)
                 EXCEPT !.term = <<t[1], "there", at>>]

\* Roots are the registers that are not zero and the given slots of the stack,
\* which keep their index; a slot is written whether or not the copies, which
\* begin at `first', have come so far.
CopyRootsFrom(first, slots) ==
    LET CopyReg(s, r) ==
            IF x_regs[r] = Zero THEN s
            ELSE LET c == gc_copy_term(x_regs[r], s)
                 IN  [c EXCEPT !.regs[r] = c.term]
        CopySlot(s, i) == LET c == gc_copy_term(cells[i], s)
                          IN  [c EXCEPT !.cells[i] = c.term]
        start == [cells |-> Uninitialised(heap_capacity), top |-> first, term |-> Zero,
                  regs |-> x_regs, left |-> FALSE, undefined |-> FALSE]
    IN  FoldLeft(CopySlot,
                 FoldLeft(CopyReg, start, [r \in 1 .. XRegs |-> r - 1]), slots)

StackSlots == [i \in 1 .. heap_capacity - stack_top |-> stack_top + i - 1]

\* Mutant of CopyRoots: the stack is not a root.
CopyRegistersOnly == CopyRootsFrom(0, <<>>)

\* Mutant of CopyRoots: the copies begin where the old heap ended.
CopyAboveHeap == CopyRootsFrom(heap_top, StackSlots)

CopyRoots == CopyRootsFrom(0, StackSlots)

\* The new array replaces the old one, which is freed; without a new array
\* nothing happens.
beam_gc_collect_process ==
    LET to == CopyRoots
        swap == [here |-> "gone", there |-> "here", gone |-> "gone"]
    IN  /\ alive
        /\ cells' = MovedAll(to.cells, swap)
        /\ x_regs' = MovedAll(to.regs, swap)
        /\ heap_top' = to.top
        /\ mem' = Touch(sys_free(sys_alloc(mem, One("heap", 0)), One("heap", 0)),
                        to.undefined)
        /\ risks' = risks \cup (IF to.left THEN {"left behind"} ELSE {})
                          \cup (IF to.top > stack_top THEN {"stack overwritten"} ELSE {})
        /\ UNCHANGED <<alive, stack_top>>

\* Results go to X0, and X0 is what is pushed; SetReg moves them.
HeapNext ==
    \/ calls' = 0 /\ \E n \in 0 .. 3 : beam_process_create(n)
    \/ calls' = 0 /\ beam_process_destroy
    \/ /\ calls < MaxCalls
       /\ calls' = calls + 1
       /\ \/ \E arity \in {0, XRegs} : beam_make_tuple(arity, TRUE, 0)
          \/ beam_make_tuple(1, FALSE, 0)
          \/ \E head, tail \in Reg : head # tail /\ beam_make_list(head, tail, 0)
          \/ SetReg(0, ETERM_NIL)
          \/ \E dst, src \in Reg : SetReg(dst, x_regs[src])
          \/ beam_process_stack_push(0)
          \/ beam_process_stack_pop(0)
          \/ \E cp \in CodeAddresses, words \in {0, 1} : BEAM_OP_ALLOCATE(cp, words)
          \/ \E words \in {0, 1} : BEAM_OP_DEALLOCATE(words)
          \/ \E i \in 0 .. 5, arity \in {0, 2} : beam_bif_dispatch(i, arity)
          \/ beam_gc_collect_process

-----------------------------------------------------------------------------
\* The term a word stands for, in array a, as beam_core.h tells terms apart.  A
\* boxed word that leads to no tuple is its first word.
RECURSIVE Value(_, _)
Value(a, t) ==
    CASE ~IsPointer(t) -> t
      [] IsPointer(t) /\ t[2] # "here" -> Junk
      [] IsPointer(t) /\ t[2] = "here" ->
            IF beam_is_list(t) THEN <<"cons", Value(a, a[t[3]]), Value(a, a[t[3] + 1])>>
            ELSE IF beam_is_tuple(a, t)
            THEN <<"tuple", [i \in 1 .. beam_tuple_arity(a, t) |-> Value(a, a[t[3] + i])]>>
            ELSE <<"boxed", a[t[3]]>>

\* The words behind a word, the first word of a boxed one by its number only:
\* header and small integer are the same here.
RECURSIVE Shape(_, _)
Shape(a, t) ==
    CASE ~IsPointer(t) -> t
      [] IsPointer(t) /\ t[2] # "here" -> Junk
      [] IsPointer(t) /\ t[2] = "here" ->
            IF beam_is_list(t) THEN <<"cons", Shape(a, a[t[3]]), Shape(a, a[t[3] + 1])>>
            ELSE <<"boxed", [i \in 1 .. a[t[3]][2] |-> Shape(a, a[t[3] + i])]>>

\* The words of the term t stands for, shared ones as often as they are shared.
RECURSIVE Words(_, _)
Words(a, t) ==
    LET size == ObjectWords(a, t)
        elements == IF beam_is_list(t) THEN <<0, 1>> ELSE [i \in 1 .. size - 1 |-> i]
    IN  IF size = 0 THEN 0
        ELSE FoldLeft(LAMBDA n, i : n + Words(a, a[t[3] + i]), size, elements)

Roots == [r \in 1 .. XRegs |-> x_regs[r - 1]] \o
         [i \in DOMAIN StackSlots |-> cells[StackSlots[i]]]

Terms == [i \in DOMAIN Roots |-> Value(cells, Roots[i])]

Shapes == [i \in DOMAIN Roots |-> Shape(cells, Roots[i])]

HeapTypeOK ==
    /\ heap_capacity <= HeapLimit
    /\ heap_top \in 0 .. heap_capacity
    /\ stack_top \in 0 .. heap_capacity
    /\ calls \in 0 .. MaxCalls
    /\ risks \subseteq {"grown", "left behind", "stack overwritten", "address on the stack"}

\* A collection copies all that the registers and the stack reach, nested terms
\* and shared ones included, and redirects every root and element to its copy:
\* the words before and after are the same, but that the copy of a tuple begins
\* with a small integer and is no tuple any more (see CollectKeepsTerms).  Not
\* when a term was left behind, the array had grown, the copies ran into the
\* stack or a continuation was followed (gc_copy_term, beam_gc_collect_process).
CollectCopiesAll ==
    [][beam_gc_collect_process /\ risks' = {} => Shapes' = Shapes]_heapVars

\* A collection changes no term: a tuple is still a tuple afterwards, of the same
\* arity and with the same elements, as the test of beam_gc_collect_process
\* asserts.  It does not hold: gc_copy_term writes a small integer where
\* beam_is_tuple reads a header.
CollectKeepsTerms ==
    [][beam_gc_collect_process /\ risks' = {} => Terms' = Terms]_heapVars

\* A collection keeps nothing else: the heap in use is as large as the terms
\* the roots stand for, each counted as often as a root or a term refers to it.
CollectReclaims ==
    [][beam_gc_collect_process /\ risks' = {}
           => heap_top' = FoldLeft(LAMBDA n, t : n + Words(cells, t), 0, Roots)]_heapVars
=============================================================================
