------------------------------ MODULE Emulator ------------------------------
(***************************************************************************)
(* One process run by the bytecode interpreter of                          *)
(* src/emulator/beam_emu.c, with the memory of the process                 *)
(* (src/scheduler/erl_process.c) and the scheduler step that gives it its  *)
(* slices (src/scheduler/beam_scheduler_loop.c).                           *)
(*                                                                         *)
(* Control is kept whole: the instruction pointer, the continuation        *)
(* pointer, the frames on the stack that shares one array with the heap,   *)
(* the catch frames, the reductions, the save cursor of the mailbox and    *)
(* every early return.  Terms are abstracted: an X register is not         *)
(* modelled, so that a test or a checked instruction may go either way,    *)
(* except for the register that LOOP_REC loads.  The instructions that     *)
(* only move data are one action.  frame->catch_ip, catch_sp and a catch   *)
(* frame's catch_cp are written by the code and never read: left out.      *)
(***************************************************************************)
EXTENDS Integers, Sequences, FiniteSetsExt

CONSTANTS
    Program,        \* names of loaded programs; the process runs one of them
    Load(_),        \* what a program is: see LoadAssumption
    HeapLimit,      \* bound: realloc refuses to grow the heap beyond it
    MaxCatchDepth   \* BEAM_MAX_CATCH_DEPTH

\* Instructions that only read and write X registers, or another process.
DataOps == {"LABEL", "MOVE", "ADD", "SUB", "MUL", "GET_TUPLE_ELEMENT", "SEND",
            "TRY_CASE", "TRY_CASE_END"}
\* Instructions that return an error when their operands do not fit.
CheckedOps == {"INT_DIV", "MATCH_TUPLE", "GET_LIST", "CALL_EXT"}
TestOps == {"TEST_IS_EQ_EXACT", "TEST_IS_NE_EXACT", "TEST_IS_TUPLE",
            "TEST_IS_LIST"}
KnownOps == DataOps \cup CheckedOps \cup TestOps \cup
    {"ALLOCATE", "DEALLOCATE", "CALL", "CALL_LAST", "RETURN", "LOOP_REC",
     "TEST_MESSAGE", "REMOVE_MESSAGE", "LOOP_REC_END", "WAIT", "TRY", "CATCH",
     "TRY_END", "RAISE", "SELECT_VAL", "MAKE_FUN2", "HALT"}

ASSUME EmulatorAssumption ==
    /\ HeapLimit \in Nat
    /\ MaxCatchDepth \in Nat

\* A program is a sequence of instructions [op, arg1, arg2], the
\* initial_heap_words of its process, the reductions a slice is given, how many
\* messages (numbered from 1) others send to it, a bound, and those of them
\* that its receive accepts.  It may have a shape, which only FramesInForm reads.
\* Operands are uint32_t: numbers.  All addresses past the code are one, its
\* length, since the loop ends at any of them.
ASSUME LoadAssumption ==
    \A p \in Program :
        /\ Len(Load(p).code) \in Nat \ {0}
        /\ \A i \in 1 .. Len(Load(p).code) :
             LET instr == Load(p).code[i]
             IN  /\ instr.op \in {"ALLOCATE", "DEALLOCATE", "MAKE_FUN2", "TRY", "CATCH"}
                       => instr.arg1 \in Nat
                 /\ instr.op \in {"CALL", "CALL_LAST"}
                       => instr.arg1 \in 0 .. Len(Load(p).code)
                 /\ instr.op = "CALL_LAST" => instr.arg2 \in Nat
        /\ Load(p).heap_words \in Nat \ {0}
        /\ Load(p).reductions \in Nat \ {0}
        /\ Load(p).messages \in Nat
        /\ Load(p).wanted \subseteq 1 .. Load(p).messages

\* A receive in the shape the compiler gives it: a message is removed only
\* after LOOP_REC and the test of its pattern, and no call goes in between.  A
\* closure may be written over the return addresses on the stack: a program
\* that receives makes none.
ReceivesInForm ==
    \A p \in Program : LET code == Load(p).code IN
        \A i \in 1 .. Len(code) : code[i].op = "REMOVE_MESSAGE" =>
            /\ i > 2 /\ code[i - 1].op = "TEST_MESSAGE" /\ code[i - 2].op = "LOOP_REC"
            /\ \A j \in 1 .. Len(code) :
                 /\ code[j].op # "MAKE_FUN2"
                 /\ code[j].op \in {"CALL", "CALL_LAST"} =>
                        code[j].arg1 \notin {i - 2, i - 1}

\* The places of a label.
LabelsIn(code, lbl) ==
    {a \in 0 .. Len(code) - 1 : code[a + 1].op = "LABEL" /\ code[a + 1].arg1 = lbl}

PlainOps == DataOps \cup CheckedOps \cup {"REMOVE_MESSAGE"}
JumpOps == TestOps \cup {"LOOP_REC", "TEST_MESSAGE"}

\* Frames in the shape the compiler gives them.  It knows of every address in
\* which function it is, how many Y registers the frame has there (-1: there is
\* no frame) and how many try blocks are open.  Calls and try blocks are made in
\* a frame, a function is entered and left without one, only "main" halts, and
\* nothing runs off the end of the code.
FrameInForm(code, shape, a) ==
    LET instr      == code[a + 1]
        here       == shape[a]
        Then(w, t) == /\ a + 1 < Len(code)
                      /\ shape[a + 1] = [fun |-> here.fun, words |-> w, tries |-> t]
        Enters(b)  == b < Len(code) /\ shape[b].words = -1 /\ shape[b].fun # "main"
        Lands(lbl) == \A b \in LabelsIn(code, lbl) : shape[b] = here
    IN  /\ here = [fun |-> here.fun, words |-> here.words, tries |-> here.tries]
        /\ here.words \in Nat \cup {-1} /\ here.tries \in Nat
        /\ here.words = -1 => here.tries = 0
        /\ instr.op # "MAKE_FUN2"
        /\ instr.op = "ALLOCATE" => here.words = -1 /\ Then(instr.arg1, 0)
        /\ instr.op = "DEALLOCATE" =>
              here.words = instr.arg1 /\ here.tries = 0 /\ Then(-1, 0)
        /\ instr.op \in {"TRY", "CATCH"} =>
              /\ here.words # -1 /\ Then(here.words, here.tries + 1)
              /\ LabelsIn(code, instr.arg1) # {} /\ Lands(instr.arg1)
        /\ instr.op = "TRY_END" => here.tries > 0 /\ Then(here.words, here.tries - 1)
        /\ instr.op = "CALL" =>
              /\ here.words # -1 /\ Then(here.words, here.tries)
              /\ Enters(instr.arg1)
        /\ instr.op = "CALL_LAST" =>
              /\ here.fun # "main" /\ here.words = instr.arg2 /\ here.tries = 0
              /\ Enters(instr.arg1)
        /\ instr.op = "RETURN" => here.fun # "main" /\ here.words = -1
        /\ instr.op = "HALT" => here.fun = "main" /\ here.words = -1
        /\ instr.op \in PlainOps \cup JumpOps => Then(here.words, here.tries)
        /\ instr.op \in JumpOps \cup {"LOOP_REC_END"} => Lands(instr.arg1)
        /\ instr.op = "SELECT_VAL" =>
              \A lbl \in {instr.arg1} \cup instr.arg2 : Lands(lbl)

HasFrames(code) == \E i \in 1 .. Len(code) : code[i].op \in {"RETURN", "HALT"}

FramesInForm ==
    \A p \in Program : LET code == Load(p).code IN HasFrames(code) =>
        /\ Load(p).shape[0].fun = "main" /\ Load(p).shape[0].words = -1
        /\ \A a \in 0 .. Len(code) - 1 : FrameInForm(code, Load(p).shape, a)

VARIABLES
    program,                \* the program the process runs, never changed
    state, reductions,      \* proc->state, proc->reductions
    heap, heap_capacity,    \* proc->heap: the array that heap and stack share
    heap_top, stack_top,
    cp, frame_ip,           \* frame->cp, frame->ip
    catches,                \* frame->catch_stack up to catch_depth
    mode, ip, res,          \* the scheduler's view, the local ip, the result
    inbox, cursor, x_msg,   \* mailbox, position of save_cursor (0: NULL), and
                            \* the register that holds the message peeked
    sent,                   \* how many messages have been sent
    calls,                  \* history: return addresses of the open calls
    preempted, stoppedAt,   \* history: some slice was cut; the ip it was at
    taken                   \* history: the messages removed

memVars == <<heap, heap_capacity, heap_top, stack_top>>
frameVars == <<cp, frame_ip, catches>>
boxVars == <<inbox, cursor, x_msg, sent>>
cutVars == <<preempted, stoppedAt>>
vars == <<program, state, reductions, memVars, frameVars, mode, ip, res,
          boxVars, calls, cutVars, taken>>

Code == Load(program).code
InitialHeap == Load(program).heap_words
DefaultReductions == Load(program).reductions   \* BEAM_DEFAULT_REDUCTIONS
Messages == Load(program).messages
Wanted == Load(program).wanted

CodeLen == Len(Code)
Address == 0 .. CodeLen     \* an address past the code ends the loop
Junk == -1                  \* a heap term or a word never written
Word == Address \cup {Junk}
Instr == Code[ip + 1]
CanFetch == mode = "executing" /\ ip < CodeLen

\* The addresses a word may turn out to be when it is popped into cp.
AsAddress(word) == IF word = Junk THEN Address ELSE {word}

-----------------------------------------------------------------------------
\* beam_process_create
Init ==
    /\ program \in Program
    /\ state = "RUNNABLE"
    /\ reductions = DefaultReductions
    /\ heap_capacity = InitialHeap
    /\ heap = [i \in 0 .. InitialHeap - 1 |-> Junk]
    /\ heap_top = 0
    /\ stack_top = InitialHeap
    /\ cp = 0
    /\ frame_ip = 0
    /\ catches = << >>
    /\ mode = "queued"
    /\ ip = 0
    /\ res = "OK"
    /\ inbox = << >>
    /\ cursor = 0
    /\ x_msg = 0
    /\ sent = 0
    /\ calls = << >>
    /\ preempted = FALSE
    /\ stoppedAt = 0
    /\ taken = {}

-----------------------------------------------------------------------------
(* The scheduler step around a slice, and the senders. *)

\* beam_scheduler_step takes the process; the prologue of the interpreter.
BeginSlice ==
    /\ mode = "queued"
    /\ state' = "RUNNING"
    /\ cp' = IF cp = 0 /\ frame_ip = 0 THEN CodeLen ELSE cp
    /\ ip' = frame_ip
    /\ mode' = "executing"
    /\ UNCHANGED <<reductions, memVars, frame_ip, catches, res, boxVars, calls,
                   cutVars, taken>>

Resumes == state = "RUNNABLE" \/ (res = "OK" /\ state = "RUNNING")

\* beam_scheduler_step renews the budget and links the process again.
Requeue ==
    /\ mode = "returned"
    /\ Resumes
    /\ reductions' = DefaultReductions
    /\ state' = "RUNNABLE"
    /\ mode' = "queued"
    /\ UNCHANGED <<memVars, frameVars, ip, res, boxVars, calls, cutVars, taken>>

\* beam_scheduler_step lets go of the process: nothing takes it up again.
Release ==
    /\ mode = "returned"
    /\ ~Resumes
    /\ mode' = "released"
    /\ UNCHANGED <<state, reductions, memVars, frameVars, ip, res, boxVars,
                   calls, cutVars, taken>>

\* beam_message_send_to_process, called by another thread.
SendToProcess ==
    /\ sent < Messages
    /\ sent' = sent + 1
    /\ inbox' = Append(inbox, sent + 1)
    /\ UNCHANGED <<program, state, reductions, memVars, frameVars, mode, ip, res,
                   cursor, x_msg, calls, cutVars, taken>>

-----------------------------------------------------------------------------
(* The interpreter loop. *)

\* JUMP_TO_LABEL: the first LABEL with this number; ip stays if there is none.
JUMP_TO_LABEL(lbl) ==
    LET found == LabelsIn(Code, lbl)
    IN  IF found = {} THEN ip ELSE Min(found)

\* Mutant of the next definition: the instruction costs nothing.
FetchForFree(ops) ==
    /\ CanFetch
    /\ Instr.op \in ops
    /\ reductions > 1
    /\ UNCHANGED reductions

\* An instruction of ops is fetched and paid for.
Fetch(ops) ==
    /\ CanFetch
    /\ Instr.op \in ops
    /\ reductions > 1
    /\ reductions' = reductions - 1

\* The loop goes on at the address to.
GoOn(to) ==
    /\ ip' = to
    /\ UNCHANGED <<state, mode, res>>

\* The interpreter returns to the scheduler.
Return(result, newState) ==
    /\ res' = result
    /\ state' = newState
    /\ mode' = "returned"
    /\ UNCHANGED ip

\* The budget is spent: the instruction is not executed, frame->ip not saved.
Preempt ==
    /\ CanFetch
    /\ reductions <= 1
    /\ reductions' = reductions - 1
    /\ Return("OK", "RUNNABLE")
    /\ preempted' = TRUE
    /\ stoppedAt' = ip
    /\ UNCHANGED <<memVars, frameVars, boxVars, calls, taken>>

\* The code is at its end: only here, and in WAIT, is frame->ip saved.
RunOffEnd ==
    /\ mode = "executing"
    /\ ip >= CodeLen
    /\ frame_ip' = ip
    /\ stoppedAt' = ip
    /\ Return("OK", state)
    /\ UNCHANGED <<reductions, memVars, cp, catches, boxVars, calls, preempted,
                   taken>>

Data ==
    /\ Fetch(DataOps \cup CheckedOps)
    /\ GoOn(ip + 1)
    /\ UNCHANGED <<memVars, frameVars, boxVars, calls, cutVars, taken>>

\* A checked instruction fails, or the opcode has no case: state is not written.
Fail ==
    /\ \/ Fetch(CheckedOps)
       \/ CanFetch /\ Instr.op \notin KnownOps /\ Fetch({Instr.op})
    /\ Return("ERROR", state)
    /\ UNCHANGED <<memVars, frameVars, boxVars, calls, cutVars, taken>>

\* The TEST instructions fall through or jump to their fail label.
Test ==
    /\ Fetch(TestOps)
    /\ GoOn(ip + 1) \/ GoOn(JUMP_TO_LABEL(Instr.arg1))
    /\ UNCHANGED <<memVars, frameVars, boxVars, calls, cutVars, taken>>

\* SELECT_VAL jumps to a label of its table or to its fail label (arg1).
SelectVal ==
    /\ Fetch({"SELECT_VAL"})
    /\ \E lbl \in {Instr.arg1} \cup Instr.arg2 : GoOn(JUMP_TO_LABEL(lbl))
    /\ UNCHANGED <<memVars, frameVars, boxVars, calls, cutVars, taken>>

Halt ==
    /\ Fetch({"HALT"})
    /\ Return("ERROR", "EXITED")
    /\ UNCHANGED <<memVars, frameVars, boxVars, calls, cutVars, taken>>

-----------------------------------------------------------------------------
(* Frames. *)

\* beam_process_stack_push, n times: the continuation pointer, then zeros.
Pushed(n) ==
    [i \in DOMAIN heap |->
        IF i \in stack_top - n .. stack_top - 1
        THEN IF i = stack_top - 1 THEN cp ELSE 0
        ELSE heap[i]]

\* How many words can be pushed before the stack meets the heap.
Room == IF stack_top > heap_top THEN stack_top - heap_top ELSE 0

Allocate ==
    /\ Fetch({"ALLOCATE"})
    /\ LET words == Instr.arg1 + 1
           n     == IF words <= Room THEN words ELSE Room
       IN  /\ heap' = Pushed(n)
           /\ stack_top' = stack_top - n
           /\ IF n = words THEN GoOn(ip + 1) ELSE Return("ERROR", state)
    /\ UNCHANGED <<heap_capacity, heap_top, frameVars, boxVars, calls, cutVars,
                   taken>>

\* beam_process_stack_pop, n + 1 times, the last word into cp, then on to the
\* address to; at the bottom of the stack the interpreter returns an error.
PopFrame(n, to) ==
    IF stack_top + n < heap_capacity
    THEN /\ stack_top' = stack_top + n + 1
         /\ cp' \in AsAddress(heap[stack_top + n])
         /\ GoOn(to)
    ELSE /\ stack_top' = heap_capacity
         /\ UNCHANGED cp
         /\ Return("ERROR", state)

Deallocate ==
    /\ Fetch({"DEALLOCATE"})
    /\ PopFrame(Instr.arg1, ip + 1)
    /\ UNCHANGED <<heap, heap_capacity, heap_top, frame_ip, catches, boxVars,
                   calls, cutVars, taken>>

\* CALL_LAST: arg1 is an address, arg2 the words of the frame to drop.
CallLast ==
    /\ Fetch({"CALL_LAST"})
    /\ PopFrame(Instr.arg2, Instr.arg1)
    /\ UNCHANGED <<heap, heap_capacity, heap_top, frame_ip, catches, boxVars,
                   calls, cutVars, taken>>

Call ==
    /\ Fetch({"CALL"})
    /\ cp' = ip + 1
    /\ GoOn(Instr.arg1)
    /\ calls' = Append(calls, ip + 1)
    /\ UNCHANGED <<memVars, frame_ip, catches, boxVars, cutVars, taken>>

ReturnToCp ==
    /\ Fetch({"RETURN"})
    /\ GoOn(cp)
    /\ calls' = IF calls = << >> THEN calls ELSE SubSeq(calls, 1, Len(calls) - 1)
    /\ UNCHANGED <<memVars, frameVars, boxVars, cutVars, taken>>

\* MAKE_FUN2 calls beam_process_alloc_heap: arg1 + 2 words at heap_top.  The
\* array grows when they do not fit; neither test looks at stack_top.
MakeFun ==
    /\ Fetch({"MAKE_FUN2"})
    /\ LET needed == Instr.arg1 + 2
           newCap == IF heap_top + needed > heap_capacity
                     THEN heap_capacity * 2 + needed ELSE heap_capacity
       IN  IF newCap > HeapLimit
           THEN Return("ERROR", state) /\ UNCHANGED memVars
           ELSE /\ heap_capacity' = newCap
                /\ heap' = [i \in 0 .. newCap - 1 |->
                     IF i >= heap_capacity \/ i \in heap_top .. heap_top + needed - 1
                     THEN Junk ELSE heap[i]]
                /\ heap_top' = heap_top + needed
                /\ GoOn(ip + 1)
                /\ UNCHANGED stack_top
    /\ UNCHANGED <<frameVars, boxVars, calls, cutVars, taken>>

-----------------------------------------------------------------------------
(* Exceptions. *)

\* Mutant of the next definition: the depth is not checked.
TryUnchecked ==
    /\ Fetch({"TRY", "CATCH"})
    /\ catches' = Append(catches, [label |-> Instr.arg1, stack_top |-> stack_top,
                                   open |-> Len(calls)])
    /\ GoOn(ip + 1)
    /\ UNCHANGED <<memVars, cp, frame_ip, boxVars, calls, cutVars, taken>>

\* A catch frame keeps the label and the stack; open is history: the number of
\* calls that were open when it was installed.
Try ==
    /\ Fetch({"TRY", "CATCH"})
    /\ IF Len(catches) >= MaxCatchDepth
       THEN Return("ERROR", state) /\ UNCHANGED catches
       ELSE /\ catches' = Append(catches, [label |-> Instr.arg1,
                                           stack_top |-> stack_top,
                                           open |-> Len(calls)])
            /\ GoOn(ip + 1)
    /\ UNCHANGED <<memVars, cp, frame_ip, boxVars, calls, cutVars, taken>>

\* Mutant of the next definition: the catch frame is not popped.
TryEndKeepsCatch ==
    /\ Fetch({"TRY_END"})
    /\ GoOn(ip + 1)
    /\ UNCHANGED <<memVars, frameVars, boxVars, calls, cutVars, taken>>

TryEnd ==
    /\ Fetch({"TRY_END"})
    /\ catches' = IF catches = << >> THEN catches
                  ELSE SubSeq(catches, 1, Len(catches) - 1)
    /\ GoOn(ip + 1)
    /\ UNCHANGED <<memVars, cp, frame_ip, boxVars, calls, cutVars, taken>>

\* The calls that were open when a catch frame was installed and still are.
StillOpen(cf) ==
    IF cf.open <= Len(calls) THEN SubSeq(calls, 1, cf.open) ELSE calls

\* Mutant of the next definition: the stack is not unwound.
RaiseKeepsStack ==
    /\ Fetch({"RAISE"})
    /\ IF catches = << >>
       THEN Return("ERROR", "EXITED") /\ UNCHANGED <<catches, stack_top, calls>>
       ELSE LET cf == catches[Len(catches)]
            IN  /\ catches' = SubSeq(catches, 1, Len(catches) - 1)
                /\ calls' = StillOpen(cf)
                /\ GoOn(JUMP_TO_LABEL(cf.label))
                /\ UNCHANGED stack_top
    /\ UNCHANGED <<heap, heap_capacity, heap_top, cp, frame_ip, boxVars, cutVars,
                   taken>>

\* RAISE unwinds to the innermost catch frame; cp is left as it is.
Raise ==
    /\ Fetch({"RAISE"})
    /\ IF catches = << >>
       THEN Return("ERROR", "EXITED") /\ UNCHANGED <<catches, stack_top, calls>>
       ELSE LET cf == catches[Len(catches)]
            IN  /\ stack_top' = cf.stack_top
                /\ catches' = SubSeq(catches, 1, Len(catches) - 1)
                /\ calls' = StillOpen(cf)
                /\ GoOn(JUMP_TO_LABEL(cf.label))
    /\ UNCHANGED <<heap, heap_capacity, heap_top, cp, frame_ip, boxVars, cutVars,
                   taken>>

-----------------------------------------------------------------------------
(* Receiving. *)

\* The position after i in a mailbox of n messages; past the end it is NULL.
NextPosition(i, n) == IF i < n THEN i + 1 ELSE 0

\* LOOP_REC: peek at the cursor, or at the head when the cursor is NULL.
LoopRec ==
    /\ Fetch({"LOOP_REC"})
    /\ IF inbox = << >>
       THEN /\ cursor' = 0
            /\ GoOn(JUMP_TO_LABEL(Instr.arg1))
            /\ UNCHANGED x_msg
       ELSE /\ cursor' = IF cursor = 0 THEN 1 ELSE cursor
            /\ x_msg' = inbox[cursor']
            /\ GoOn(ip + 1)
    /\ UNCHANGED <<memVars, frameVars, inbox, sent, calls, cutVars, taken>>

\* The TEST_IS_EQ_EXACT of a receive: does the message match?
TestMessage ==
    /\ Fetch({"TEST_MESSAGE"})
    /\ GoOn(IF x_msg \in Wanted THEN ip + 1 ELSE JUMP_TO_LABEL(Instr.arg1))
    /\ UNCHANGED <<memVars, frameVars, boxVars, calls, cutVars, taken>>

\* Mutant of the next definition: the oldest message is removed.
RemoveOldest ==
    /\ Fetch({"REMOVE_MESSAGE"})
    /\ IF cursor = 0
       THEN UNCHANGED <<inbox, cursor, taken>>
       ELSE /\ inbox' = Tail(inbox)
            /\ cursor' = IF cursor <= Len(inbox) - 1 THEN cursor ELSE 0
            /\ taken' = taken \cup {Head(inbox)}
    /\ GoOn(ip + 1)
    /\ UNCHANGED <<memVars, frameVars, x_msg, sent, calls, cutVars>>

\* Mutant of the next definition: the list begins at the next message, although
\* there are messages before the removed one.
RemoveCutsList ==
    /\ Fetch({"REMOVE_MESSAGE"})
    /\ IF cursor = 0
       THEN UNCHANGED <<inbox, cursor, taken>>
       ELSE /\ inbox' = SubSeq(inbox, cursor + 1, Len(inbox))
            /\ cursor' = IF cursor < Len(inbox) THEN 1 ELSE 0
            /\ taken' = taken \cup {inbox[cursor]}
    /\ GoOn(ip + 1)
    /\ UNCHANGED <<memVars, frameVars, x_msg, sent, calls, cutVars>>

\* REMOVE_MESSAGE: the message at the cursor goes, the cursor moves to the next.
RemoveMessage ==
    /\ Fetch({"REMOVE_MESSAGE"})
    /\ IF cursor = 0
       THEN UNCHANGED <<inbox, cursor, taken>>
       ELSE /\ inbox' = SubSeq(inbox, 1, cursor - 1) \o SubSeq(inbox, cursor + 1, Len(inbox))
            /\ cursor' = IF cursor < Len(inbox) THEN cursor ELSE 0
            /\ taken' = taken \cup {inbox[cursor]}
    /\ GoOn(ip + 1)
    /\ UNCHANGED <<memVars, frameVars, x_msg, sent, calls, cutVars>>

\* LOOP_REC_END: step over the message and jump back to LOOP_REC.
LoopRecEnd ==
    /\ Fetch({"LOOP_REC_END"})
    /\ IF cursor = 0
       THEN UNCHANGED cursor
       ELSE cursor' = NextPosition(cursor, Len(inbox))
    /\ GoOn(JUMP_TO_LABEL(Instr.arg1))
    /\ UNCHANGED <<memVars, frameVars, inbox, x_msg, sent, calls, cutVars, taken>>

\* WAIT: the address of this very instruction is saved.
Wait ==
    /\ Fetch({"WAIT"})
    /\ frame_ip' = ip
    /\ stoppedAt' = ip
    /\ Return("OK", "WAITING")
    /\ UNCHANGED <<memVars, cp, catches, boxVars, calls, preempted, taken>>

-----------------------------------------------------------------------------
Slice ==
    /\ UNCHANGED program
    /\ \/ Preempt \/ RunOffEnd \/ Data \/ Fail \/ Test \/ SelectVal \/ Halt
       \/ Allocate \/ Deallocate \/ Call \/ CallLast \/ ReturnToCp \/ MakeFun
       \/ Try \/ TryEnd \/ Raise
       \/ LoopRec \/ TestMessage \/ RemoveMessage \/ LoopRecEnd \/ Wait

Schedule == (BeginSlice \/ Requeue \/ Release) /\ UNCHANGED program

\* The scheduler let go of the process and nobody sends any more.
Finished == mode = "released" /\ sent = Messages /\ UNCHANGED vars

Next == Schedule \/ Slice \/ SendToProcess \/ Finished

Spec == Init /\ [][Next]_vars

\* A worker keeps running and takes what is queued; the senders do send.
FairSpec == Spec /\ WF_vars(Slice) /\ WF_vars(Schedule) /\ WF_vars(SendToProcess)

-----------------------------------------------------------------------------
TypeOK ==
    /\ program \in Program
    /\ state \in {"RUNNABLE", "RUNNING", "WAITING", "EXITED"}
    /\ reductions \in 0 .. DefaultReductions
    /\ heap_capacity \in Nat
    /\ heap \in [0 .. heap_capacity - 1 -> Word]
    /\ heap_top \in 0 .. heap_capacity
    /\ stack_top \in 0 .. heap_capacity
    /\ cp \in Address
    /\ frame_ip \in Address
    /\ catches \in Seq([label : Nat, stack_top : 0 .. heap_capacity, open : Nat])
    /\ Len(catches) <= MaxCatchDepth
    /\ mode \in {"queued", "executing", "returned", "released"}
    /\ ip \in Address
    /\ res \in {"OK", "ERROR"}
    /\ inbox \in Seq(1 .. Messages)
    /\ cursor \in 0 .. Len(inbox)
    /\ x_msg \in 0 .. Messages
    /\ sent \in 0 .. Messages
    /\ calls \in Seq(Address)
    /\ preempted \in BOOLEAN
    /\ stoppedAt \in Address
    /\ taken \subseteq 1 .. Messages

(***************************************************************************)
(* A RETURN goes back to the caller: whatever frames were allocated,       *)
(* dropped by a tail call or unwound by an exception in between, and       *)
(* although RAISE does not restore frame->cp (beam_emu.c:258-264), the cp  *)
(* that RETURN jumps to is the address after the matching CALL.            *)
(***************************************************************************)
ReturnsToCaller ==
    CanFetch /\ Instr.op = "RETURN"
        => cp = IF calls = << >> THEN CodeLen ELSE calls[Len(calls)]

(***************************************************************************)
(* Code whose frames and try blocks are balanced leaves nothing behind:    *)
(* when a process that was never preempted reaches HALT, normally or       *)
(* through a handler, the stack is empty and no catch frame is left to     *)
(* take a later exception to a dead handler.                               *)
(***************************************************************************)
BalancedAtHalt ==
    CanFetch /\ Instr.op = "HALT" /\ ~preempted
        => stack_top = heap_capacity /\ catches = << >>

(***************************************************************************)
(* Every slice ends: calls, tail calls, jumps, jumps to a label that does  *)
(* not exist (ip stays where it is) and receive loops all pay, so no code  *)
(* keeps a worker for ever (beam_emu.c:31-36).                             *)
(***************************************************************************)
SliceEnds == (mode = "executing") ~> (mode # "executing")

(***************************************************************************)
(* The pattern decides: a message is removed only if the receive accepted  *)
(* it, although messages arrive and the process is preempted between       *)
(* LOOP_REC and REMOVE_MESSAGE (beam_emu.c:173-207).                       *)
(***************************************************************************)
ReceiveTakesOnlyWanted == taken \subseteq Wanted

(***************************************************************************)
(* A selective receive loses and swaps nothing: every message sent was     *)
(* removed or is still in the mailbox, once and in the order of sending,   *)
(* whatever the code does with the cursor (erl_message.c:89-109).          *)
(***************************************************************************)
MessagesKept ==
    /\ {inbox[i] : i \in 1 .. Len(inbox)} = (1 .. sent) \ taken
    /\ \A i, j \in 1 .. Len(inbox) : i < j => inbox[i] < inbox[j]

(***************************************************************************)
(* What tests/unit/test_scheduler_loop.c:45 and :58 say of a preempted     *)
(* process, and scripts/update_knowledge_graph.py:80 of its saved frame: a *)
(* slice resumes where the last one stopped.                               *)
(***************************************************************************)
ResumesWhereStopped == [][BeginSlice => ip' = stoppedAt]_vars

(***************************************************************************)
(* What formal/smt/z3_bounds_check.py:34 says: heap and stack never        *)
(* overlap in the array they share.                                        *)
(***************************************************************************)
StackHeapDisjoint == heap_top <= stack_top

(***************************************************************************)
(* What the comment of WAIT says (beam_emu.c:209): the process yields to   *)
(* wait for new messages, so one that waits and has a message it has not   *)
(* looked at is eventually run again.                                      *)
(***************************************************************************)
WaitingIsWoken ==
    (state = "WAITING" /\ inbox # << >>) ~> (mode = "executing")
=============================================================================
