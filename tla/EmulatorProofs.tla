--------------------------- MODULE EmulatorProofs ---------------------------
(***************************************************************************)
(* Proofs about the interpreter, for every program, heap size, budget and  *)
(* number of messages: types and messages also for code that no compiler   *)
(* would produce, whose frames, try blocks and receives are not balanced;  *)
(* what a receive takes, where RETURN goes and what HALT leaves behind for *)
(* code in the form a compiler gives it.                                   *)
(***************************************************************************)
EXTENDS Emulator, SequenceFacts

(***************************************************************************)
(* The inductive invariant, part by part.                                  *)
(***************************************************************************)

\* The scheduler and the loop.
ControlOK ==
    /\ program \in Program
    /\ state \in {"RUNNABLE", "RUNNING", "WAITING", "EXITED"}
    /\ reductions \in 0 .. DefaultReductions
    /\ mode \in {"queued", "executing", "returned", "released"}
    /\ ip \in Address
    /\ res \in {"OK", "ERROR"}
    /\ preempted \in BOOLEAN
    /\ stoppedAt \in Address

\* A slice that runs, or will, has at least one reduction: without it the
\* budget of a preempted process could fall below zero.
BudgetLeft == mode \in {"queued", "executing"} => reductions >= 1

\* The array that heap and stack share, and what is saved from it.
CatchFrame == [label : Nat, stack_top : 0 .. heap_capacity, open : Nat]

MemoryOK ==
    /\ heap_capacity \in Nat
    /\ heap \in [0 .. heap_capacity - 1 -> Word]
    /\ heap_top \in 0 .. heap_capacity
    /\ stack_top \in 0 .. heap_capacity

FramesOK ==
    /\ cp \in Address
    /\ frame_ip \in Address
    /\ catches \in Seq(CatchFrame)
    /\ Len(catches) <= MaxCatchDepth
    /\ calls \in Seq(Address)

\* The mailbox.
InboxOK ==
    /\ inbox \in Seq(1 .. Messages)
    /\ cursor \in 0 .. Len(inbox)
    /\ x_msg \in 0 .. Messages
    /\ sent \in 0 .. Messages
    /\ taken \subseteq 1 .. Messages

\* What was taken had been sent; a message may not come back under its number.
TakenWasSent == taken \subseteq 1 .. sent

IInv == ControlOK /\ BudgetLeft /\ MemoryOK /\ FramesOK /\ InboxOK

-----------------------------------------------------------------------------
(* Programs and jumps. *)

\* What is assumed of programs, for the one that runs.
LEMMA ProgramFacts ==
    ASSUME program \in Program
    PROVE  /\ CodeLen \in Nat /\ CodeLen > 0
           /\ InitialHeap \in Nat /\ InitialHeap > 0
           /\ DefaultReductions \in Nat /\ DefaultReductions > 0
           /\ Messages \in Nat
  BY LoadAssumption DEF CodeLen, Code, InitialHeap, DefaultReductions, Messages

\* The operands of the instruction that is fetched.
LEMMA OperandFacts ==
    ASSUME ControlOK, CanFetch
    PROVE  /\ ip + 1 \in Address
           /\ Instr.op \in {"ALLOCATE", "DEALLOCATE", "MAKE_FUN2", "TRY", "CATCH"}
                => Instr.arg1 \in Nat
           /\ Instr.op \in {"CALL", "CALL_LAST"} => Instr.arg1 \in Address
           /\ Instr.op = "CALL_LAST" => Instr.arg2 \in Nat
  <1>1. program \in Program /\ CodeLen \in Nat
    BY ProgramFacts DEF ControlOK
  <1>2. ip + 1 \in 1 .. CodeLen /\ ip + 1 \in Address
    BY <1>1 DEF ControlOK, CanFetch, Address
  <1> QED BY <1>1, <1>2, LoadAssumption DEF Instr, Code, CodeLen, Address

\* A set of numbers that is not empty has a least element.
LEMMA MinIsElement ==
    ASSUME NEW S, S \subseteq Nat, S # {}
    PROVE  Min(S) \in S
  <1>1. \E i \in S : \A j \in S : i <= j
    BY LeastElement
  <1> QED BY <1>1, Zenon DEF Min

\* A jump stays in the code, also one to a label that does not exist.
LEMMA JumpInCode ==
    ASSUME ControlOK, NEW lbl
    PROVE  JUMP_TO_LABEL(lbl) \in Address
  <1> DEFINE found == LabelsIn(Code, lbl)
  <1>1. CodeLen \in Nat
    BY ProgramFacts DEF ControlOK
  <1>2. found \subseteq Nat /\ found \subseteq Address
    BY <1>1 DEF Address, CodeLen, LabelsIn
  <1>3. JUMP_TO_LABEL(lbl) = IF found = {} THEN ip ELSE Min(found)
    BY DEF JUMP_TO_LABEL
  <1> HIDE DEF found
  <1> QED BY <1>2, <1>3, MinIsElement DEF ControlOK

-----------------------------------------------------------------------------
(* What a step leaves alone keeps its type. *)

\* The derived constants change with the program only, and it never changes.
LEMMA SameProgram ==
    ASSUME UNCHANGED program
    PROVE  /\ CodeLen' = CodeLen /\ Address' = Address /\ Word' = Word
           /\ DefaultReductions' = DefaultReductions /\ Messages' = Messages
  BY DEF CodeLen, Code, Address, Word, DefaultReductions, Messages

\* The array keeps its type.
LEMMA SameMemory ==
    ASSUME UNCHANGED <<program, memVars>>, MemoryOK
    PROVE  MemoryOK'
  BY SameProgram DEF MemoryOK, memVars

\* The saved addresses keep theirs.
LEMMA SameFrames ==
    ASSUME UNCHANGED <<program, heap_capacity, frameVars, calls>>, FramesOK
    PROVE  FramesOK'
  BY SameProgram DEF FramesOK, CatchFrame, frameVars

\* So does the mailbox.
LEMMA SameInbox ==
    ASSUME UNCHANGED <<program, boxVars, taken>>, InboxOK
    PROVE  InboxOK'
  BY SameProgram DEF InboxOK, boxVars

\* An instruction that goes on leaves a budget and an address.
LEMMA GoOnControl ==
    ASSUME ControlOK, BudgetLeft, NEW ops, Fetch(ops), NEW to \in Address, GoOn(to),
           UNCHANGED <<program, cutVars>>
    PROVE  ControlOK' /\ BudgetLeft'
  <1>1. DefaultReductions \in Nat
    BY ProgramFacts DEF ControlOK
  <1>2. reductions' \in 0 .. DefaultReductions /\ reductions' >= 1
    BY <1>1 DEF ControlOK, Fetch
  <1> QED BY <1>2, SameProgram DEF ControlOK, BudgetLeft, GoOn, cutVars

\* An instruction that returns to the scheduler does too.
LEMMA ReturnControl ==
    ASSUME ControlOK, BudgetLeft, NEW ops, Fetch(ops),
           NEW result \in {"OK", "ERROR"},
           NEW st \in {"RUNNABLE", "RUNNING", "WAITING", "EXITED"},
           Return(result, st), UNCHANGED <<program, preempted>>, stoppedAt' \in Address
    PROVE  ControlOK' /\ BudgetLeft'
  <1>1. DefaultReductions \in Nat
    BY ProgramFacts DEF ControlOK
  <1>2. reductions' \in 0 .. DefaultReductions
    BY <1>1 DEF ControlOK, Fetch
  <1> QED BY <1>2, SameProgram DEF ControlOK, BudgetLeft, Return

-----------------------------------------------------------------------------
(* The actions. *)

\* A slice begins; the scheduler renews the budget or lets the process go.
LEMMA ScheduleStep ==
    ASSUME IInv, Schedule
    PROVE  IInv'
  <1> USE DEF IInv
  <1>1. UNCHANGED program /\ CodeLen \in Nat
    BY ProgramFacts DEF Schedule, ControlOK
  <1>2. DefaultReductions \in Nat /\ DefaultReductions > 0
    BY ProgramFacts DEF ControlOK
  <1>3. MemoryOK' /\ InboxOK'
    BY <1>1, SameMemory, SameInbox DEF Schedule, BeginSlice, Requeue, Release
  <1>4. ControlOK' /\ BudgetLeft'
    BY <1>1, <1>2, SameProgram DEF Schedule, BeginSlice, Requeue, Release, ControlOK,
       BudgetLeft, FramesOK, cutVars
  <1>5. CASE BeginSlice
    <2>1. cp' \in Address' /\ UNCHANGED <<frame_ip, catches, calls, heap_capacity>>
      BY <1>1, <1>5, SameProgram DEF BeginSlice, FramesOK, Address, memVars
    <2> QED BY <1>1, <1>3, <1>4, <2>1, SameProgram DEF FramesOK, CatchFrame
  <1>6. CASE Requeue \/ Release
    BY <1>1, <1>3, <1>4, <1>6, SameFrames DEF Requeue, Release, memVars
  <1> QED BY <1>5, <1>6 DEF Schedule

\* A message arrives.
LEMMA SendStep ==
    ASSUME IInv, SendToProcess
    PROVE  IInv'
  <1> USE DEF IInv
  <1>1. UNCHANGED program /\ Messages \in Nat
    BY ProgramFacts DEF SendToProcess, ControlOK
  <1>2. MemoryOK' /\ FramesOK'
    BY <1>1, SameMemory, SameFrames DEF SendToProcess, memVars
  <1>3. ControlOK' /\ BudgetLeft'
    BY <1>1, SameProgram DEF SendToProcess, ControlOK, BudgetLeft, cutVars
  <1>4. sent + 1 \in 1 .. Messages
    BY <1>1 DEF SendToProcess, InboxOK
  <1>5. inbox' \in Seq(1 .. Messages) /\ Len(inbox') = Len(inbox) + 1
    BY <1>4 DEF SendToProcess, InboxOK
  <1>6. cursor' \in 0 .. Len(inbox')
    BY <1>5 DEF SendToProcess, InboxOK
  <1>7. InboxOK'
    BY <1>1, <1>4, <1>5, <1>6, SameProgram DEF SendToProcess, InboxOK
  <1> QED BY <1>2, <1>3, <1>7

\* A slice is cut, or comes to the end of the code.
LEMMA StopStep ==
    ASSUME IInv, UNCHANGED program, Preempt \/ RunOffEnd
    PROVE  IInv'
  <1> USE DEF IInv
  <1>1. DefaultReductions \in Nat
    BY ProgramFacts DEF ControlOK
  <1>2. MemoryOK' /\ InboxOK'
    BY SameMemory, SameInbox DEF Preempt, RunOffEnd
  <1>3. CASE Preempt
    <2>1. reductions' \in 0 .. DefaultReductions
      BY <1>1, <1>3 DEF Preempt, ControlOK, BudgetLeft, CanFetch
    <2>2. ControlOK' /\ BudgetLeft'
      BY <1>3, <2>1, SameProgram DEF Preempt, Return, ControlOK, BudgetLeft
    <2> QED BY <1>2, <1>3, <2>2, SameFrames DEF Preempt, memVars
  <1>4. CASE RunOffEnd
    <2>1. ControlOK' /\ BudgetLeft'
      BY <1>4, SameProgram DEF RunOffEnd, Return, ControlOK, BudgetLeft
    <2>2. FramesOK'
      BY <1>4, SameProgram DEF RunOffEnd, FramesOK, CatchFrame, ControlOK, memVars
    <2> QED BY <1>2, <2>1, <2>2
  <1> QED BY <1>3, <1>4

\* Instructions that change nothing but the place in the code.
LEMMA PlainStep ==
    ASSUME IInv, UNCHANGED program,
           Data \/ Fail \/ Test \/ SelectVal \/ Halt \/ TestMessage
    PROVE  IInv'
  <1> USE DEF IInv
  <1>1. UNCHANGED <<memVars, frameVars, boxVars, calls, cutVars, taken>>
    BY DEF Data, Fail, Test, SelectVal, Halt, TestMessage
  <1>2. MemoryOK' /\ FramesOK' /\ InboxOK'
    BY <1>1, SameMemory, SameFrames, SameInbox DEF memVars
  <1>3. stoppedAt' \in Address /\ UNCHANGED preempted
    BY <1>1 DEF cutVars, ControlOK
  <1>4. CanFetch
    BY DEF Data, Fail, Test, SelectVal, Halt, TestMessage, Fetch
  <1>5. ip + 1 \in Address /\ \A lbl : JUMP_TO_LABEL(lbl) \in Address
    BY <1>4, OperandFacts, JumpInCode
  <1>6. ControlOK' /\ BudgetLeft'
    <2>1. CASE Data
      BY <1>1, <1>5, <2>1, GoOnControl DEF Data
    <2>2. CASE Fail
      <3>1. PICK ops : Fetch(ops)
        BY <2>2 DEF Fail
      <3>2. state \in {"RUNNABLE", "RUNNING", "WAITING", "EXITED"} /\ Return("ERROR", state)
        BY <2>2 DEF Fail, ControlOK
      <3> QED BY <1>3, <3>1, <3>2, ReturnControl
    <2>3. CASE Test
      <3>1. PICK to \in Address : GoOn(to)
        BY <1>5, <2>3 DEF Test
      <3> QED BY <1>1, <2>3, <3>1, GoOnControl DEF Test
    <2>4. CASE SelectVal
      <3>1. PICK to \in Address : GoOn(to)
        BY <1>5, <2>4 DEF SelectVal
      <3> QED BY <1>1, <2>4, <3>1, GoOnControl DEF SelectVal
    <2>5. CASE Halt
      BY <1>3, <2>5, ReturnControl DEF Halt
    <2>6. CASE TestMessage
      <3>1. PICK to \in Address : GoOn(to)
        BY <1>5, <2>6 DEF TestMessage
      <3> QED BY <1>1, <2>6, <3>1, GoOnControl DEF TestMessage
    <2> QED BY <2>1, <2>2, <2>3, <2>4, <2>5, <2>6
  <1> QED BY <1>2, <1>6

\* CALL and RETURN.
LEMMA CallStep ==
    ASSUME IInv, UNCHANGED program, Call \/ ReturnToCp
    PROVE  IInv'
  <1> USE DEF IInv
  <1>1. UNCHANGED <<memVars, boxVars, cutVars, taken, frame_ip, catches>>
    BY DEF Call, ReturnToCp, frameVars
  <1>2. MemoryOK' /\ InboxOK'
    BY <1>1, SameMemory, SameInbox
  <1>3. CASE Call
    <2>1. ip + 1 \in Address /\ Instr.arg1 \in Address
      BY <1>3, OperandFacts DEF Call, Fetch
    <2>2. ControlOK' /\ BudgetLeft'
      BY <1>1, <1>3, <2>1, GoOnControl DEF Call
    <2>3. FramesOK'
      BY <1>1, <1>3, <2>1, SameProgram DEF Call, FramesOK, CatchFrame, memVars
    <2> QED BY <1>2, <2>2, <2>3
  <1>4. CASE ReturnToCp
    <2>1. ControlOK' /\ BudgetLeft'
      BY <1>1, <1>4, GoOnControl DEF ReturnToCp, FramesOK
    <2>2. calls' \in Seq(Address)
      <3>1. CASE calls = << >>
        BY <1>4, <3>1 DEF ReturnToCp, FramesOK
      <3>2. CASE calls # << >>
        <4>1. calls' = SubSeq(calls, 1, Len(calls) - 1)
          BY <1>4, <3>2 DEF ReturnToCp
        <4>2. \A i \in 1 .. Len(calls) - 1 : calls[i] \in Address
          BY DEF FramesOK
        <4>3. Len(calls) - 1 \in Int
          BY DEF FramesOK
        <4> QED BY <4>1, <4>2, <4>3, SubSeqProperties
      <3> QED BY <3>1, <3>2
    <2>3. FramesOK'
      BY <1>1, <1>4, <2>2, SameProgram
         DEF ReturnToCp, FramesOK, CatchFrame, frameVars, memVars
    <2> QED BY <1>2, <2>1, <2>3
  <1> QED BY <1>3, <1>4

\* ALLOCATE pushes as many words as there is room for.
LEMMA AllocateStep ==
    ASSUME IInv, UNCHANGED program, Allocate
    PROVE  IInv'
  <1> USE DEF IInv
  <1> DEFINE words == Instr.arg1 + 1
             n     == IF words <= Room THEN words ELSE Room
  <1>1. /\ Fetch({"ALLOCATE"})
        /\ heap' = Pushed(n) /\ stack_top' = stack_top - n
        /\ IF n = words THEN GoOn(ip + 1) ELSE Return("ERROR", state)
        /\ UNCHANGED <<heap_capacity, heap_top, frameVars, boxVars, calls, cutVars,
                       taken>>
    BY DEF Allocate
  <1>2. Instr.arg1 \in Nat /\ ip + 1 \in Address
    BY <1>1, OperandFacts DEF Fetch
  <1>3. Room \in 0 .. stack_top /\ stack_top \in Nat
    BY DEF Room, MemoryOK
  <1>4. n \in 0 .. stack_top
    BY <1>2, <1>3
  <1> HIDE DEF n, words
  <1>5. 0 \in Word /\ cp \in Word
    BY ProgramFacts DEF Word, Address, ControlOK, FramesOK
  <1>6. Pushed(n) \in [0 .. heap_capacity - 1 -> Word]
    BY <1>5 DEF Pushed, MemoryOK
  <1>7. MemoryOK'
    BY <1>1, <1>3, <1>4, <1>6, SameProgram DEF MemoryOK
  <1>8. FramesOK' /\ InboxOK'
    BY <1>1, SameFrames, SameInbox
  <1>9. ControlOK' /\ BudgetLeft'
    <2>1. CASE GoOn(ip + 1)
      BY <1>1, <1>2, <2>1, GoOnControl
    <2>2. CASE Return("ERROR", state)
      BY <1>1, <2>2, ReturnControl DEF ControlOK, cutVars
    <2> QED BY <1>1, <2>1, <2>2
  <1> QED BY <1>7, <1>8, <1>9

\* DEALLOCATE and CALL_LAST pop a frame, whatever words it holds.
LEMMA PopStep ==
    ASSUME IInv, UNCHANGED program, Deallocate \/ CallLast
    PROVE  IInv'
  <1> USE DEF IInv
  <1>1. UNCHANGED <<heap, heap_capacity, heap_top, frame_ip, catches, boxVars, calls,
                    cutVars, taken>>
    BY DEF Deallocate, CallLast
  <1>2. PICK ops : Fetch(ops)
    BY DEF Deallocate, CallLast
  <1>3. PICK n \in Nat : \E to \in Address : PopFrame(n, to)
    BY OperandFacts DEF Deallocate, CallLast, Fetch
  <1>4. PICK to \in Address : PopFrame(n, to)
    BY <1>3
  <1>5. InboxOK'
    BY <1>1, SameInbox
  <1>6. CASE stack_top + n < heap_capacity
    <2>1. stack_top' = stack_top + n + 1 /\ GoOn(to) /\ stack_top + n \in 0 .. heap_capacity - 1
      BY <1>4, <1>6 DEF PopFrame, MemoryOK
    <2>2. cp' \in Address
      <3>1. cp' \in AsAddress(heap[stack_top + n]) /\ heap[stack_top + n] \in Word
        BY <1>4, <1>6, <2>1 DEF PopFrame, MemoryOK
      <3> QED BY <3>1 DEF AsAddress, Word
    <2>3. stack_top' \in 0 .. heap_capacity
      BY <1>6, <2>1 DEF MemoryOK
    <2>4. ControlOK' /\ BudgetLeft'
      BY <1>1, <1>2, <2>1, GoOnControl
    <2>5. MemoryOK'
      BY <1>1, <2>3, SameProgram DEF MemoryOK
    <2>6. FramesOK'
      BY <1>1, <2>2, SameProgram DEF FramesOK, CatchFrame
    <2> QED BY <1>5, <2>4, <2>5, <2>6
  <1>7. CASE ~ (stack_top + n < heap_capacity)
    <2>1. stack_top' = heap_capacity /\ cp' = cp /\ Return("ERROR", state)
      BY <1>4, <1>7 DEF PopFrame
    <2>2. ControlOK' /\ BudgetLeft'
      BY <1>1, <1>2, <2>1, ReturnControl DEF ControlOK, cutVars
    <2>3. stack_top' \in 0 .. heap_capacity
      BY <2>1 DEF MemoryOK
    <2>4. MemoryOK'
      BY <1>1, <2>3, SameProgram DEF MemoryOK
    <2>5. FramesOK'
      BY <1>1, <2>1, SameProgram DEF FramesOK, CatchFrame
    <2> QED BY <1>5, <2>2, <2>4, <2>5
  <1> QED BY <1>6, <1>7

\* MAKE_FUN2 may grow the array: what was saved stays within its bounds.
LEMMA MakeFunStep ==
    ASSUME IInv, UNCHANGED program, MakeFun
    PROVE  IInv'
  <1> USE DEF IInv
  <1> DEFINE needed == Instr.arg1 + 2
             newCap == IF heap_top + needed > heap_capacity
                       THEN heap_capacity * 2 + needed ELSE heap_capacity
  <1>1. Fetch({"MAKE_FUN2"}) /\ UNCHANGED <<frameVars, boxVars, calls, cutVars, taken>>
    BY DEF MakeFun
  <1>2. Instr.arg1 \in Nat /\ ip + 1 \in Address
    BY <1>1, OperandFacts DEF Fetch
  <1>3. InboxOK'
    BY <1>1, SameInbox
  <1>4. CASE newCap > HeapLimit
    <2>1. Return("ERROR", state) /\ UNCHANGED memVars
      BY <1>4 DEF MakeFun
    <2>2. ControlOK' /\ BudgetLeft'
      BY <1>1, <2>1, ReturnControl DEF ControlOK, cutVars
    <2> QED BY <1>1, <1>3, <2>1, <2>2, SameMemory, SameFrames DEF memVars
  <1>5. CASE ~ (newCap > HeapLimit)
    <2>1. /\ heap_capacity' = newCap
          /\ heap' = [i \in 0 .. newCap - 1 |->
                IF i >= heap_capacity \/ i \in heap_top .. heap_top + needed - 1
                THEN Junk ELSE heap[i]]
          /\ heap_top' = heap_top + needed
          /\ GoOn(ip + 1)
          /\ UNCHANGED stack_top
      BY <1>5 DEF MakeFun
    <2>2. needed \in Nat /\ heap_top \in Nat /\ heap_capacity \in Nat
      BY <1>2 DEF MemoryOK
    <2> HIDE DEF needed
    <2>3. /\ newCap \in Nat /\ heap_capacity <= newCap
          /\ heap_top + needed \in 0 .. newCap
      BY <2>2 DEF MemoryOK
    <2> HIDE DEF newCap
    <2>4. ASSUME NEW i \in 0 .. newCap - 1
          PROVE  (IF i >= heap_capacity \/ i \in heap_top .. heap_top + needed - 1
                  THEN Junk ELSE heap[i]) \in Word
      <3>1. CASE i >= heap_capacity \/ i \in heap_top .. heap_top + needed - 1
        BY <3>1 DEF Word
      <3>2. CASE ~ (i >= heap_capacity \/ i \in heap_top .. heap_top + needed - 1)
        <4>1. i \in 0 .. heap_capacity - 1
          BY <2>2, <2>3, <3>2
        <4> QED BY <3>2, <4>1 DEF MemoryOK
      <3> QED BY <3>1, <3>2
    <2>5. heap' \in [0 .. newCap - 1 -> Word]
      BY <2>1, <2>4
    <2>6. MemoryOK'
      BY <2>1, <2>2, <2>3, <2>5, SameProgram DEF MemoryOK
    <2>7. \A cf \in CatchFrame : cf \in CatchFrame'
      BY <2>1, <2>2, <2>3 DEF CatchFrame
    <2>8. catches' \in Seq(CatchFrame')
      <3>1. \A i \in 1 .. Len(catches) : catches[i] \in CatchFrame'
        BY <2>7 DEF FramesOK
      <3>2. catches \in [1 .. Len(catches) -> CatchFrame'] /\ Len(catches) \in Nat
        BY <3>1 DEF FramesOK
      <3> QED BY <1>1, <3>2 DEF frameVars
    <2>9. FramesOK'
      BY <1>1, <2>8, SameProgram DEF FramesOK, frameVars
    <2>10. ControlOK' /\ BudgetLeft'
      BY <1>1, <1>2, <2>1, GoOnControl
    <2> QED BY <1>3, <2>6, <2>9, <2>10
  <1> QED BY <1>4, <1>5

\* The fields of a catch frame, and the one with given fields.
LEMMA CatchFacts ==
    /\ \A cf \in CatchFrame : /\ cf.label \in Nat /\ cf.open \in Nat
                              /\ cf.stack_top \in 0 .. heap_capacity
    /\ \A l, o \in Nat, t \in 0 .. heap_capacity :
         [label |-> l, stack_top |-> t, open |-> o] \in CatchFrame
  BY DEF CatchFrame

\* Without its last element a sequence is one of the same kind.
LEMMA Shortened ==
    ASSUME NEW S, NEW seq \in Seq(S), NEW n \in 0 .. Len(seq)
    PROVE  SubSeq(seq, 1, n) \in Seq(S) /\ Len(SubSeq(seq, 1, n)) = n
  <1>1. \A i \in 1 .. n : seq[i] \in S
    OBVIOUS
  <1> QED BY <1>1, SubSeqProperties

\* TRY installs a catch frame unless there are too many, TRY_END removes one.
LEMMA TryStep ==
    ASSUME IInv, UNCHANGED program, Try \/ TryEnd
    PROVE  IInv'
  <1> USE DEF IInv
  <1>1. UNCHANGED <<memVars, cp, frame_ip, boxVars, calls, cutVars, taken>>
    BY DEF Try, TryEnd
  <1>2. MemoryOK' /\ InboxOK'
    BY <1>1, SameMemory, SameInbox
  <1>3. PICK ops : Fetch(ops)
    BY DEF Try, TryEnd
  <1>4. ip + 1 \in Address
    BY <1>3, OperandFacts DEF Fetch
  <1>5. CatchFrame' = CatchFrame
    BY <1>1 DEF CatchFrame, memVars
  <1>6. ControlOK' /\ BudgetLeft'
    <2>1. CASE GoOn(ip + 1)
      BY <1>1, <1>3, <1>4, <2>1, GoOnControl
    <2>2. CASE Return("ERROR", state)
      BY <1>1, <1>3, <2>2, ReturnControl DEF ControlOK, cutVars
    <2> QED BY <2>1, <2>2 DEF Try, TryEnd
  <1>7. catches' \in Seq(CatchFrame) /\ Len(catches') <= MaxCatchDepth
    <2>1. catches \in Seq(CatchFrame) /\ Len(catches) \in Nat
          /\ Len(catches) <= MaxCatchDepth /\ MaxCatchDepth \in Nat
      BY EmulatorAssumption DEF FramesOK
    <2>2. CASE Try
      <3>1. CASE Len(catches) >= MaxCatchDepth
        BY <2>1, <2>2, <3>1 DEF Try
      <3>2. CASE ~ (Len(catches) >= MaxCatchDepth)
        <4> DEFINE cf == [label |-> Instr.arg1, stack_top |-> stack_top,
                          open |-> Len(calls)]
        <4>1. catches' = Append(catches, cf)
          BY <2>2, <3>2 DEF Try
        <4>2. /\ Instr.arg1 \in Nat /\ Len(calls) \in Nat
              /\ stack_top \in 0 .. heap_capacity
          BY <2>2, OperandFacts DEF Try, Fetch, FramesOK, MemoryOK
        <4>3. cf \in CatchFrame
          BY <4>2, CatchFacts
        <4> HIDE DEF cf
        <4> QED BY <2>1, <3>2, <4>1, <4>3
      <3> QED BY <3>1, <3>2
    <2>3. CASE TryEnd
      <3>1. CASE catches = << >>
        BY <2>1, <2>3, <3>1 DEF TryEnd
      <3>2. CASE catches # << >>
        <4>1. catches' = SubSeq(catches, 1, Len(catches) - 1)
          BY <2>3, <3>2 DEF TryEnd
        <4>2. Len(catches) - 1 \in 0 .. Len(catches)
          BY <2>1, <3>2
        <4>3. catches' \in Seq(CatchFrame) /\ Len(catches') = Len(catches) - 1
          BY <2>1, <4>1, <4>2, Shortened
        <4> QED BY <2>1, <4>3
      <3> QED BY <3>1, <3>2
    <2> QED BY <2>2, <2>3
  <1>8. FramesOK'
    BY <1>1, <1>5, <1>7, SameProgram DEF FramesOK
  <1> QED BY <1>2, <1>6, <1>8

\* RAISE unwinds to the innermost catch frame, or ends the process.
LEMMA RaiseStep ==
    ASSUME IInv, UNCHANGED program, Raise
    PROVE  IInv'
  <1> USE DEF IInv
  <1>1. /\ Fetch({"RAISE"})
        /\ UNCHANGED <<heap, heap_capacity, heap_top, cp, frame_ip, boxVars, cutVars,
                       taken>>
    BY DEF Raise
  <1>2. InboxOK'
    BY <1>1, SameInbox
  <1>3. CASE catches = << >>
    <2>1. Return("ERROR", "EXITED") /\ UNCHANGED <<catches, stack_top, calls>>
      BY <1>3 DEF Raise
    <2>2. ControlOK' /\ BudgetLeft'
      BY <1>1, <2>1, ReturnControl DEF ControlOK, cutVars
    <2> QED BY <1>1, <1>2, <2>1, <2>2, SameMemory, SameFrames DEF memVars, frameVars
  <1>4. CASE catches # << >>
    <2>1. PICK cf : cf = catches[Len(catches)]
      OBVIOUS
    <2>2. /\ stack_top' = cf.stack_top
          /\ catches' = SubSeq(catches, 1, Len(catches) - 1)
          /\ calls' = StillOpen(cf)
          /\ GoOn(JUMP_TO_LABEL(cf.label))
      BY <1>4, <2>1 DEF Raise
    <2>3. Len(catches) \in Nat /\ Len(catches) > 0 /\ cf \in CatchFrame
      BY <1>4, <2>1 DEF FramesOK
    <2>4. cf.stack_top \in 0 .. heap_capacity /\ cf.open \in Nat
      BY <2>3, CatchFacts
    <2>5. ControlOK' /\ BudgetLeft'
      <3>1. JUMP_TO_LABEL(cf.label) \in Address
        BY JumpInCode
      <3> QED BY <1>1, <2>2, <3>1, GoOnControl
    <2>6. MemoryOK'
      BY <1>1, <2>2, <2>4, SameProgram DEF MemoryOK
    <2>7. catches' \in Seq(CatchFrame) /\ Len(catches') = Len(catches) - 1
      <3>1. Len(catches) - 1 \in 0 .. Len(catches) /\ catches \in Seq(CatchFrame)
        BY <2>3 DEF FramesOK
      <3> QED BY <2>2, <3>1, Shortened
    <2>8. calls' \in Seq(Address)
      <3>1. calls \in Seq(Address) /\ Len(calls) \in Nat
        BY DEF FramesOK
      <3>2. CASE cf.open <= Len(calls)
        <4>1. cf.open \in 0 .. Len(calls) /\ calls' = SubSeq(calls, 1, cf.open)
          BY <2>2, <2>4, <3>1, <3>2 DEF StillOpen
        <4> QED BY <3>1, <4>1, Shortened
      <3>3. CASE ~ (cf.open <= Len(calls))
        BY <2>2, <3>1, <3>3 DEF StillOpen
      <3> QED BY <3>2, <3>3
    <2>9. CatchFrame' = CatchFrame
      BY <1>1 DEF CatchFrame
    <2>10. Len(catches') <= MaxCatchDepth
      BY <2>3, <2>7, EmulatorAssumption DEF FramesOK
    <2>11. FramesOK'
      BY <1>1, <2>7, <2>8, <2>9, <2>10, SameProgram DEF FramesOK
    <2> QED BY <1>2, <2>5, <2>6, <2>11
  <1> QED BY <1>3, <1>4

\* LOOP_REC, LOOP_REC_END and WAIT keep the cursor in the mailbox.
LEMMA CursorStep ==
    ASSUME IInv, UNCHANGED program, LoopRec \/ LoopRecEnd \/ Wait
    PROVE  IInv'
  <1> USE DEF IInv
  <1>1. UNCHANGED <<memVars, cp, catches, inbox, sent, calls, preempted, taken>>
    BY DEF LoopRec, LoopRecEnd, Wait, frameVars, cutVars, boxVars
  <1>2. PICK ops : Fetch(ops)
    BY DEF LoopRec, LoopRecEnd, Wait
  <1>3. MemoryOK'
    BY <1>1, SameMemory
  <1>4. frame_ip' \in Address /\ stoppedAt' \in Address
    BY DEF LoopRec, LoopRecEnd, Wait, frameVars, cutVars, FramesOK, ControlOK
  <1>5. FramesOK'
    BY <1>1, <1>4, SameProgram DEF FramesOK, CatchFrame, memVars
  <1>6. ip + 1 \in Address /\ \A lbl : JUMP_TO_LABEL(lbl) \in Address
    BY <1>2, OperandFacts, JumpInCode DEF Fetch
  <1>7. ControlOK' /\ BudgetLeft'
    <2>1. CASE LoopRec \/ LoopRecEnd
      <3>1. PICK to \in Address : GoOn(to)
        BY <1>6, <2>1 DEF LoopRec, LoopRecEnd
      <3>2. UNCHANGED cutVars
        BY <2>1 DEF LoopRec, LoopRecEnd
      <3> QED BY <1>2, <3>1, <3>2, GoOnControl
    <2>2. CASE Wait
      BY <1>1, <1>2, <1>4, <2>2, ReturnControl DEF Wait
    <2> QED BY <2>1, <2>2
  <1>8. cursor' \in 0 .. Len(inbox) /\ x_msg' \in 0 .. Messages
    <2>1. Len(inbox) \in Nat /\ Messages \in Nat /\ inbox \in Seq(1 .. Messages)
      BY ProgramFacts DEF InboxOK, ControlOK
    <2>2. CASE LoopRec
      <3>1. CASE inbox = << >>
        BY <2>1, <2>2, <3>1 DEF LoopRec, InboxOK
      <3>2. CASE inbox # << >>
        <4>1. cursor' = (IF cursor = 0 THEN 1 ELSE cursor) /\ x_msg' = inbox[cursor']
          BY <2>2, <3>2 DEF LoopRec
        <4>2. cursor' \in 1 .. Len(inbox)
          BY <2>1, <3>2, <4>1 DEF InboxOK
        <4>3. inbox[cursor'] \in 1 .. Messages
          BY <2>1, <4>2
        <4> QED BY <2>1, <4>1, <4>2, <4>3
      <3> QED BY <3>1, <3>2
    <2>3. CASE LoopRecEnd
      BY <2>1, <2>3 DEF LoopRecEnd, NextPosition, InboxOK
    <2>4. CASE Wait
      BY <2>1, <2>4 DEF Wait, boxVars, InboxOK
    <2> QED BY <2>2, <2>3, <2>4
  <1>9. InboxOK'
    BY <1>1, <1>8, SameProgram DEF InboxOK
  <1> QED BY <1>3, <1>5, <1>7, <1>9

\* REMOVE_MESSAGE takes one message out of the mailbox, if there is a cursor.
LEMMA RemoveStep ==
    ASSUME IInv, UNCHANGED program, RemoveMessage
    PROVE  IInv'
  <1> USE DEF IInv
  <1>1. /\ Fetch({"REMOVE_MESSAGE"}) /\ GoOn(ip + 1)
        /\ UNCHANGED <<memVars, frameVars, x_msg, sent, calls, cutVars>>
    BY DEF RemoveMessage
  <1>2. MemoryOK' /\ FramesOK'
    BY <1>1, SameMemory, SameFrames DEF memVars
  <1>3. ControlOK' /\ BudgetLeft'
    BY <1>1, OperandFacts, GoOnControl DEF Fetch
  <1>4. CASE cursor = 0
    <2>1. UNCHANGED <<boxVars, taken>>
      BY <1>1, <1>4 DEF RemoveMessage, boxVars
    <2> QED BY <1>2, <1>3, <2>1, SameInbox
  <1>5. CASE cursor # 0
    <2>1. cursor \in 1 .. Len(inbox) /\ inbox \in Seq(1 .. Messages)
      BY <1>5 DEF InboxOK
    <2>2. /\ inbox' = SubSeq(inbox, 1, cursor - 1) \o SubSeq(inbox, cursor + 1, Len(inbox))
          /\ cursor' = IF cursor < Len(inbox) THEN cursor ELSE 0
          /\ taken' = taken \cup {inbox[cursor]}
      BY <1>5 DEF RemoveMessage
    <2>3. inbox' \in Seq(1 .. Messages) /\ Len(inbox') = Len(inbox) - 1
      BY <2>1, <2>2, DropElement
    <2>4. cursor' \in 0 .. Len(inbox')
      <3>1. Len(inbox) \in Nat /\ cursor' = IF cursor < Len(inbox) THEN cursor ELSE 0
        BY <2>1, <2>2
      <3> QED BY <2>1, <2>3, <3>1
    <2>5. inbox[cursor] \in 1 .. Messages
      <3>1. Messages \in Nat
        BY ProgramFacts DEF ControlOK
      <3> QED BY <2>1, <3>1
    <2>6. taken' \subseteq 1 .. Messages
      BY <2>2, <2>5 DEF InboxOK
    <2>7. InboxOK'
      BY <1>1, <2>3, <2>4, <2>6, SameProgram DEF InboxOK
    <2> QED BY <1>2, <1>3, <2>7
  <1> QED BY <1>4, <1>5

-----------------------------------------------------------------------------
\* A new process is well typed.
LEMMA InitOK == Init => IInv
  <1> SUFFICES ASSUME Init PROVE IInv
    OBVIOUS
  <1>1. /\ CodeLen \in Nat /\ InitialHeap \in Nat /\ Messages \in Nat
        /\ DefaultReductions \in Nat /\ DefaultReductions > 0
    BY ProgramFacts DEF Init
  <1>2. ControlOK /\ BudgetLeft
    <2>1. ip \in Address /\ stoppedAt \in Address
      BY <1>1 DEF Init, Address
    <2>2. reductions \in 0 .. DefaultReductions /\ reductions >= 1
      BY <1>1 DEF Init
    <2> QED BY <2>1, <2>2 DEF Init, ControlOK, BudgetLeft
  <1>3. MemoryOK
    BY <1>1 DEF Init, MemoryOK, Word
  <1>4. FramesOK
    BY <1>1, EmulatorAssumption DEF Init, FramesOK, Address
  <1>5. InboxOK
    BY <1>1 DEF Init, InboxOK
  <1> QED BY <1>2, <1>3, <1>4, <1>5 DEF IInv

\* Every step keeps it so.
LEMMA StepOK == IInv /\ [Next]_vars => IInv'
  <1> SUFFICES ASSUME IInv, [Next]_vars PROVE IInv'
    OBVIOUS
  <1>1. CASE Schedule
    BY <1>1, ScheduleStep
  <1>2. CASE Slice
    BY <1>2, StopStep, PlainStep, CallStep, AllocateStep, PopStep, MakeFunStep, TryStep,
       RaiseStep, CursorStep, RemoveStep DEF Slice
  <1>3. CASE SendToProcess
    BY <1>3, SendStep
  <1>4. CASE UNCHANGED vars
    <2>1. UNCHANGED <<program, memVars, frameVars, boxVars, cutVars, taken, calls>>
      BY <1>4 DEF vars
    <2>2. MemoryOK' /\ FramesOK' /\ InboxOK'
      BY <2>1, SameMemory, SameFrames, SameInbox DEF IInv, memVars
    <2>3. ControlOK' /\ BudgetLeft'
      BY <1>4, SameProgram DEF vars, IInv, ControlOK, BudgetLeft, cutVars
    <2> QED BY <2>2, <2>3 DEF IInv
  <1> QED BY <1>1, <1>2, <1>3, <1>4 DEF Next, Finished

\* Whatever code runs, balanced or not: the stack and heap pointers stay within
\* the array, also after an exception restored a stack pointer saved before the
\* array grew; the addresses that are saved and jumped to lie in the code or at
\* its end; catch frames never exceed BEAM_MAX_CATCH_DEPTH, budgets stay between
\* zero and BEAM_DEFAULT_REDUCTIONS, and the cursor stays in the mailbox
\* (TypeOK; beam_emu.c:8-431, erl_process.c:156-174).
THEOREM TypeCorrect == Spec => []TypeOK
  <1>1. IInv => TypeOK
    BY DEF IInv, ControlOK, MemoryOK, FramesOK, CatchFrame, InboxOK, TypeOK
  <1> QED BY <1>1, InitOK, StepOK, PTL DEF Spec

-----------------------------------------------------------------------------
(* No message is lost or swapped. *)

KeptInv == MessagesKept /\ TakenWasSent

\* A message that arrives is the newest.
LEMMA SendKeeps ==
    ASSUME IInv, KeptInv, SendToProcess
    PROVE  KeptInv'
  <1>1. /\ inbox' = Append(inbox, sent + 1) /\ sent' = sent + 1 /\ taken' = taken
        /\ sent \in Nat /\ Len(inbox) \in Nat
    BY DEF SendToProcess, IInv, InboxOK
  <1>2. /\ Len(inbox') = Len(inbox) + 1 /\ inbox'[Len(inbox')] = sent + 1
        /\ \A i \in 1 .. Len(inbox) : inbox'[i] = inbox[i]
    BY <1>1 DEF IInv, InboxOK
  <1>3. \A i \in 1 .. Len(inbox) : inbox[i] \in (1 .. sent) \ taken
    BY DEF KeptInv, MessagesKept
  <1>4. \A m \in (1 .. sent) \ taken : \E i \in 1 .. Len(inbox) : inbox[i] = m
    BY DEF KeptInv, MessagesKept
  <1>5. taken' \subseteq 1 .. sent' /\ sent + 1 \notin taken
    BY <1>1 DEF KeptInv, TakenWasSent
  <1>6. ASSUME NEW i \in 1 .. Len(inbox') PROVE inbox'[i] \in (1 .. sent') \ taken'
    <2>1. CASE i = Len(inbox')
      BY <1>1, <1>2, <1>5, <2>1
    <2>2. CASE i # Len(inbox')
      <3>1. i \in 1 .. Len(inbox)
        BY <1>1, <1>2, <2>2
      <3>2. inbox[i] \in (1 .. sent) \ taken
        BY <1>3, <3>1
      <3> QED BY <1>1, <1>2, <3>1, <3>2
    <2> QED BY <2>1, <2>2
  <1>7. ASSUME NEW m \in (1 .. sent') \ taken'
        PROVE  \E i \in 1 .. Len(inbox') : inbox'[i] = m
    <2>1. CASE m = sent + 1
      <3>1. Len(inbox') \in 1 .. Len(inbox')
        BY <1>1, <1>2
      <3> QED BY <1>2, <2>1, <3>1
    <2>2. CASE m # sent + 1
      <3>1. m \in (1 .. sent) \ taken
        BY <1>1, <2>2
      <3>2. PICK i \in 1 .. Len(inbox) : inbox[i] = m
        BY <1>4, <3>1
      <3>3. i \in 1 .. Len(inbox')
        BY <1>1, <1>2
      <3> QED BY <1>2, <3>2, <3>3
    <2> QED BY <2>1, <2>2
  <1>8. ASSUME NEW i \in 1 .. Len(inbox'), NEW j \in 1 .. Len(inbox'), i < j
        PROVE  inbox'[i] < inbox'[j]
    <2>1. i \in 1 .. Len(inbox) /\ inbox[i] \in 1 .. sent
      BY <1>1, <1>2, <1>3, <1>8
    <2>2. CASE j = Len(inbox')
      BY <1>1, <1>2, <2>1, <2>2
    <2>3. CASE j # Len(inbox')
      <3>1. j \in 1 .. Len(inbox)
        BY <1>1, <1>2, <2>3
      <3> QED BY <1>2, <1>8, <2>1, <3>1 DEF KeptInv, MessagesKept
    <2> QED BY <2>2, <2>3
  <1>9. {inbox'[i] : i \in 1 .. Len(inbox')} = (1 .. sent') \ taken'
    BY <1>6, <1>7, Zenon
  <1> QED BY <1>5, <1>8, <1>9 DEF KeptInv, MessagesKept, TakenWasSent

\* Exactly the message at the cursor is removed.
LEMMA RemoveKeeps ==
    ASSUME IInv, KeptInv, RemoveMessage
    PROVE  KeptInv'
  <1>1. CASE cursor = 0
    BY <1>1 DEF RemoveMessage, KeptInv, MessagesKept, TakenWasSent
  <1>2. CASE cursor # 0
    <2>1. /\ cursor \in 1 .. Len(inbox) /\ inbox \in Seq(1 .. Messages)
          /\ Len(inbox) \in Nat
      BY <1>2 DEF IInv, InboxOK
    <2>2. /\ inbox' = SubSeq(inbox, 1, cursor - 1) \o SubSeq(inbox, cursor + 1, Len(inbox))
          /\ taken' = taken \cup {inbox[cursor]} /\ sent' = sent
      BY <1>2 DEF RemoveMessage
    <2> DEFINE old(j) == IF j < cursor THEN j ELSE j + 1
    <2>3. /\ Len(inbox') = Len(inbox) - 1
          /\ \A j \in 1 .. Len(inbox) - 1 :
                inbox'[j] = IF j < cursor THEN inbox[j] ELSE inbox[j + 1]
      BY <2>1, <2>2, DropElement
    <2>4. \A j \in 1 .. Len(inbox') : inbox'[j] = inbox[old(j)]
      BY <2>3
    <2>5. /\ \A j \in 1 .. Len(inbox') : old(j) \in 1 .. Len(inbox) /\ old(j) # cursor
          /\ \A i, j \in 1 .. Len(inbox') : i < j => old(i) < old(j)
          /\ \A m \in 1 .. Len(inbox) :
                m # cursor => \E j \in 1 .. Len(inbox') : old(j) = m
      <3>1. /\ \A j \in 1 .. Len(inbox) - 1 : old(j) \in 1 .. Len(inbox) /\ old(j) # cursor
            /\ \A i, j \in 1 .. Len(inbox) - 1 : i < j => old(i) < old(j)
            /\ \A m \in 1 .. Len(inbox) :
                  m # cursor => \E j \in 1 .. Len(inbox) - 1 : old(j) = m
        <4>1. PICK n \in Nat : n = Len(inbox)
          BY <2>1
        <4>2. PICK k \in 1 .. n : k = cursor
          BY <2>1, <4>1
        <4>3. /\ \A j \in 1 .. n - 1 : old(j) \in 1 .. n /\ old(j) # k
              /\ \A i, j \in 1 .. n - 1 : i < j => old(i) < old(j)
              /\ \A m \in 1 .. n : m # k => \E j \in 1 .. n - 1 : old(j) = m
          BY <4>2, DropPositions
        <4> QED BY <4>1, <4>2, <4>3
      <3> QED BY <2>3, <3>1
    <2> HIDE DEF old
    <2>6. \A i \in 1 .. Len(inbox) : inbox[i] \in (1 .. sent) \ taken /\ inbox[i] \in Nat
      BY <2>1 DEF KeptInv, MessagesKept
    <2>7. \A m \in (1 .. sent) \ taken : \E i \in 1 .. Len(inbox) : inbox[i] = m
      BY DEF KeptInv, MessagesKept
    <2>8. \A i, j \in 1 .. Len(inbox) : i < j => inbox[i] < inbox[j]
      BY DEF KeptInv, MessagesKept
    <2>9. \A i, j \in 1 .. Len(inbox) : inbox[i] = inbox[j] => i = j
      <3> SUFFICES ASSUME NEW i \in 1 .. Len(inbox), NEW j \in 1 .. Len(inbox), i # j
                   PROVE  inbox[i] # inbox[j]
        OBVIOUS
      <3>1. i < j \/ j < i
        BY <2>1
      <3> QED BY <2>6, <2>8, <3>1
    <2>10. ASSUME NEW j \in 1 .. Len(inbox') PROVE inbox'[j] \in (1 .. sent') \ taken'
      <3>1. old(j) \in 1 .. Len(inbox) /\ old(j) # cursor /\ inbox'[j] = inbox[old(j)]
        BY <2>4, <2>5
      <3>2. inbox[old(j)] # inbox[cursor]
        BY <2>1, <2>9, <3>1
      <3> QED BY <2>2, <2>6, <3>1, <3>2
    <2>11. ASSUME NEW m \in (1 .. sent') \ taken'
           PROVE  \E j \in 1 .. Len(inbox') : inbox'[j] = m
      <3>1. m \in (1 .. sent) \ taken /\ m # inbox[cursor]
        BY <2>2
      <3>2. PICK i \in 1 .. Len(inbox) : inbox[i] = m
        BY <2>7, <3>1
      <3>3. PICK j \in 1 .. Len(inbox') : old(j) = i
        BY <2>5, <3>1, <3>2
      <3> QED BY <2>4, <3>2, <3>3
    <2>12. ASSUME NEW i \in 1 .. Len(inbox'), NEW j \in 1 .. Len(inbox'), i < j
           PROVE  inbox'[i] < inbox'[j]
      BY <2>4, <2>5, <2>8, <2>12
    <2>13. {inbox'[i] : i \in 1 .. Len(inbox')} = (1 .. sent') \ taken'
      BY <2>10, <2>11, Zenon
    <2>14. taken' \subseteq 1 .. sent'
      <3>1. inbox[cursor] \in 1 .. sent
        BY <2>1, <2>6
      <3> QED BY <2>2, <3>1 DEF KeptInv, TakenWasSent
    <2> QED BY <2>12, <2>13, <2>14 DEF KeptInv, MessagesKept, TakenWasSent
  <1> QED BY <1>1, <1>2

\* No other step touches the messages.
LEMMA KeptStep == IInv /\ KeptInv /\ [Next]_vars => KeptInv'
  <1> SUFFICES ASSUME IInv, KeptInv, [Next]_vars PROVE KeptInv'
    OBVIOUS
  <1>1. CASE SendToProcess
    BY <1>1, SendKeeps
  <1>2. CASE RemoveMessage
    BY <1>2, RemoveKeeps
  <1>3. ASSUME UNCHANGED <<inbox, sent, taken>> PROVE KeptInv'
    BY <1>3 DEF KeptInv, MessagesKept, TakenWasSent
  <1>4. CASE Schedule
    BY <1>3, <1>4 DEF Schedule, BeginSlice, Requeue, Release, boxVars
  <1>5. CASE Slice /\ ~ RemoveMessage
    <2>1. UNCHANGED <<inbox, sent, taken>>
      BY <1>5 DEF Slice, Preempt, RunOffEnd, Data, Fail, Test, SelectVal, Halt, Allocate,
         Deallocate, Call, CallLast, ReturnToCp, MakeFun, Try, TryEnd, Raise, LoopRec,
         TestMessage, LoopRecEnd, Wait, boxVars
    <2> QED BY <1>3, <2>1
  <1>6. CASE UNCHANGED vars
    BY <1>3, <1>6 DEF vars, boxVars
  <1> QED BY <1>1, <1>2, <1>4, <1>5, <1>6 DEF Next, Finished

\* Whatever code runs, however its receive loops use the cursor and wherever it
\* is preempted: every message sent was removed or is in the mailbox, once and in
\* the order of sending (MessagesKept; beam_emu.c:173-207).
THEOREM NoMessageLostOrSwapped == Spec => []MessagesKept
  <1>1. Init => KeptInv
    BY DEF Init, KeptInv, MessagesKept, TakenWasSent
  <1>2. KeptInv => MessagesKept
    BY DEF KeptInv
  <1> QED BY <1>1, <1>2, InitOK, StepOK, KeptStep, PTL DEF Spec

-----------------------------------------------------------------------------
(***************************************************************************)
(* Only accepted messages are removed, by code whose receives are in form. *)
(* A RETURN, a popped frame, a handler or a resumed slice could bring the  *)
(* process between LOOP_REC and REMOVE_MESSAGE with another message in     *)
(* hand: the invariant says that no address kept anywhere lies there.      *)
(***************************************************************************)

Receives == \E i \in 1 .. CodeLen : Code[i].op = "REMOVE_MESSAGE"

\* The addresses of the test and of the removal.
Inside(a) == \E i \in 1 .. CodeLen :
                 Code[i].op = "REMOVE_MESSAGE" /\ (a = i - 2 \/ a = i - 1)

AddressesOutside == ~Inside(cp) /\ ~Inside(frame_ip)

\* Every word that can be popped now or after an exception was pushed.
Reachable(i) ==
    stack_top <= i \/ \E c \in 1 .. Len(catches) : catches[c].stack_top <= i

StackOutside ==
    \A i \in 0 .. heap_capacity - 1 :
        Reachable(i) => heap[i] # Junk /\ ~Inside(heap[i])

\* What the test accepts is what the cursor stands at.
AcceptedAtCursor ==
    mode = "executing" /\ Inside(ip) =>
        /\ cursor # 0 => x_msg = inbox[cursor]
        /\ Instr.op = "REMOVE_MESSAGE" => x_msg \in Wanted

PatternInv ==
    /\ taken \subseteq Wanted
    /\ Receives => AddressesOutside /\ StackOutside /\ AcceptedAtCursor

\* The shape, for the program that runs.
LEMMA FormFacts ==
    ASSUME ReceivesInForm, program \in Program
    PROVE  /\ \A a : Inside(a) =>
                /\ a \in 1 .. CodeLen - 1
                /\ \/ Code[a].op = "LOOP_REC" /\ Code[a + 1].op = "TEST_MESSAGE"
                   \/ /\ Code[a].op = "TEST_MESSAGE" /\ Code[a + 1].op = "REMOVE_MESSAGE"
                      /\ Inside(a - 1)
           /\ Receives => \A j \in 1 .. CodeLen :
                /\ Code[j].op # "MAKE_FUN2"
                /\ Code[j].op \in {"CALL", "CALL_LAST"} => ~Inside(Code[j].arg1)
  <1>1. CodeLen \in Nat
    BY ProgramFacts
  <1>2. \A i \in 1 .. CodeLen : Code[i].op = "REMOVE_MESSAGE" =>
            /\ i > 2 /\ Code[i - 1].op = "TEST_MESSAGE" /\ Code[i - 2].op = "LOOP_REC"
            /\ \A j \in 1 .. CodeLen :
                 /\ Code[j].op # "MAKE_FUN2"
                 /\ Code[j].op \in {"CALL", "CALL_LAST"} =>
                        Code[j].arg1 \notin {i - 2, i - 1}
    BY DEF ReceivesInForm, Code, CodeLen
  <1>3. ASSUME NEW a, Inside(a)
        PROVE  /\ a \in 1 .. CodeLen - 1
               /\ \/ Code[a].op = "LOOP_REC" /\ Code[a + 1].op = "TEST_MESSAGE"
                  \/ /\ Code[a].op = "TEST_MESSAGE" /\ Code[a + 1].op = "REMOVE_MESSAGE"
                     /\ Inside(a - 1)
    <2>1. PICK i \in 1 .. CodeLen :
            Code[i].op = "REMOVE_MESSAGE" /\ (a = i - 2 \/ a = i - 1)
      BY <1>3 DEF Inside
    <2>2. i > 2 /\ Code[i - 1].op = "TEST_MESSAGE" /\ Code[i - 2].op = "LOOP_REC"
      BY <1>2, <2>1
    <2>3. CASE a = i - 2
      <3>1. a \in 1 .. CodeLen - 1 /\ a + 1 = i - 1
        BY <1>1, <2>2, <2>3
      <3> QED BY <2>2, <2>3, <3>1
    <2>4. CASE a = i - 1
      <3>1. a \in 1 .. CodeLen - 1 /\ a + 1 = i /\ a - 1 = i - 2
        BY <1>1, <2>2, <2>4
      <3>2. Inside(a - 1)
        BY <2>1, <3>1 DEF Inside
      <3> QED BY <2>1, <2>2, <2>4, <3>1, <3>2
    <2> QED BY <2>1, <2>3, <2>4
  <1>4. ASSUME Receives, NEW j \in 1 .. CodeLen
        PROVE  /\ Code[j].op # "MAKE_FUN2"
               /\ Code[j].op \in {"CALL", "CALL_LAST"} => ~Inside(Code[j].arg1)
    <2>1. Code[j].op # "MAKE_FUN2"
      BY <1>2, <1>4 DEF Receives
    <2>2. ASSUME Code[j].op \in {"CALL", "CALL_LAST"}, Inside(Code[j].arg1)
          PROVE  FALSE
      BY <1>2, <2>2 DEF Inside
    <2> QED BY <2>1, <2>2
  <1> QED BY <1>3, <1>4, Zenon

\* A jump ends at a LABEL or where it began.
LEMMA JumpLands ==
    ASSUME ControlOK, NEW lbl
    PROVE  \/ JUMP_TO_LABEL(lbl) = ip
           \/ Code[JUMP_TO_LABEL(lbl) + 1].op = "LABEL"
  <1> DEFINE found == LabelsIn(Code, lbl)
  <1>1. CodeLen \in Nat
    BY ProgramFacts DEF ControlOK
  <1>2. found \subseteq Nat /\ \A i \in found : Code[i + 1].op = "LABEL"
    BY <1>1 DEF CodeLen, LabelsIn
  <1>3. JUMP_TO_LABEL(lbl) = IF found = {} THEN ip ELSE Min(found)
    BY DEF JUMP_TO_LABEL
  <1> HIDE DEF found
  <1> QED BY <1>2, <1>3, MinIsElement

\* Where the instruction that is fetched may go without entering a receive.
LEMMA GoesOutside ==
    ASSUME ReceivesInForm, ControlOK, CanFetch
    PROVE  /\ Instr.op \notin {"LOOP_REC", "TEST_MESSAGE"} => ~Inside(ip + 1)
           /\ Instr.op \notin {"TEST_MESSAGE", "REMOVE_MESSAGE"} =>
                ~Inside(ip) /\ \A lbl : ~Inside(JUMP_TO_LABEL(lbl))
           /\ Receives /\ Instr.op \in {"CALL", "CALL_LAST"} => ~Inside(Instr.arg1)
           /\ Receives => Instr.op # "MAKE_FUN2"
           /\ ~Inside(0) /\ ~Inside(CodeLen)
  <1>1. program \in Program /\ CodeLen \in Nat
    BY ProgramFacts DEF ControlOK
  <1>2. ip + 1 \in 1 .. CodeLen /\ ip \in Nat /\ Instr = Code[ip + 1]
    BY <1>1 DEF ControlOK, CanFetch, Address, Instr
  <1>3. ASSUME NEW a, Inside(a)
        PROVE  /\ a \in 1 .. CodeLen - 1
               /\ Code[a].op \in {"LOOP_REC", "TEST_MESSAGE"}
               /\ Code[a + 1].op \in {"TEST_MESSAGE", "REMOVE_MESSAGE"}
    BY <1>1, <1>3, FormFacts
  <1>4. Instr.op \notin {"LOOP_REC", "TEST_MESSAGE"} => ~Inside(ip + 1)
    BY <1>2, <1>3
  <1>5. ASSUME Instr.op \notin {"TEST_MESSAGE", "REMOVE_MESSAGE"}, NEW lbl
        PROVE  ~Inside(ip) /\ ~Inside(JUMP_TO_LABEL(lbl))
    <2>1. ~Inside(ip)
      BY <1>2, <1>3, <1>5
    <2>2. PICK to : to = JUMP_TO_LABEL(lbl)
      OBVIOUS
    <2>3. to = ip \/ Code[to + 1].op = "LABEL"
      BY <2>2, JumpLands
    <2>4. ~Inside(to)
      BY <1>3, <2>1, <2>3
    <2> QED BY <2>1, <2>2, <2>4
  <1>6. Receives =>
          /\ Instr.op # "MAKE_FUN2"
          /\ Instr.op \in {"CALL", "CALL_LAST"} => ~Inside(Instr.arg1)
    BY <1>1, <1>2, FormFacts, Zenon
  <1>7. ~Inside(0) /\ ~Inside(CodeLen)
    BY <1>1, <1>3
  <1> QED BY <1>4, <1>5, <1>6, <1>7, Zenon

\* What a step leaves alone stays outside.
LEMMA SameReceives ==
    ASSUME UNCHANGED program
    PROVE  /\ Receives' <=> Receives
           /\ \A a : Inside(a)' <=> Inside(a)
           /\ Wanted' = Wanted
  BY DEF Receives, Inside, Code, CodeLen, Wanted

LEMMA SameAddresses ==
    ASSUME UNCHANGED <<program, cp, frame_ip>>, AddressesOutside
    PROVE  AddressesOutside'
  BY DEF AddressesOutside, Inside, Code, CodeLen

LEMMA SameStack ==
    ASSUME UNCHANGED <<program, heap, heap_capacity, stack_top, catches>>, StackOutside
    PROVE  StackOutside'
  BY DEF StackOutside, Reachable, Inside, Code, CodeLen

LEMMA AwayFromReceive ==
    ASSUME UNCHANGED program, mode' # "executing" \/ ~Inside(ip')
    PROVE  AcceptedAtCursor'
  <1>1. Inside(ip)' <=> Inside(ip')
    BY DEF Inside, Code, CodeLen
  <1> QED BY <1>1 DEF AcceptedAtCursor

\* A step that takes nothing and only moves in the code, to an address outside.
LEMMA MoveOutside ==
    ASSUME PatternInv, UNCHANGED <<program, heap, heap_capacity, stack_top, catches,
                                   cp, frame_ip, taken>>,
           mode' # "executing" \/ ~Inside(ip')
    PROVE  PatternInv'
  BY SameReceives, SameAddresses, SameStack, AwayFromReceive DEF PatternInv

\* The scheduler resumes a process at an address outside.
LEMMA SchedulePattern ==
    ASSUME ReceivesInForm, IInv, PatternInv, Schedule
    PROVE  PatternInv'
  <1> USE DEF IInv
  <1>1. CASE BeginSlice
    <2>1. /\ UNCHANGED <<program, heap, heap_capacity, stack_top, catches, frame_ip, taken>>
          /\ ip' = frame_ip /\ (cp' = CodeLen \/ cp' = cp)
      BY <1>1 DEF Schedule, BeginSlice, memVars
    <2>2. ~Inside(CodeLen)
      <3>1. CodeLen \in Nat
        BY ProgramFacts DEF ControlOK
      <3> QED BY <3>1 DEF Inside
    <2>3. ASSUME Receives
          PROVE  AddressesOutside' /\ StackOutside' /\ AcceptedAtCursor'
      <3>1. ~Inside(cp') /\ ~Inside(frame_ip') /\ ~Inside(ip')
        BY <2>1, <2>2, <2>3 DEF PatternInv, AddressesOutside
      <3>2. AddressesOutside'
        BY <2>1, <3>1 DEF AddressesOutside, Inside, Code, CodeLen
      <3> QED BY <2>1, <2>3, <3>1, <3>2, SameStack, AwayFromReceive DEF PatternInv
    <2> QED BY <2>1, <2>3, SameReceives DEF PatternInv
  <1>2. CASE Requeue \/ Release
    BY <1>2, MoveOutside DEF Schedule, Requeue, Release, memVars, frameVars
  <1> QED BY <1>1, <1>2 DEF Schedule

\* A message that arrives does not move the one at the cursor.
LEMMA SendPattern ==
    ASSUME IInv, PatternInv, SendToProcess
    PROVE  PatternInv'
  <1>1. /\ UNCHANGED <<program, heap, heap_capacity, stack_top, catches, cp, frame_ip,
                       taken, mode, ip, cursor, x_msg>>
        /\ inbox' = Append(inbox, sent + 1)
    BY DEF SendToProcess, memVars, frameVars
  <1>2. cursor # 0 => inbox'[cursor] = inbox[cursor]
    BY <1>1 DEF IInv, InboxOK
  <1>3. AcceptedAtCursor => AcceptedAtCursor'
    BY <1>1, <1>2 DEF AcceptedAtCursor, Inside, Instr, Code, CodeLen, Wanted
  <1> QED BY <1>1, <1>3, SameReceives, SameAddresses, SameStack DEF PatternInv

\* A slice is cut or comes to the end of the code.
LEMMA StopPattern ==
    ASSUME IInv, PatternInv, UNCHANGED program, Preempt \/ RunOffEnd
    PROVE  PatternInv'
  <1>1. CASE Preempt
    BY <1>1, MoveOutside DEF Preempt, Return, memVars, frameVars
  <1>2. CASE RunOffEnd
    <2>1. /\ UNCHANGED <<heap, heap_capacity, stack_top, catches, cp, taken>>
          /\ frame_ip' = ip /\ mode' = "returned" /\ ip >= CodeLen
      BY <1>2 DEF RunOffEnd, Return, memVars
    <2>2. ~Inside(ip)
      <3>1. CodeLen \in Nat /\ ip \in Nat
        BY ProgramFacts DEF IInv, ControlOK, Address
      <3> QED BY <2>1, <3>1 DEF Inside
    <2>3. AddressesOutside => AddressesOutside'
      BY <2>1, <2>2 DEF AddressesOutside, Inside, Code, CodeLen
    <2> QED BY <2>1, <2>3, SameReceives, SameStack, AwayFromReceive DEF PatternInv
  <1> QED BY <1>1, <1>2

\* Instructions that go on at the next address, at a label, or return.
LEMMA PlainPattern ==
    ASSUME ReceivesInForm, IInv, PatternInv, UNCHANGED program,
           Data \/ Fail \/ Test \/ SelectVal \/ Halt \/ LoopRecEnd
    PROVE  PatternInv'
  <1>1. UNCHANGED <<heap, heap_capacity, stack_top, catches, cp, frame_ip, taken>>
    BY DEF Data, Fail, Test, SelectVal, Halt, LoopRecEnd, memVars, frameVars
  <1>2. CanFetch /\ ControlOK
    BY DEF Data, Fail, Test, SelectVal, Halt, LoopRecEnd, Fetch, IInv
  <1>3. CASE Fail \/ Halt
    BY <1>1, <1>3, MoveOutside DEF Fail, Halt, Return
  <1>4. CASE Data
    <2>1. Instr.op \notin {"LOOP_REC", "TEST_MESSAGE"} /\ ip' = ip + 1
      BY <1>4 DEF Data, Fetch, GoOn, DataOps, CheckedOps
    <2> QED BY <1>1, <1>2, <2>1, GoesOutside, MoveOutside
  <1>5. CASE Test \/ SelectVal \/ LoopRecEnd
    <2>1. Instr.op \notin {"LOOP_REC", "TEST_MESSAGE", "REMOVE_MESSAGE"}
      BY <1>5 DEF Test, SelectVal, LoopRecEnd, Fetch, TestOps
    <2>2. ip' = ip + 1 \/ \E lbl : ip' = JUMP_TO_LABEL(lbl)
      BY <1>5 DEF Test, SelectVal, LoopRecEnd, GoOn
    <2>3. ~Inside(ip')
      BY <1>2, <2>1, <2>2, GoesOutside
    <2> QED BY <1>1, <2>3, MoveOutside
  <1> QED BY <1>3, <1>4, <1>5

\* CALL keeps the address after it, which is outside; RETURN goes to one.
LEMMA CallPattern ==
    ASSUME ReceivesInForm, IInv, PatternInv, UNCHANGED program, Call \/ ReturnToCp
    PROVE  PatternInv'
  <1>1. CASE Call
    <2>1. /\ UNCHANGED <<heap, heap_capacity, stack_top, catches, frame_ip, taken>>
          /\ CanFetch /\ Instr.op = "CALL" /\ cp' = ip + 1 /\ ip' = Instr.arg1
      BY <1>1 DEF Call, Fetch, GoOn, memVars
    <2>2. ~Inside(cp') /\ (Receives => ~Inside(ip'))
      BY <2>1, GoesOutside DEF IInv
    <2>3. AddressesOutside => AddressesOutside'
      BY <2>1, <2>2 DEF AddressesOutside, Inside, Code, CodeLen
    <2> QED BY <2>1, <2>2, <2>3, SameReceives, SameStack, AwayFromReceive DEF PatternInv
  <1>2. CASE ReturnToCp
    <2>1. /\ UNCHANGED <<heap, heap_capacity, stack_top, catches, cp, frame_ip, taken>>
          /\ ip' = cp
      BY <1>2 DEF ReturnToCp, GoOn, memVars, frameVars
    <2>2. Receives => ~Inside(ip')
      BY <2>1 DEF PatternInv, AddressesOutside
    <2> QED BY <2>1, <2>2, SameReceives, SameAddresses, SameStack, AwayFromReceive
            DEF PatternInv
  <1> QED BY <1>1, <1>2

\* What ALLOCATE pushes is the continuation pointer and zeros.
LEMMA AllocatePattern ==
    ASSUME ReceivesInForm, IInv, PatternInv, UNCHANGED program, Allocate
    PROVE  PatternInv'
  <1> DEFINE words == Instr.arg1 + 1
             n     == IF words <= Room THEN words ELSE Room
  <1>1. /\ CanFetch /\ Instr.op = "ALLOCATE"
        /\ heap' = Pushed(n) /\ stack_top' = stack_top - n
        /\ GoOn(ip + 1) \/ Return("ERROR", state)
        /\ UNCHANGED <<heap_capacity, catches, cp, frame_ip, taken>>
    BY DEF Allocate, Fetch, frameVars
  <1>2. Instr.arg1 \in Nat
    BY <1>1, OperandFacts DEF IInv
  <1>3. Room \in 0 .. stack_top /\ stack_top \in Nat
    BY DEF Room, MemoryOK, IInv
  <1>4. n \in 0 .. stack_top
    BY <1>2, <1>3
  <1> HIDE DEF n, words
  <1>5. ~Inside(ip + 1) /\ ~Inside(0)
    BY <1>1, GoesOutside DEF IInv
  <1>6. mode' # "executing" \/ ~Inside(ip')
    BY <1>1, <1>5 DEF GoOn, Return
  <1>7. ASSUME StackOutside, AddressesOutside
        PROVE  StackOutside'
    <2>1. \A i \in 0 .. heap_capacity - 1 :
            heap'[i] = IF i \in stack_top - n .. stack_top - 1
                       THEN IF i = stack_top - 1 THEN cp ELSE 0
                       ELSE heap[i]
      BY <1>1 DEF Pushed, IInv, MemoryOK
    <2>2. cp # Junk /\ ~Inside(cp) /\ ~Inside(0) /\ 0 # Junk
      BY <1>5, <1>7 DEF AddressesOutside, IInv, FramesOK, Address, Junk
    <2>3. ASSUME NEW i \in 0 .. heap_capacity - 1, Reachable(i)'
          PROVE  heap'[i] # Junk /\ ~Inside(heap'[i])
      <3>1. CASE i \in stack_top - n .. stack_top - 1
        BY <2>1, <2>2, <3>1
      <3>2. CASE i \notin stack_top - n .. stack_top - 1
        <4>1. Reachable(i)
          BY <1>1, <1>3, <1>4, <2>3, <3>2 DEF Reachable
        <4>2. heap'[i] = heap[i]
          BY <2>1, <3>2
        <4> QED BY <1>7, <4>1, <4>2 DEF StackOutside
      <3> QED BY <3>1, <3>2
    <2>4. heap_capacity' = heap_capacity /\ Junk' = Junk
      BY <1>1 DEF Junk
    <2>5. \A i \in 0 .. heap_capacity - 1 : Inside(heap[i])' <=> Inside(heap'[i])
      BY DEF Inside, Code, CodeLen
    <2> QED BY <2>3, <2>4, <2>5 DEF StackOutside
  <1> QED BY <1>1, <1>6, <1>7, SameReceives, SameAddresses, AwayFromReceive DEF PatternInv

\* What DEALLOCATE and CALL_LAST pop was pushed.
LEMMA PopPattern ==
    ASSUME ReceivesInForm, IInv, PatternInv, UNCHANGED program, Deallocate \/ CallLast
    PROVE  PatternInv'
  <1>1. /\ UNCHANGED <<heap, heap_capacity, frame_ip, catches, taken>>
        /\ CanFetch /\ Instr.op \in {"DEALLOCATE", "CALL_LAST"}
    BY DEF Deallocate, CallLast, Fetch
  <1>2. PICK n \in Nat : \E to : PopFrame(n, to) /\ (Receives => ~Inside(to))
    <2>1. CASE Deallocate
      <3>1. /\ Instr.op = "DEALLOCATE" /\ Instr.arg1 \in Nat
            /\ PopFrame(Instr.arg1, ip + 1)
        BY <1>1, <2>1, OperandFacts DEF Deallocate, Fetch, IInv
      <3>2. ~Inside(ip + 1)
        BY <1>1, <3>1, GoesOutside DEF IInv
      <3> QED BY <3>1, <3>2
    <2>2. CASE CallLast
      <3>1. /\ Instr.op = "CALL_LAST" /\ Instr.arg2 \in Nat
            /\ PopFrame(Instr.arg2, Instr.arg1)
        BY <1>1, <2>2, OperandFacts DEF CallLast, Fetch, IInv
      <3>2. Receives => ~Inside(Instr.arg1)
        BY <1>1, <3>1, GoesOutside DEF IInv
      <3> QED BY <3>1, <3>2
    <2> QED BY <2>1, <2>2
  <1>3. PICK to : PopFrame(n, to) /\ (Receives => ~Inside(to))
    BY <1>2
  <1>4. heap_capacity \in Nat /\ stack_top \in Nat /\ stack_top <= heap_capacity
    BY DEF IInv, MemoryOK
  <1>5. stack_top' >= stack_top /\ stack_top' \in Nat
    BY <1>3, <1>4 DEF PopFrame
  <1>6. Receives => mode' # "executing" \/ ~Inside(ip')
    BY <1>3 DEF PopFrame, GoOn, Return
  <1>7. ASSUME StackOutside, AddressesOutside
        PROVE  StackOutside' /\ AddressesOutside'
    <2>1. \A i \in 0 .. heap_capacity - 1 : Reachable(i)' => Reachable(i)
      BY <1>1, <1>4, <1>5 DEF Reachable
    <2>2. StackOutside'
      BY <1>1, <1>7, <2>1 DEF StackOutside, Inside, Code, CodeLen
    <2>3. ~Inside(cp')
      <3>1. CASE stack_top + n < heap_capacity
        <4>1. cp' \in AsAddress(heap[stack_top + n])
          BY <1>3, <3>1 DEF PopFrame
        <4>2. stack_top + n \in 0 .. heap_capacity - 1 /\ Reachable(stack_top + n)
          BY <1>4, <3>1 DEF Reachable
        <4>3. heap[stack_top + n] # Junk /\ ~Inside(heap[stack_top + n])
          BY <1>7, <4>2 DEF StackOutside
        <4> QED BY <4>1, <4>3 DEF AsAddress
      <3>2. CASE ~(stack_top + n < heap_capacity)
        BY <1>3, <1>7, <3>2 DEF PopFrame, AddressesOutside
      <3> QED BY <3>1, <3>2
    <2>4. AddressesOutside'
      BY <1>1, <1>7, <2>3 DEF AddressesOutside, Inside, Code, CodeLen
    <2> QED BY <2>2, <2>4
  <1> QED BY <1>1, <1>6, <1>7, SameReceives, AwayFromReceive DEF PatternInv

\* A program that receives makes no closure.
LEMMA MakeFunPattern ==
    ASSUME ReceivesInForm, IInv, PatternInv, UNCHANGED program, MakeFun
    PROVE  PatternInv'
  <1>1. CanFetch /\ Instr.op = "MAKE_FUN2" /\ taken' = taken
    BY DEF MakeFun, Fetch
  <1>2. ~Receives
    BY <1>1, GoesOutside DEF IInv
  <1> QED BY <1>1, <1>2, SameReceives DEF PatternInv

\* A catch frame keeps a place of the stack that can be popped from already.
LEMMA TryPattern ==
    ASSUME ReceivesInForm, IInv, PatternInv, UNCHANGED program, Try \/ TryEnd
    PROVE  PatternInv'
  <1>1. /\ UNCHANGED <<heap, heap_capacity, stack_top, cp, frame_ip, taken>>
        /\ CanFetch /\ Instr.op \in {"TRY", "CATCH", "TRY_END"}
        /\ mode' = "returned" \/ ip' = ip + 1
    BY DEF Try, TryEnd, Fetch, GoOn, Return, memVars
  <1>2. mode' # "executing" \/ ~Inside(ip')
    BY <1>1, GoesOutside DEF IInv
  <1>3. catches \in Seq(CatchFrame) /\ Len(catches) \in Nat
    BY DEF IInv, FramesOK
  <1>4. ASSUME NEW c \in 1 .. Len(catches')
        PROVE  \/ catches'[c].stack_top = stack_top
               \/ c \in 1 .. Len(catches) /\ catches'[c] = catches[c]
    <2>1. CASE catches' = catches
      BY <2>1
    <2>2. CASE Try /\ catches' # catches
      <3>1. PICK cf : catches' = Append(catches, cf) /\ cf.stack_top = stack_top
        BY <2>2 DEF Try
      <3>2. /\ Len(catches') = Len(catches) + 1 /\ catches'[Len(catches) + 1] = cf
            /\ \A i \in 1 .. Len(catches) : catches'[i] = catches[i]
        BY <1>3, <3>1
      <3> QED BY <1>3, <3>1, <3>2
    <2>3. CASE TryEnd /\ catches' # catches
      <3>1. catches # << >> /\ catches' = SubSeq(catches, 1, Len(catches) - 1)
        BY <2>3 DEF TryEnd
      <3>2. Len(catches) - 1 \in 0 .. Len(catches)
        BY <1>3, <3>1
      <3> QED BY <1>3, <3>1, <3>2
    <2> QED BY <2>1, <2>2, <2>3
  <1>5. \A i \in 0 .. heap_capacity - 1 : Reachable(i)' => Reachable(i)
    BY <1>1, <1>4 DEF Reachable
  <1>6. StackOutside => StackOutside'
    BY <1>1, <1>5 DEF StackOutside, Inside, Code, CodeLen
  <1> QED BY <1>1, <1>2, <1>6, SameReceives, SameAddresses, AwayFromReceive DEF PatternInv

\* RAISE unwinds to a place that could be popped from, and jumps to a label.
LEMMA RaisePattern ==
    ASSUME ReceivesInForm, IInv, PatternInv, UNCHANGED program, Raise
    PROVE  PatternInv'
  <1>1. /\ UNCHANGED <<heap, heap_capacity, cp, frame_ip, taken>>
        /\ CanFetch /\ Instr.op = "RAISE"
    BY DEF Raise, Fetch
  <1>2. CASE catches = << >>
    BY <1>1, <1>2, MoveOutside DEF Raise, Return
  <1>3. CASE catches # << >>
    <2>1. PICK top \in Nat : top = Len(catches)
      BY DEF IInv, FramesOK
    <2>2. /\ stack_top' = catches[top].stack_top
          /\ catches' = SubSeq(catches, 1, top - 1)
          /\ \E lbl : ip' = JUMP_TO_LABEL(lbl)
      BY <1>3, <2>1 DEF Raise, GoOn
    <2>3. catches \in Seq(CatchFrame) /\ top \in 1 .. Len(catches)
      BY <1>3, <2>1 DEF IInv, FramesOK
    <2>4. Len(catches') = top - 1 /\ \A c \in 1 .. top - 1 : catches'[c] = catches[c]
      BY <2>1, <2>2, <2>3
    <2>5. ASSUME NEW i \in 0 .. heap_capacity - 1, Reachable(i)'
          PROVE  Reachable(i)
      <3>1. \/ catches[top].stack_top <= i
            \/ \E c \in 1 .. top - 1 : catches[c].stack_top <= i
        BY <2>2, <2>4, <2>5 DEF Reachable
      <3>2. \A c \in 1 .. top - 1 : c \in 1 .. Len(catches)
        BY <2>1
      <3> QED BY <2>3, <3>1, <3>2 DEF Reachable
    <2>6. StackOutside => StackOutside'
      BY <1>1, <2>5 DEF StackOutside, Inside, Code, CodeLen
    <2>7. ~Inside(ip')
      BY <1>1, <2>2, GoesOutside DEF IInv
    <2> QED BY <1>1, <2>6, <2>7, SameReceives, SameAddresses, AwayFromReceive DEF PatternInv
  <1> QED BY <1>2, <1>3

\* LOOP_REC loads the message at the cursor, and the test comes next.
LEMMA LoopRecPattern ==
    ASSUME ReceivesInForm, IInv, PatternInv, UNCHANGED program, LoopRec
    PROVE  PatternInv'
  <1>1. /\ UNCHANGED <<heap, heap_capacity, stack_top, catches, cp, frame_ip, taken>>
        /\ CanFetch /\ Instr.op = "LOOP_REC"
    BY DEF LoopRec, Fetch, memVars, frameVars
  <1>2. CASE inbox = << >>
    <2>1. \E lbl : ip' = JUMP_TO_LABEL(lbl)
      BY <1>2 DEF LoopRec, GoOn
    <2> QED BY <1>1, <2>1, GoesOutside, MoveOutside DEF IInv
  <1>3. CASE inbox # << >>
    <2>1. ip' = ip + 1 /\ x_msg' = inbox[cursor'] /\ inbox' = inbox
      BY <1>3 DEF LoopRec, GoOn
    <2>2. ip + 1 \in Nat /\ program \in Program
      BY DEF IInv, ControlOK, Address
    <2>3. ASSUME Inside(ip + 1)
          PROVE  Code[(ip + 1) + 1].op # "REMOVE_MESSAGE"
      BY <1>1, <2>2, <2>3, FormFacts DEF Instr
    <2>4. AcceptedAtCursor'
      BY <2>1, <2>3 DEF AcceptedAtCursor, Inside, Instr, Code, CodeLen
    <2> QED BY <1>1, <2>4, SameReceives, SameAddresses, SameStack DEF PatternInv
  <1> QED BY <1>2, <1>3

\* The test lets the message at the cursor through only if it is wanted.
LEMMA TestPattern ==
    ASSUME ReceivesInForm, IInv, PatternInv, UNCHANGED program, TestMessage
    PROVE  PatternInv'
  <1>1. /\ UNCHANGED <<heap, heap_capacity, stack_top, catches, cp, frame_ip, taken,
                       inbox, cursor, x_msg, mode>>
        /\ CanFetch /\ Instr.op = "TEST_MESSAGE"
        /\ ip' = IF x_msg \in Wanted THEN ip + 1 ELSE JUMP_TO_LABEL(Instr.arg1)
    BY DEF TestMessage, Fetch, GoOn, memVars, frameVars, boxVars
  <1>2. ip \in Nat /\ program \in Program /\ ControlOK /\ mode = "executing"
    BY <1>1 DEF IInv, ControlOK, Address, CanFetch
  <1>3. ASSUME Receives
        PROVE  AcceptedAtCursor'
    <2>1. AcceptedAtCursor
      BY <1>3 DEF PatternInv
    <2>2. CASE x_msg \in Wanted
      <3>1. ASSUME Inside(ip + 1)
            PROVE  Inside(ip)
        <4>1. Inside((ip + 1) - 1) /\ (ip + 1) - 1 = ip
          BY <1>1, <1>2, <3>1, FormFacts DEF Instr
        <4> QED BY <4>1
      <3>2. ASSUME Inside(ip + 1)
            PROVE  cursor # 0 => x_msg = inbox[cursor]
        BY <1>2, <2>1, <3>1, <3>2 DEF AcceptedAtCursor
      <3> QED BY <1>1, <2>2, <3>2 DEF AcceptedAtCursor, Inside, Instr, Code, CodeLen, Wanted
    <2>3. CASE x_msg \notin Wanted
      <3>1. PICK to : to = JUMP_TO_LABEL(Instr.arg1) /\ ip' = to
        BY <1>1, <2>3
      <3>2. to = ip \/ Code[to + 1].op = "LABEL"
        BY <1>2, <3>1, JumpLands
      <3>3. CASE to = ip
        BY <1>1, <2>1, <3>1, <3>3
           DEF AcceptedAtCursor, Inside, Instr, Code, CodeLen, Wanted
      <3>4. CASE Code[to + 1].op = "LABEL"
        <4>1. ~Inside(to)
          BY <1>2, <3>4, FormFacts
        <4> QED BY <3>1, <4>1, AwayFromReceive
      <3> QED BY <3>2, <3>3, <3>4
    <2> QED BY <2>2, <2>3
  <1> QED BY <1>1, <1>3, SameReceives, SameAddresses, SameStack DEF PatternInv

\* REMOVE_MESSAGE takes the message that was accepted.
LEMMA RemovePattern ==
    ASSUME ReceivesInForm, IInv, PatternInv, UNCHANGED program, RemoveMessage
    PROVE  PatternInv'
  <1>1. /\ UNCHANGED <<heap, heap_capacity, stack_top, catches, cp, frame_ip>>
        /\ CanFetch /\ Instr.op = "REMOVE_MESSAGE" /\ ip' = ip + 1
        /\ taken' = taken \/ (cursor # 0 /\ taken' = taken \cup {inbox[cursor]})
    BY DEF RemoveMessage, Fetch, GoOn, memVars, frameVars
  <1>2. ip + 1 \in 1 .. CodeLen /\ ip \in Nat /\ program \in Program
    BY <1>1, ProgramFacts DEF IInv, ControlOK, Address, CanFetch
  <1>3. Receives /\ Inside(ip)
    BY <1>1, <1>2 DEF Receives, Inside, Instr
  <1>4. AddressesOutside /\ StackOutside /\ AcceptedAtCursor /\ taken \subseteq Wanted
    BY <1>3 DEF PatternInv
  <1>5. taken' \subseteq Wanted
    BY <1>1, <1>3, <1>4 DEF AcceptedAtCursor, CanFetch
  <1>6. ~Inside(ip')
    BY <1>1, GoesOutside DEF IInv
  <1> QED BY <1>1, <1>4, <1>5, <1>6, SameReceives, SameAddresses, SameStack, AwayFromReceive
          DEF PatternInv

\* WAIT keeps its own address.
LEMMA WaitPattern ==
    ASSUME ReceivesInForm, IInv, PatternInv, UNCHANGED program, Wait
    PROVE  PatternInv'
  <1>1. /\ UNCHANGED <<heap, heap_capacity, stack_top, catches, cp, taken>>
        /\ CanFetch /\ Instr.op = "WAIT" /\ frame_ip' = ip /\ mode' = "returned"
    BY DEF Wait, Fetch, Return, memVars
  <1>2. ~Inside(ip)
    BY <1>1, GoesOutside DEF IInv
  <1>3. AddressesOutside => AddressesOutside'
    BY <1>1, <1>2 DEF AddressesOutside, Inside, Code, CodeLen
  <1> QED BY <1>1, <1>3, SameReceives, SameStack, AwayFromReceive DEF PatternInv

LEMMA PatternStep ==
    ASSUME ReceivesInForm
    PROVE  IInv /\ PatternInv /\ [Next]_vars => PatternInv'
  <1> SUFFICES ASSUME IInv, PatternInv, [Next]_vars PROVE PatternInv'
    OBVIOUS
  <1>1. CASE Schedule
    BY <1>1, SchedulePattern
  <1>2. CASE Slice
    BY <1>2, StopPattern, PlainPattern, CallPattern, AllocatePattern, PopPattern,
       MakeFunPattern, TryPattern, RaisePattern, LoopRecPattern, TestPattern,
       RemovePattern, WaitPattern DEF Slice
  <1>3. CASE SendToProcess
    BY <1>3, SendPattern
  <1>4. CASE UNCHANGED vars
    BY <1>4 DEF vars, memVars, frameVars, boxVars, PatternInv, AddressesOutside,
       StackOutside, AcceptedAtCursor, Reachable, Receives, Inside, Instr, Code, CodeLen,
       Wanted
  <1> QED BY <1>1, <1>2, <1>3, <1>4 DEF Next, Finished

\* A process whose receives are in form removes only messages they accept,
\* whatever else its code does: frames dropped or unwound in any order,
\* preemption and messages that arrive between LOOP_REC and REMOVE_MESSAGE
\* (ReceiveTakesOnlyWanted; beam_emu.c:173-207).
THEOREM OnlyWantedTaken ==
    ASSUME ReceivesInForm
    PROVE  Spec => []ReceiveTakesOnlyWanted
  <1>1. Init => PatternInv
    <2> SUFFICES ASSUME Init PROVE PatternInv
      OBVIOUS
    <2>1. CodeLen \in Nat /\ InitialHeap \in Nat
      BY ProgramFacts DEF Init
    <2>2. ~Inside(0)
      BY FormFacts DEF Init
    <2>3. AddressesOutside /\ AcceptedAtCursor
      BY <2>2 DEF Init, AddressesOutside, AcceptedAtCursor
    <2>4. StackOutside
      BY <2>1 DEF Init, StackOutside, Reachable
    <2> QED BY <2>3, <2>4 DEF Init, PatternInv
  <1>2. IInv /\ PatternInv /\ [Next]_vars => PatternInv'
    BY PatternStep
  <1>3. PatternInv => ReceiveTakesOnlyWanted
    BY DEF PatternInv, ReceiveTakesOnlyWanted
  <1> QED BY <1>1, <1>2, <1>3, InitOK, StepOK, PTL DEF Spec

-----------------------------------------------------------------------------
(***************************************************************************)
(* Frames that are balanced.                                               *)
(*                                                                         *)
(* An activation is a call that has a frame and waits to be gone on with:  *)
(* where its frame begins on the stack, how many calls and catch frames    *)
(* were open, and the shape of the address where it goes on.  Instead of   *)
(* a walk along the stack, the invariant has a set of activations that     *)
(* holds with each its caller: no induction over the stack is needed, and  *)
(* what a step drops from the stack it takes out of the set.               *)
(***************************************************************************)

Shape(a) == Load(program).shape[a]

Activation(at, open, depth, form) ==
    [at |-> at, open |-> open, depth |-> depth, form |-> form]

\* The first word past the frame of an activation, and who called it.
Base(m) == m.at + m.form.words + 1

Caller(m) ==
    Activation(Base(m), m.open - 1, m.depth - m.form.tries, Shape(calls[m.open]))

Fits(m) == m.at >= stack_top /\ m.open <= Len(calls) /\ m.depth <= Len(catches)

\* The frame of an activation is whole.  The try blocks it has open are the last
\* of its catch frames; those before were installed below its frame.
Kept(m, P) ==
    /\ m.at \in Nat /\ m.open \in Nat /\ m.depth \in Nat
    /\ m.form.words \in Nat /\ m.form.tries \in 0 .. m.depth
    /\ Fits(m) /\ Base(m) <= heap_capacity
    /\ \A i \in 1 .. m.depth : catches[i].stack_top >= m.at /\ catches[i].open <= m.open
    /\ \A i \in 1 .. m.depth - m.form.tries : catches[i].stack_top >= Base(m)
    /\ m.form.fun = "main" =>
          preempted \/ (Base(m) = heap_capacity /\ m.depth = m.form.tries)
    /\ m.form.fun # "main" =>
          /\ m.open > 0 /\ calls[m.open] < CodeLen
          /\ heap[Base(m) - 1] = calls[m.open] /\ Caller(m) \in P

\* A catch frame leads back into an activation.
Handled(i, P) ==
    /\ LabelsIn(Code, catches[i].label) # {}
    /\ \A h \in LabelsIn(Code, catches[i].label) :
         Activation(catches[i].stack_top, catches[i].open, i - 1, Shape(h)) \in P

Suspended(P) ==
    /\ \A m \in P : Kept(m, P)
    /\ \A i \in 1 .. Len(catches) : Handled(i, P)

\* What runs is in its frame, or before ALLOCATE or after DEALLOCATE.
Current(P) ==
    /\ ip < CodeLen
    /\ Shape(ip).words # -1 =>
         Activation(stack_top, Len(calls), Len(catches), Shape(ip)) \in P
    /\ Shape(ip).words = -1 /\ Shape(ip).fun = "main" =>
         preempted \/ (stack_top = heap_capacity /\ catches = << >>)
    /\ Shape(ip).words = -1 /\ Shape(ip).fun # "main" =>
         /\ calls # << >> /\ cp = calls[Len(calls)] /\ cp < CodeLen
         /\ Activation(stack_top, Len(calls) - 1, Len(catches), Shape(cp)) \in P

\* The process runs or will be run again.
Live == mode \in {"queued", "executing"} \/ (mode = "returned" /\ Resumes)

FrameInv ==
    /\ mode = "executing" => state = "RUNNING"
    /\ HasFrames(Code) /\ Live =>
         /\ frame_ip = 0
         /\ mode = "executing" \/ preempted
               \/ (stack_top = heap_capacity /\ catches = << >>)
         /\ \E P : Suspended(P) /\ (mode = "executing" => Current(P))

LEMMA ActivationFields ==
    ASSUME NEW at, NEW open, NEW depth, NEW form
    PROVE  LET m == Activation(at, open, depth, form)
           IN  m.at = at /\ m.open = open /\ m.depth = depth /\ m.form = form
  BY DEF Activation

\* The form, for the program that runs and an address of its code.
LEMMA ShapeFacts ==
    ASSUME FramesInForm, program \in Program, HasFrames(Code), NEW a \in 0 .. CodeLen - 1
    PROVE  /\ FrameInForm(Code, Load(program).shape, a)
           /\ Shape(a).words \in Nat \cup {-1} /\ Shape(a).tries \in Nat
           /\ Shape(a).words = -1 => Shape(a).tries = 0
           /\ Shape(a) = [fun |-> Shape(a).fun, words |-> Shape(a).words,
                          tries |-> Shape(a).tries]
  <1>1. FrameInForm(Code, Load(program).shape, a)
    BY DEF FramesInForm, Code, CodeLen
  <1> QED BY <1>1 DEF FrameInForm, Shape

LEMMA StartShape ==
    ASSUME FramesInForm, program \in Program, HasFrames(Code)
    PROVE  Shape(0).fun = "main" /\ Shape(0).words = -1
  BY DEF FramesInForm, Code, Shape

\* A jump to a label all of whose places have the shape of this address.
LEMMA JumpKeepsShape ==
    ASSUME ControlOK, CanFetch, NEW lbl,
           \A b \in LabelsIn(Code, lbl) : Shape(b) = Shape(ip)
    PROVE  JUMP_TO_LABEL(lbl) \in 0 .. CodeLen - 1 /\ Shape(JUMP_TO_LABEL(lbl)) = Shape(ip)
  <1> DEFINE found == LabelsIn(Code, lbl)
  <1>1. CodeLen \in Nat
    BY ProgramFacts DEF ControlOK
  <1>2. found \subseteq Nat /\ found \subseteq 0 .. CodeLen - 1
    BY <1>1 DEF CodeLen, LabelsIn
  <1>3. JUMP_TO_LABEL(lbl) = IF found = {} THEN ip ELSE Min(found)
    BY DEF JUMP_TO_LABEL
  <1>4. ip \in 0 .. CodeLen - 1
    BY <1>1 DEF ControlOK, CanFetch, Address
  <1>5. CASE found = {}
    BY <1>3, <1>4, <1>5
  <1>6. CASE found # {}
    <2>1. Min(found) \in found
      BY <1>2, <1>6, MinIsElement
    <2> HIDE DEF found
    <2>2. JUMP_TO_LABEL(lbl) = Min(found) /\ Min(found) \in 0 .. CodeLen - 1
      BY <1>2, <1>3, <1>6, <2>1
    <2> QED BY <2>1, <2>2 DEF found
  <1> QED BY <1>5, <1>6

\* No catch frame points below the stack or to calls that were returned from.
LEMMA CatchesFit ==
    ASSUME IInv, NEW P, Suspended(P), NEW i \in 1 .. Len(catches)
    PROVE  /\ catches[i].stack_top \in stack_top .. heap_capacity
           /\ catches[i].open \in 0 .. Len(calls)
  <1>1. PICK h : h \in LabelsIn(Code, catches[i].label)
    BY DEF Suspended, Handled
  <1>2. PICK m \in P :
          m = Activation(catches[i].stack_top, catches[i].open, i - 1, Shape(h))
    BY <1>1 DEF Suspended, Handled
  <1>3. m.at = catches[i].stack_top /\ m.open = catches[i].open
    BY <1>2, ActivationFields
  <1>4. m.at >= stack_top /\ m.open <= Len(calls)
    BY <1>2 DEF Suspended, Kept, Fits
  <1>5. catches[i] \in CatchFrame /\ stack_top \in Nat /\ Len(calls) \in Nat
    BY DEF IInv, FramesOK, MemoryOK
  <1>6. catches[i].stack_top \in 0 .. heap_capacity /\ catches[i].open \in Nat
    BY <1>5 DEF CatchFrame
  <1> QED BY <1>3, <1>4, <1>5, <1>6

\* A step leaves the words above the stack, the calls and the catch frames that
\* remain as they are.
Remains ==
    /\ UNCHANGED <<program, heap_capacity>>
    /\ preempted => preempted'
    /\ \A i \in 1 .. Len(calls) : i <= Len(calls') => calls'[i] = calls[i]
    /\ \A i \in 1 .. Len(catches) : i <= Len(catches') => catches'[i] = catches[i]
    /\ \A i \in 0 .. heap_capacity - 1 :
         i >= stack_top /\ i >= stack_top' => heap'[i] = heap[i]

\* Then an activation that still fits is kept.
LEMMA KeptRemains ==
    ASSUME IInv, IInv', Remains, NEW P, Suspended(P), NEW Q,
           \A m \in P : Fits(m)' => m \in Q
    PROVE  \A m \in P : Fits(m)' => Kept(m, Q)'
  <1> SUFFICES ASSUME NEW m \in P, Fits(m)'
               PROVE  Kept(m, Q)'
    OBVIOUS
  <1>1. Kept(m, P)
    BY DEF Suspended
  <1>2. /\ Len(calls) \in Nat /\ Len(catches) \in Nat /\ heap_capacity \in Nat
        /\ Len(calls') \in Nat /\ Len(catches') \in Nat
        /\ stack_top \in Nat /\ stack_top' \in Nat
        /\ heap_capacity' = heap_capacity /\ program' = program /\ CodeLen' = CodeLen
    BY DEF IInv, FramesOK, MemoryOK, Remains, CodeLen, Code
  <1>3. /\ m.at \in Nat /\ m.open \in Nat /\ m.depth \in Nat
        /\ m.form.words \in Nat /\ m.form.tries \in 0 .. m.depth
        /\ m.at >= stack_top /\ m.open <= Len(calls) /\ m.depth <= Len(catches)
        /\ m.at >= stack_top' /\ m.open <= Len(calls') /\ m.depth <= Len(catches')
    BY <1>1 DEF Kept, Fits
  <1>4. \A i \in 1 .. m.depth : catches'[i] = catches[i]
    <2>1. \A i \in 1 .. m.depth : i \in 1 .. Len(catches) /\ i <= Len(catches')
      BY <1>2, <1>3
    <2> QED BY <2>1 DEF Remains
  <1>5. \A i \in 1 .. m.depth - m.form.tries : catches'[i] = catches[i]
    <2>1. \A i \in 1 .. m.depth - m.form.tries : i \in 1 .. m.depth
      BY <1>3
    <2> QED BY <1>4, <2>1
  <1>6. /\ Base(m) \in Nat /\ Base(m) >= m.at /\ Base(m) - 1 >= m.at
        /\ Base(m) <= heap_capacity
    BY <1>1, <1>3 DEF Kept, Base
  <1>7. heap'[Base(m) - 1] = heap[Base(m) - 1]
    <2>1. PICK b : b = Base(m)
      OBVIOUS
    <2>2. b - 1 \in 0 .. heap_capacity - 1 /\ b - 1 >= stack_top /\ b - 1 >= stack_top'
      BY <1>2, <1>3, <1>6, <2>1
    <2> QED BY <2>1, <2>2 DEF Remains
  <1>8. ASSUME m.form.fun # "main"
        PROVE  /\ m.open > 0 /\ calls'[m.open] < CodeLen
               /\ heap'[Base(m) - 1] = calls'[m.open] /\ Caller(m)' \in Q
    <2>1. /\ m.open > 0 /\ calls[m.open] < CodeLen
          /\ heap[Base(m) - 1] = calls[m.open] /\ Caller(m) \in P
      BY <1>1, <1>8 DEF Kept
    <2>2. calls'[m.open] = calls[m.open]
      BY <1>2, <1>3, <2>1 DEF Remains
    <2>3. Caller(m)' = Caller(m)
      BY <1>2, <2>2 DEF Caller, Shape, Base
    <2>4. PICK c \in P : c = Caller(m)
      BY <2>1
    <2>5. c.at = Base(m) /\ c.open = m.open - 1 /\ c.depth = m.depth - m.form.tries
      BY <2>4, ActivationFields DEF Caller
    <2>6. c.at >= stack_top' /\ c.open <= Len(calls') /\ c.depth <= Len(catches')
      <3>1. m.open - 1 <= Len(calls') /\ m.depth - m.form.tries <= Len(catches')
        BY <1>2, <1>3
      <3>2. Base(m) >= stack_top'
        BY <1>2, <1>3, <1>6
      <3> QED BY <2>5, <3>1, <3>2
    <2>7. c \in Q
      BY <2>6 DEF Fits
    <2> QED BY <1>7, <2>1, <2>2, <2>3, <2>4, <2>7
  <1>9. m.form.fun = "main" =>
          preempted' \/ (Base(m) = heap_capacity /\ m.depth = m.form.tries)
    BY <1>1 DEF Kept, Remains
  <1>10. /\ \A i \in 1 .. m.depth :
              catches'[i].stack_top >= m.at /\ catches'[i].open <= m.open
         /\ \A i \in 1 .. m.depth - m.form.tries : catches'[i].stack_top >= Base(m)
         /\ Base(m) <= heap_capacity
    BY <1>1, <1>4, <1>5 DEF Kept
  <1>11. Base(m)' = Base(m)
    BY DEF Base
  <1> QED BY <1>2, <1>3, <1>8, <1>9, <1>10, <1>11 DEF Kept

\* Then a catch frame that still fits leads back into an activation.
LEMMA HandledRemains ==
    ASSUME IInv, IInv', Remains, NEW P, Suspended(P), NEW Q,
           \A m \in P : Fits(m)' => m \in Q,
           NEW i \in 1 .. Len(catches), i <= Len(catches'),
           catches[i].stack_top >= stack_top', catches[i].open <= Len(calls')
    PROVE  Handled(i, Q)'
  <1>1. /\ catches'[i] = catches[i] /\ program' = program
        /\ \A a : Shape(a)' = Shape(a)
    BY DEF Remains, Shape
  <1>2. Handled(i, P)
    BY DEF Suspended
  <1>3. ASSUME NEW h \in LabelsIn(Code, catches[i].label)
        PROVE  Activation(catches[i].stack_top, catches[i].open, i - 1, Shape(h)) \in Q
    <2>1. PICK m \in P :
            m = Activation(catches[i].stack_top, catches[i].open, i - 1, Shape(h))
      BY <1>2 DEF Handled
    <2>2. m.at = catches[i].stack_top /\ m.open = catches[i].open /\ m.depth = i - 1
      BY <2>1, ActivationFields
    <2>3. Len(catches') \in Nat
      BY DEF IInv, FramesOK
    <2>4. Fits(m)'
      BY <2>2, <2>3 DEF Fits
    <2> QED BY <2>1, <2>4
  <1> QED BY <1>1, <1>2, <1>3 DEF Handled, Code

\* Then what is suspended is what still fits and what the step has added.
LEMMA SuspendedRemains ==
    ASSUME IInv, IInv', Remains, NEW P, Suspended(P), NEW Q,
           \A m \in P : Fits(m)' => m \in Q,
           \A m \in Q : (m \in P /\ Fits(m)') \/ Kept(m, Q)',
           \A i \in 1 .. Len(catches') :
             \/ /\ i <= Len(catches) /\ catches[i].stack_top >= stack_top'
                /\ catches[i].open <= Len(calls')
             \/ Handled(i, Q)'
    PROVE  Suspended(Q)'
  <1>1. \A m \in Q : Kept(m, Q)'
    BY KeptRemains
  <1>2. ASSUME NEW i \in 1 .. Len(catches')
        PROVE  Handled(i, Q)'
    <2>1. CASE /\ i <= Len(catches) /\ catches[i].stack_top >= stack_top'
               /\ catches[i].open <= Len(calls')
      <3>1. i \in 1 .. Len(catches) /\ i <= Len(catches')
        BY <2>1 DEF IInv, FramesOK
      <3> QED BY <2>1, <3>1, HandledRemains
    <2> QED BY <2>1
  <1> QED BY <1>1, <1>2 DEF Suspended

\* Steps that leave stack, calls and catch frames alone.
LEMMA SameSuspended ==
    ASSUME UNCHANGED <<program, heap, heap_capacity, stack_top, calls, catches>>,
           preempted => preempted', NEW P, Suspended(P)
    PROVE  Suspended(P)'
  <1>1. \A a : Shape(a)' = Shape(a)
    BY DEF Shape
  <1>2. ASSUME NEW m \in P
        PROVE  Kept(m, P)'
    <2>1. Kept(m, P)
      BY DEF Suspended
    <2>2. Base(m)' = Base(m) /\ Caller(m)' = Caller(m) /\ Fits(m)' = Fits(m)
      BY <1>1 DEF Base, Caller, Fits
    <2> QED BY <2>1, <2>2 DEF Kept, CodeLen, Code
  <1>3. ASSUME NEW i \in 1 .. Len(catches)
        PROVE  Handled(i, P)'
    <2>1. Handled(i, P)
      BY DEF Suspended
    <2> QED BY <1>1, <2>1 DEF Handled, Code
  <1> QED BY <1>2, <1>3 DEF Suspended

\* A step of the running program, and one that ends it for good.
LEMMA FramesGoOn ==
    ASSUME FrameInv, mode = "executing", UNCHANGED <<program, state, mode, frame_ip>>,
           HasFrames(Code) => \E P : Suspended(P)' /\ Current(P)'
    PROVE  FrameInv'
  BY DEF FrameInv, Live, Code

LEMMA FramesEnd ==
    ASSUME FrameInv, mode = "executing",
           \E result, newState : /\ Return(result, newState)
                                 /\ \/ result = "ERROR" /\ newState \in {state, "EXITED"}
                                    \/ newState = "WAITING"
    PROVE  FrameInv'
  BY DEF FrameInv, Live, Resumes, Return

\* What FrameInv says of an instruction that is fetched.
LEMMA FramesHere ==
    ASSUME FramesInForm, IInv, FrameInv, CanFetch, HasFrames(Code)
    PROVE  /\ ip \in 0 .. CodeLen - 1 /\ ip + 1 \in Nat /\ CodeLen \in Nat
           /\ FrameInForm(Code, Load(program).shape, ip)
           /\ Shape(ip).words \in Nat \cup {-1} /\ Shape(ip).tries \in Nat
           /\ Shape(ip).words = -1 => Shape(ip).tries = 0
           /\ Shape(ip) = [fun |-> Shape(ip).fun, words |-> Shape(ip).words,
                           tries |-> Shape(ip).tries]
           /\ \E P : Suspended(P) /\ Current(P)
  <1>1. program \in Program /\ CodeLen \in Nat
    BY ProgramFacts DEF IInv, ControlOK
  <1>2. ip \in 0 .. CodeLen - 1 /\ ip + 1 \in Nat
    BY <1>1 DEF IInv, ControlOK, CanFetch, Address
  <1>3. \E P : Suspended(P) /\ Current(P)
    BY DEF FrameInv, Live, CanFetch
  <1> QED BY <1>1, <1>2, <1>3, ShapeFacts

\* The scheduler takes the process up at its beginning, or links it again.
LEMMA ScheduleFrames ==
    ASSUME FramesInForm, IInv, FrameInv, Schedule
    PROVE  FrameInv'
  <1>1. CASE BeginSlice
    <2>1. /\ UNCHANGED <<program, heap, heap_capacity, stack_top, calls, catches, frame_ip,
                         preempted>>
          /\ mode = "queued" /\ mode' = "executing" /\ state' = "RUNNING" /\ ip' = frame_ip
      BY <1>1 DEF Schedule, BeginSlice, memVars, cutVars
    <2>2. ASSUME HasFrames(Code)
          PROVE  /\ frame_ip' = 0
                 /\ \E P : Suspended(P)' /\ Current(P)'
      <3>1. /\ frame_ip = 0
            /\ preempted \/ (stack_top = heap_capacity /\ catches = << >>)
            /\ \E P : Suspended(P)
        BY <2>1, <2>2 DEF FrameInv, Live
      <3>2. PICK P : Suspended(P)
        BY <3>1
      <3>3. Suspended(P)'
        BY <2>1, <3>2, SameSuspended
      <3>4. program \in Program /\ CodeLen \in Nat /\ CodeLen > 0
        BY ProgramFacts DEF IInv, ControlOK
      <3>5. ip' = 0 /\ CodeLen' = CodeLen /\ Shape(ip)' = Shape(0)
        BY <2>1, <3>1 DEF CodeLen, Code, Shape
      <3>6. Shape(0).fun = "main" /\ Shape(0).words = -1
        BY <2>2, <3>4, StartShape
      <3>7. Current(P)'
        BY <2>1, <3>1, <3>4, <3>5, <3>6 DEF Current
      <3> QED BY <2>1, <3>1, <3>3, <3>7
    <2> QED BY <2>1, <2>2 DEF FrameInv, Code
  <1>2. CASE Requeue
    <2>1. /\ UNCHANGED <<program, heap, heap_capacity, stack_top, calls, catches, frame_ip,
                         preempted>>
          /\ mode = "returned" /\ Resumes /\ mode' = "queued"
      BY <1>2 DEF Schedule, Requeue, memVars, frameVars, cutVars
    <2>2. ASSUME HasFrames(Code)
          PROVE  /\ frame_ip = 0
                 /\ preempted \/ (stack_top = heap_capacity /\ catches = << >>)
                 /\ \E P : Suspended(P)'
      BY <2>1, <2>2, SameSuspended DEF FrameInv, Live
    <2> QED BY <2>1, <2>2 DEF FrameInv, Code
  <1>3. CASE Release
    BY <1>3 DEF Release, FrameInv, Live
  <1> QED BY <1>1, <1>2, <1>3 DEF Schedule

LEMMA SendFrames ==
    ASSUME IInv, FrameInv, SendToProcess \/ UNCHANGED vars
    PROVE  FrameInv'
  <1>1. UNCHANGED <<program, heap, heap_capacity, stack_top, calls, catches, cp, frame_ip,
                    preempted, mode, ip, res, state>>
    BY DEF SendToProcess, vars, memVars, frameVars, cutVars
  <1>2. ASSUME NEW P, Current(P)
        PROVE  Current(P)'
    BY <1>1, <1>2 DEF Current, Shape, CodeLen, Code
  <1> QED BY <1>1, <1>2, SameSuspended DEF FrameInv, Live, Resumes, Code

\* A slice is cut: what its frames hold stays, and main begins anew below them.
LEMMA StopFrames ==
    ASSUME IInv, FrameInv, UNCHANGED program, Preempt \/ RunOffEnd
    PROVE  FrameInv'
  <1>1. CASE Preempt
    <2>1. /\ UNCHANGED <<heap, heap_capacity, stack_top, calls, catches, frame_ip>>
          /\ preempted' = TRUE /\ mode = "executing" /\ mode' = "returned"
      BY <1>1 DEF Preempt, CanFetch, Return, memVars, frameVars
    <2> QED BY <2>1, SameSuspended DEF FrameInv, Live, Code
  <1>2. CASE RunOffEnd
    <2>1. mode = "executing" /\ ip >= CodeLen /\ mode' = "returned"
      BY <1>2 DEF RunOffEnd, Return
    <2>2. CodeLen \in Nat /\ ip \in Nat
      BY ProgramFacts DEF IInv, ControlOK, Address
    <2>3. ~HasFrames(Code)
      BY <2>1, <2>2 DEF FrameInv, Live, Current
    <2> QED BY <2>1, <2>3 DEF FrameInv, Code
  <1> QED BY <1>1, <1>2

\* The program goes on at an address of the same shape.
LEMMA SameShape ==
    ASSUME FramesInForm, IInv, FrameInv, CanFetch,
           UNCHANGED <<program, heap, heap_capacity, stack_top, calls, catches, cp,
                       frame_ip, preempted, mode, state>>,
           HasFrames(Code) => ip' \in 0 .. CodeLen - 1 /\ Shape(ip') = Shape(ip)
    PROVE  FrameInv'
  <1>1. ASSUME HasFrames(Code)
        PROVE  \E P : Suspended(P)' /\ Current(P)'
    <2>1. PICK P : Suspended(P) /\ Current(P)
      BY <1>1, FramesHere
    <2>2. Suspended(P)'
      BY <2>1, SameSuspended
    <2>3. CodeLen' = CodeLen /\ CodeLen \in Nat /\ \A a : Shape(a)' = Shape(a)
      BY ProgramFacts DEF CodeLen, Code, Shape, IInv, ControlOK
    <2>4. Shape(ip)' = Shape(ip) /\ Shape(cp)' = Shape(cp) /\ ip' < CodeLen
      BY <1>1, <2>3 DEF Shape
    <2>5. Current(P)'
      BY <2>1, <2>3, <2>4 DEF Current
    <2> QED BY <2>2, <2>5
  <1> QED BY <1>1, FramesGoOn DEF CanFetch

\* Instructions that go on at the next address or at a label, or return.
LEMMA PlainFrames ==
    ASSUME FramesInForm, IInv, FrameInv, UNCHANGED program,
           \/ Data \/ Fail \/ Test \/ SelectVal \/ Halt
           \/ LoopRec \/ TestMessage \/ RemoveMessage \/ LoopRecEnd \/ Wait
    PROVE  FrameInv'
  <1>1. CanFetch /\ mode = "executing"
    BY DEF Data, Fail, Test, SelectVal, Halt, LoopRec, TestMessage, RemoveMessage,
       LoopRecEnd, Wait, Fetch, CanFetch
  <1>2. CASE Fail \/ Halt \/ Wait
    BY <1>1, <1>2, FramesEnd DEF Fail, Halt, Wait
  <1>3. CASE Data \/ Test \/ SelectVal \/ LoopRec \/ TestMessage \/ RemoveMessage \/ LoopRecEnd
    <2>1. UNCHANGED <<heap, heap_capacity, stack_top, calls, catches, cp, frame_ip,
                      preempted, mode, state>>
      BY <1>3 DEF Data, Test, SelectVal, LoopRec, TestMessage, RemoveMessage, LoopRecEnd,
         GoOn, memVars, frameVars, cutVars
    <2>2. \/ ip' = ip + 1 /\ Instr.op \in PlainOps \cup JumpOps
          \/ /\ ip' = JUMP_TO_LABEL(Instr.arg1)
             /\ Instr.op \in JumpOps \cup {"LOOP_REC_END"}
          \/ /\ Instr.op = "SELECT_VAL"
             /\ \E lbl \in {Instr.arg1} \cup Instr.arg2 : ip' = JUMP_TO_LABEL(lbl)
      BY <1>3 DEF Data, Test, SelectVal, LoopRec, TestMessage, RemoveMessage, LoopRecEnd,
         GoOn, Fetch, PlainOps, JumpOps
    <2>3. ASSUME HasFrames(Code)
          PROVE  ip' \in 0 .. CodeLen - 1 /\ Shape(ip') = Shape(ip)
      <3>1. /\ FrameInForm(Code, Load(program).shape, ip)
            /\ ip \in 0 .. CodeLen - 1 /\ CodeLen \in Nat
            /\ Shape(ip) = [fun |-> Shape(ip).fun, words |-> Shape(ip).words,
                            tries |-> Shape(ip).tries]
        BY <1>1, <2>3, FramesHere
      <3>2. CASE ip' = ip + 1 /\ Instr.op \in PlainOps \cup JumpOps
        <4>1. /\ ip + 1 < CodeLen
              /\ Shape(ip + 1) = [fun |-> Shape(ip).fun, words |-> Shape(ip).words,
                                  tries |-> Shape(ip).tries]
          BY <3>1, <3>2 DEF FrameInForm, Shape, Instr, CodeLen
        <4> QED BY <3>1, <3>2, <4>1
      <3>3. ASSUME NEW lbl, ip' = JUMP_TO_LABEL(lbl),
                   \A b \in LabelsIn(Code, lbl) : Shape(b) = Shape(ip)
            PROVE  ip' \in 0 .. CodeLen - 1 /\ Shape(ip') = Shape(ip)
        BY <1>1, <3>3, JumpKeepsShape DEF IInv
      <3>4. CASE Instr.op \in JumpOps \cup {"LOOP_REC_END"} /\ ip' = JUMP_TO_LABEL(Instr.arg1)
        <4>1. \A b \in LabelsIn(Code, Instr.arg1) : Shape(b) = Shape(ip)
          BY <3>1, <3>4 DEF FrameInForm, Shape, Instr
        <4> QED BY <3>3, <3>4, <4>1
      <3>5. ASSUME Instr.op = "SELECT_VAL", NEW lbl \in {Instr.arg1} \cup Instr.arg2,
                   ip' = JUMP_TO_LABEL(lbl)
            PROVE  ip' \in 0 .. CodeLen - 1 /\ Shape(ip') = Shape(ip)
        <4>1. \A b \in LabelsIn(Code, lbl) : Shape(b) = Shape(ip)
          BY <3>1, <3>5 DEF FrameInForm, Shape, Instr
        <4> QED BY <3>3, <3>5, <4>1
      <3> QED BY <2>2, <3>2, <3>4, <3>5
    <2> QED BY <1>1, <2>1, <2>3, SameShape
  <1> QED BY <1>2, <1>3

\* CALL: the caller is an activation that waits for the return.
LEMMA CallFrames ==
    ASSUME FramesInForm, IInv, IInv', FrameInv, UNCHANGED program, Call
    PROVE  FrameInv'
  <1>1. /\ CanFetch /\ Instr.op = "CALL" /\ cp' = ip + 1 /\ ip' = Instr.arg1
        /\ calls' = Append(calls, ip + 1)
        /\ UNCHANGED <<heap, heap_capacity, stack_top, catches, frame_ip, preempted, mode,
                       state>>
    BY DEF Call, Fetch, GoOn, memVars, cutVars
  <1>2. ASSUME HasFrames(Code)
        PROVE  \E P : Suspended(P)' /\ Current(P)'
    <2>1. /\ FrameInForm(Code, Load(program).shape, ip)
          /\ ip \in 0 .. CodeLen - 1 /\ CodeLen \in Nat
          /\ Shape(ip) = [fun |-> Shape(ip).fun, words |-> Shape(ip).words,
                          tries |-> Shape(ip).tries]
          /\ \E P : Suspended(P) /\ Current(P)
      BY <1>1, <1>2, FramesHere
    <2>2. PICK P : Suspended(P) /\ Current(P)
      BY <2>1
    <2>3. /\ Shape(ip).words # -1 /\ ip + 1 < CodeLen
          /\ Shape(ip + 1) = [fun |-> Shape(ip).fun, words |-> Shape(ip).words,
                              tries |-> Shape(ip).tries]
          /\ Instr.arg1 < CodeLen /\ Shape(Instr.arg1).words = -1
          /\ Shape(Instr.arg1).fun # "main"
      BY <1>1, <2>1 DEF FrameInForm, Shape, Instr, CodeLen
    <2>4. Activation(stack_top, Len(calls), Len(catches), Shape(ip + 1)) \in P
      BY <2>1, <2>2, <2>3 DEF Current
    <2>5. /\ Len(calls') = Len(calls) + 1 /\ calls'[Len(calls')] = ip + 1 /\ calls' # << >>
          /\ \A i \in 1 .. Len(calls) : calls'[i] = calls[i]
          /\ Len(calls) \in Nat
      BY <1>1 DEF IInv, FramesOK
    <2>6. Remains
      BY <1>1, <2>5 DEF Remains
    <2>7. ASSUME NEW m \in P
          PROVE  Fits(m)'
      <3>1. Kept(m, P)
        BY <2>2 DEF Suspended
      <3> QED BY <1>1, <2>5, <3>1 DEF Kept, Fits
    <2>8. ASSUME NEW i \in 1 .. Len(catches')
          PROVE  /\ i <= Len(catches) /\ catches[i].stack_top >= stack_top'
                 /\ catches[i].open <= Len(calls')
      <3>1. /\ catches[i].stack_top \in stack_top .. heap_capacity
            /\ catches[i].open \in 0 .. Len(calls)
        BY <1>1, <2>2, CatchesFit
      <3>2. Len(catches) \in Nat /\ stack_top \in Nat
        BY DEF IInv, FramesOK, MemoryOK
      <3> QED BY <1>1, <2>5, <3>1, <3>2
    <2>9. Suspended(P)'
      BY <2>2, <2>6, <2>7, <2>8, SuspendedRemains
    <2>10. Shape(ip)' = Shape(Instr.arg1) /\ Shape(cp)' = Shape(ip + 1) /\ CodeLen' = CodeLen
      BY <1>1 DEF Shape, CodeLen, Code
    <2>11. Len(calls') - 1 = Len(calls)
      BY <2>5
    <2>12. Current(P)'
      BY <1>1, <2>3, <2>4, <2>5, <2>10, <2>11 DEF Current
    <2> QED BY <2>9, <2>12
  <1> QED BY <1>1, <1>2, FramesGoOn DEF CanFetch

\* RETURN: the caller goes on, and the catch frames are those it had.
LEMMA ReturnFrames ==
    ASSUME FramesInForm, IInv, IInv', FrameInv, UNCHANGED program, ReturnToCp
    PROVE  FrameInv'
  <1>1. /\ CanFetch /\ Instr.op = "RETURN" /\ ip' = cp
        /\ calls # << >> => calls' = SubSeq(calls, 1, Len(calls) - 1)
        /\ UNCHANGED <<heap, heap_capacity, stack_top, catches, cp, frame_ip, preempted,
                       mode, state>>
    BY DEF ReturnToCp, Fetch, GoOn, memVars, frameVars, cutVars
  <1>2. ASSUME HasFrames(Code)
        PROVE  \E Q : Suspended(Q)' /\ Current(Q)'
    <2>1. /\ FrameInForm(Code, Load(program).shape, ip)
          /\ \E P : Suspended(P) /\ Current(P)
      BY <1>1, <1>2, FramesHere
    <2>2. PICK P : Suspended(P) /\ Current(P)
      BY <2>1
    <2>3. Shape(ip).words = -1 /\ Shape(ip).fun # "main"
      BY <1>1, <2>1 DEF FrameInForm, Shape, Instr
    <2>4. PICK c \in P : c = Activation(stack_top, Len(calls) - 1, Len(catches), Shape(cp))
      BY <2>2, <2>3 DEF Current
    <2>5. calls # << >> /\ cp < CodeLen
      BY <2>2, <2>3 DEF Current
    <2>6. /\ c.at = stack_top /\ c.open = Len(calls) - 1 /\ c.depth = Len(catches)
          /\ c.form = Shape(cp)
      BY <2>4, ActivationFields
    <2>7. Kept(c, P)
      BY <2>2 DEF Suspended
    <2>8. /\ Len(calls) \in Nat /\ Len(calls) > 0 /\ Len(calls') = Len(calls) - 1
          /\ \A i \in 1 .. Len(calls') : calls'[i] = calls[i]
      BY <1>1, <2>5 DEF IInv, FramesOK
    <2>9. Remains
      BY <1>1, <2>8 DEF Remains
    <2>10. PICK Q : Q = {m \in P : Fits(m)'}
      OBVIOUS
    <2>11. c \in Q
      BY <1>1, <2>6, <2>7, <2>8, <2>10 DEF Fits, Kept
    <2>12. \A i \in 1 .. Len(catches') :
             /\ i <= Len(catches) /\ catches[i].stack_top >= stack_top'
             /\ catches[i].open <= Len(calls')
      <3>1. Len(catches) \in Nat
        BY DEF IInv, FramesOK
      <3> QED BY <1>1, <2>6, <2>7, <2>8, <3>1 DEF Kept
    <2>13. Suspended(Q)'
      BY <2>2, <2>9, <2>10, <2>12, SuspendedRemains
    <2>14. /\ Shape(ip)' = Shape(cp) /\ CodeLen' = CodeLen /\ Shape(cp).words # -1
           /\ c = Activation(stack_top', Len(calls'), Len(catches'), Shape(ip)')
      <3>1. Shape(ip)' = Shape(cp) /\ CodeLen' = CodeLen
        BY <1>1 DEF Shape, CodeLen, Code
      <3>2. Shape(cp).words # -1
        BY <2>6, <2>7 DEF Kept
      <3> QED BY <1>1, <2>4, <2>8, <3>1, <3>2
    <2>15. Current(Q)'
      BY <1>1, <2>5, <2>11, <2>14 DEF Current
    <2> QED BY <2>13, <2>15
  <1> QED BY <1>1, <1>2, FramesGoOn DEF CanFetch

\* RAISE: the activation of the innermost try block goes on, whatever was called
\* from it.
LEMMA RaiseFrames ==
    ASSUME FramesInForm, IInv, IInv', FrameInv, UNCHANGED program, Raise
    PROVE  FrameInv'
  <1>1. CanFetch /\ UNCHANGED <<heap, heap_capacity, cp, frame_ip, preempted>>
    BY DEF Raise, Fetch, cutVars
  <1>2. CASE catches = << >>
    BY <1>1, <1>2, FramesEnd DEF Raise, CanFetch
  <1>3. CASE catches # << >>
    <2>1. PICK top \in Nat : top = Len(catches)
      BY DEF IInv, FramesOK
    <2>2. /\ stack_top' = catches[top].stack_top
          /\ catches' = SubSeq(catches, 1, top - 1)
          /\ calls' = StillOpen(catches[top])
          /\ ip' = JUMP_TO_LABEL(catches[top].label)
          /\ UNCHANGED <<mode, state>>
      BY <1>3, <2>1 DEF Raise, GoOn
    <2>3. /\ top > 0 /\ Len(catches') = top - 1
          /\ \A i \in 1 .. top - 1 : catches'[i] = catches[i]
      BY <1>3, <2>1, <2>2 DEF IInv, FramesOK
    <2>4. ASSUME HasFrames(Code)
          PROVE  \E Q : Suspended(Q)' /\ Current(Q)'
      <3>1. PICK P : Suspended(P) /\ Current(P)
        BY <1>1, <2>4, FramesHere
      <3>2. Handled(top, P) /\ catches[top].open \in 0 .. Len(calls)
        <4>1. top \in 1 .. Len(catches)
          BY <2>1, <2>3
        <4>2. catches[top].open \in 0 .. Len(calls)
          BY <3>1, <4>1, CatchesFit
        <4> QED BY <3>1, <4>1, <4>2 DEF Suspended
      <3>3. ip' \in LabelsIn(Code, catches[top].label) /\ ip' < CodeLen
        <4> DEFINE found == LabelsIn(Code, catches[top].label)
        <4>1. CodeLen \in Nat
          BY ProgramFacts DEF IInv, ControlOK
        <4>2. found \subseteq Nat /\ found \subseteq 0 .. CodeLen - 1 /\ found # {}
          BY <3>2, <4>1 DEF Handled, LabelsIn, CodeLen
        <4>3. ip' = Min(found)
          BY <2>2, <4>2 DEF JUMP_TO_LABEL
        <4> HIDE DEF found
        <4>4. ip' \in found
          BY <4>2, <4>3, MinIsElement
        <4>5. ip' \in 0 .. CodeLen - 1
          BY <4>2, <4>4
        <4> QED BY <4>1, <4>4, <4>5 DEF found
      <3>4. PICK c \in P :
              c = Activation(catches[top].stack_top, catches[top].open, top - 1, Shape(ip'))
        BY <3>2, <3>3 DEF Handled
      <3>5. /\ c.at = stack_top' /\ c.open = catches[top].open /\ c.depth = top - 1
            /\ c.form = Shape(ip')
        BY <2>2, <3>4, ActivationFields
      <3>6. Kept(c, P)
        BY <3>1 DEF Suspended
      <3>7. /\ Len(calls') = catches[top].open /\ Len(calls) \in Nat
            /\ \A i \in 1 .. Len(calls') : calls'[i] = calls[i]
        <4>1. calls \in Seq(Address) /\ Len(calls) \in Nat
          BY DEF IInv, FramesOK
        <4>2. PICK n \in 0 .. Len(calls) : n = catches[top].open
          BY <3>2
        <4>3. calls' = SubSeq(calls, 1, n)
          BY <2>2, <4>1, <4>2 DEF StillOpen
        <4> QED BY <4>1, <4>2, <4>3
      <3>8. Remains
        BY <1>1, <2>1, <2>3, <3>7 DEF Remains
      <3>9. PICK Q : Q = {m \in P : Fits(m)'}
        OBVIOUS
      <3>10. c \in Q
        <4>1. c.at \in Nat /\ c.open \in Nat /\ c.depth \in Nat
          BY <3>6 DEF Kept
        <4> QED BY <2>3, <3>5, <3>7, <3>9, <4>1 DEF Fits
      <3>11. \A i \in 1 .. Len(catches') :
               /\ i <= Len(catches) /\ catches[i].stack_top >= stack_top'
               /\ catches[i].open <= Len(calls')
        BY <2>1, <2>3, <3>5, <3>6, <3>7 DEF Kept
      <3>12. Suspended(Q)'
        BY <3>1, <3>8, <3>9, <3>11, SuspendedRemains
      <3>13. /\ Shape(ip)' = Shape(ip') /\ CodeLen' = CodeLen /\ Shape(ip').words # -1
             /\ c = Activation(stack_top', Len(calls'), Len(catches'), Shape(ip)')
        <4>1. Shape(ip)' = Shape(ip') /\ CodeLen' = CodeLen
          BY DEF Shape, CodeLen, Code
        <4>2. Shape(ip').words # -1
          BY <3>5, <3>6 DEF Kept
        <4> QED BY <2>2, <2>3, <3>4, <3>7, <4>1, <4>2
      <3>14. Current(Q)'
        BY <3>3, <3>10, <3>13 DEF Current
      <3> QED BY <3>12, <3>14
    <2> QED BY <1>1, <2>2, <2>4, FramesGoOn DEF CanFetch
  <1> QED BY <1>2, <1>3

\* ALLOCATE: the frame keeps the return address that cp was.
LEMMA AllocateFrames ==
    ASSUME FramesInForm, IInv, IInv', FrameInv, UNCHANGED program, Allocate
    PROVE  FrameInv'
  <1> DEFINE words == Instr.arg1 + 1
             n     == IF words <= Room THEN words ELSE Room
  <1>1. /\ CanFetch /\ Instr.op = "ALLOCATE"
        /\ UNCHANGED <<heap_capacity, catches, calls, cp, frame_ip, preempted>>
        /\ heap' = Pushed(n) /\ stack_top' = stack_top - n
        /\ IF n = words THEN GoOn(ip + 1) ELSE Return("ERROR", state)
    BY DEF Allocate, Fetch, frameVars, cutVars
  <1>2. Instr.arg1 \in Nat
    BY <1>1, OperandFacts DEF IInv
  <1>3. CASE n # words
    BY <1>1, <1>3, FramesEnd DEF CanFetch
  <1>4. CASE n = words
    <2>1. /\ heap' = Pushed(Instr.arg1 + 1) /\ stack_top' = stack_top - (Instr.arg1 + 1)
          /\ ip' = ip + 1 /\ UNCHANGED <<mode, state>>
      BY <1>1, <1>4 DEF GoOn
    <2> HIDE DEF n, words
    <2>2. ASSUME HasFrames(Code)
          PROVE  \E Q : Suspended(Q)' /\ Current(Q)'
      <3>1. /\ FrameInForm(Code, Load(program).shape, ip)
            /\ \E P : Suspended(P) /\ Current(P)
        BY <1>1, <2>2, FramesHere
      <3>2. PICK P : Suspended(P) /\ Current(P)
        BY <3>1
      <3>3. /\ Shape(ip).words = -1 /\ ip + 1 < CodeLen
            /\ Shape(ip + 1) = [fun |-> Shape(ip).fun, words |-> Instr.arg1, tries |-> 0]
        BY <1>1, <3>1 DEF FrameInForm, Shape, Instr, CodeLen
      <3>4. /\ Shape(ip + 1).fun = Shape(ip).fun /\ Shape(ip + 1).words = Instr.arg1
            /\ Shape(ip + 1).tries = 0
        BY <3>3
      <3>5. /\ heap_capacity \in Nat /\ stack_top \in 0 .. heap_capacity
            /\ stack_top' \in Nat /\ stack_top = stack_top' + Instr.arg1 + 1
            /\ Len(calls) \in Nat /\ Len(catches) \in Nat
        BY <1>1, <1>2, <2>1 DEF IInv, MemoryOK, FramesOK
      <3>6. /\ \A i \in 0 .. heap_capacity - 1 : i >= stack_top => heap'[i] = heap[i]
            /\ heap'[stack_top - 1] = cp
        <4>1. \A i \in 0 .. heap_capacity - 1 :
                heap'[i] = IF i \in stack_top - (Instr.arg1 + 1) .. stack_top - 1
                           THEN IF i = stack_top - 1 THEN cp ELSE 0
                           ELSE heap[i]
          BY <2>1 DEF Pushed, IInv, MemoryOK
        <4>2. stack_top - 1 \in 0 .. heap_capacity - 1
          BY <1>2, <3>5
        <4>3. stack_top - 1 \in stack_top - (Instr.arg1 + 1) .. stack_top - 1
          BY <1>2, <3>5
        <4>4. heap'[stack_top - 1] = cp
          BY <4>1, <4>2, <4>3, Zenon
        <4>5. \A i \in 0 .. heap_capacity - 1 : i >= stack_top =>
                i \notin stack_top - (Instr.arg1 + 1) .. stack_top - 1
          BY <3>5
        <4> QED BY <4>1, <4>4, <4>5
      <3>7. Remains
        BY <1>1, <3>6 DEF Remains
      <3>8. PICK x : x = Activation(stack_top', Len(calls), Len(catches), Shape(ip + 1))
        OBVIOUS
      <3>9. /\ x.at = stack_top' /\ x.open = Len(calls) /\ x.depth = Len(catches)
            /\ x.form = Shape(ip + 1)
        BY <3>8, ActivationFields
      <3>10. PICK Q : Q = P \cup {x}
        OBVIOUS
      <3>11. ASSUME NEW i \in 1 .. Len(catches)
             PROVE  /\ catches[i].stack_top >= stack_top /\ catches[i].stack_top >= stack_top'
                    /\ catches[i].open <= Len(calls)
        <4>1. /\ catches[i].stack_top \in stack_top .. heap_capacity
              /\ catches[i].open \in 0 .. Len(calls)
          BY <3>2, CatchesFit
        <4> QED BY <1>2, <3>5, <4>1
      <3>12. Base(x) = stack_top /\ Base(x)' = stack_top
        BY <3>4, <3>5, <3>9 DEF Base
      <3>13. x.form.fun = "main" =>
               preempted \/ (stack_top = heap_capacity /\ Len(catches) = 0)
        BY <3>2, <3>3, <3>4, <3>9 DEF Current
      <3>14. ASSUME x.form.fun # "main"
             PROVE  /\ Len(calls) > 0 /\ calls[Len(calls)] < CodeLen
                    /\ heap'[stack_top - 1] = calls[Len(calls)] /\ Caller(x)' \in Q
        <4>1. /\ calls # << >> /\ cp = calls[Len(calls)] /\ cp < CodeLen
              /\ Activation(stack_top, Len(calls) - 1, Len(catches), Shape(cp)) \in P
          BY <3>2, <3>3, <3>4, <3>9, <3>14 DEF Current
        <4>2. Len(calls) > 0
          BY <4>1 DEF IInv, FramesOK
        <4>3. Caller(x)' = Activation(stack_top, Len(calls) - 1, Len(catches) - 0, Shape(cp))
          BY <1>1, <3>4, <3>9, <3>12, <4>1 DEF Caller, Shape
        <4>4. Len(catches) - 0 = Len(catches)
          BY <3>5
        <4> QED BY <3>6, <3>10, <4>1, <4>2, <4>3, <4>4
      <3>15. Kept(x, Q)'
        <4>1. CodeLen' = CodeLen
          BY DEF CodeLen, Code
        <4>2. /\ x.at \in Nat /\ x.open \in Nat /\ x.depth \in Nat
              /\ x.form.words \in Nat /\ x.form.tries \in 0 .. x.depth
              /\ Base(x)' <= heap_capacity' /\ Fits(x)'
          <5>1. x.at \in Nat /\ x.open \in Nat /\ x.depth \in Nat
            BY <3>5, <3>9
          <5>2. x.form.words \in Nat /\ x.form.tries \in 0 .. x.depth
            BY <1>2, <3>4, <3>9, <5>1
          <5>3. Base(x)' <= heap_capacity'
            BY <1>1, <3>5, <3>12
          <5>4. x.at >= stack_top' /\ x.open <= Len(calls') /\ x.depth <= Len(catches')
            <6>1. Len(calls') = Len(calls) /\ Len(catches') = Len(catches)
              BY <1>1, Zenon
            <6>2. x.open <= Len(calls) /\ x.depth <= Len(catches) /\ x.at >= stack_top'
              BY <3>5, <3>9
            <6> QED BY <6>1, <6>2, Zenon
          <5> QED BY <5>1, <5>2, <5>3, <5>4 DEF Fits
        <4>3. \A i \in 1 .. x.depth :
                catches'[i].stack_top >= x.at /\ catches'[i].open <= x.open
          BY <1>1, <3>9, <3>11
        <4>4. \A i \in 1 .. x.depth - x.form.tries : catches'[i].stack_top >= Base(x)'
          BY <1>1, <3>4, <3>5, <3>9, <3>11, <3>12
        <4>5. x.form.fun = "main" =>
                preempted' \/ (Base(x)' = heap_capacity' /\ x.depth = x.form.tries)
          BY <1>1, <3>4, <3>9, <3>12, <3>13
        <4>6. x.form.fun # "main" =>
                /\ x.open > 0 /\ calls'[x.open] < CodeLen'
                /\ heap'[Base(x)' - 1] = calls'[x.open] /\ Caller(x)' \in Q
          BY <1>1, <3>9, <3>12, <3>14, <4>1
        <4> QED BY <4>2, <4>3, <4>4, <4>5, <4>6 DEF Kept
      <3>16. ASSUME NEW m \in P
             PROVE  Fits(m)'
        <4>1. Kept(m, P)
          BY <3>2 DEF Suspended
        <4> QED BY <1>1, <1>2, <3>5, <4>1 DEF Kept, Fits
      <3>17. Suspended(Q)'
        <4>1. \A i \in 1 .. Len(catches') :
                /\ i <= Len(catches) /\ catches[i].stack_top >= stack_top'
                /\ catches[i].open <= Len(calls')
          BY <1>1, <3>5, <3>11
        <4> QED BY <3>2, <3>7, <3>10, <3>15, <3>16, <4>1, SuspendedRemains
      <3>18. Current(Q)'
        <4>1. Shape(ip)' = Shape(ip + 1) /\ CodeLen' = CodeLen /\ Shape(ip + 1).words # -1
          BY <1>2, <2>1, <3>4 DEF Shape, CodeLen, Code
        <4> QED BY <1>1, <2>1, <3>3, <3>8, <3>10, <4>1 DEF Current
      <3> QED BY <3>17, <3>18
    <2> QED BY <1>1, <2>1, <2>2, FramesGoOn DEF CanFetch
  <1> QED BY <1>3, <1>4

\* DEALLOCATE and CALL_LAST pop what ALLOCATE has pushed.
LEMMA PopFrames ==
    ASSUME FramesInForm, IInv, IInv', FrameInv, UNCHANGED program, Deallocate \/ CallLast
    PROVE  FrameInv'
  <1>1. CanFetch /\ UNCHANGED <<heap, heap_capacity, frame_ip, catches, calls, preempted>>
    BY DEF Deallocate, CallLast, Fetch, cutVars
  <1>2. PICK n, to : /\ PopFrame(n, to)
                     /\ \/ Instr.op = "DEALLOCATE" /\ n = Instr.arg1 /\ to = ip + 1
                        \/ Instr.op = "CALL_LAST" /\ n = Instr.arg2 /\ to = Instr.arg1
    BY DEF Deallocate, CallLast, Fetch
  <1>3. n \in Nat
    BY <1>1, <1>2, OperandFacts DEF IInv
  <1>4. /\ heap_capacity \in Nat /\ stack_top \in Nat
        /\ Len(calls) \in Nat /\ Len(catches) \in Nat
    BY DEF IInv, MemoryOK, FramesOK
  <1>5. CASE ~(stack_top + n < heap_capacity)
    BY <1>1, <1>2, <1>5, FramesEnd DEF PopFrame, CanFetch
  <1>6. CASE stack_top + n < heap_capacity
    <2>1. /\ stack_top' = stack_top + n + 1 /\ cp' \in AsAddress(heap[stack_top + n])
          /\ ip' = to /\ UNCHANGED <<mode, state>>
      BY <1>2, <1>6 DEF PopFrame, GoOn
    <2>2. ASSUME HasFrames(Code)
          PROVE  \E Q : Suspended(Q)' /\ Current(Q)'
      <3>1. /\ FrameInForm(Code, Load(program).shape, ip)
            /\ \E P : Suspended(P) /\ Current(P)
        BY <1>1, <2>2, FramesHere
      <3>2. PICK P : Suspended(P) /\ Current(P)
        BY <3>1
      <3>3. /\ Shape(ip).words = n /\ Shape(ip).tries = 0
            /\ to < CodeLen /\ Shape(to).words = -1
            /\ Shape(to).fun = "main" <=> Shape(ip).fun = "main"
        BY <1>2, <3>1 DEF FrameInForm, Shape, Instr, CodeLen
      <3>4. PICK m \in P : m = Activation(stack_top, Len(calls), Len(catches), Shape(ip))
        BY <1>3, <3>2, <3>3 DEF Current
      <3>5. /\ m.at = stack_top /\ m.open = Len(calls) /\ m.depth = Len(catches)
            /\ m.form = Shape(ip)
        BY <3>4, ActivationFields
      <3>6. Kept(m, P) /\ Base(m) = stack_top' /\ stack_top' \in Nat
        BY <1>3, <1>4, <2>1, <3>2, <3>3, <3>5 DEF Suspended, Base
      <3>7. \A i \in 1 .. Len(catches) :
              catches[i].stack_top >= stack_top' /\ catches[i].open <= Len(calls)
        BY <1>4, <3>3, <3>5, <3>6 DEF Kept
      <3>8. Remains
        BY <1>1 DEF Remains
      <3>9. PICK Q : Q = {a \in P : Fits(a)'}
        OBVIOUS
      <3>10. Suspended(Q)'
        <4>1. \A i \in 1 .. Len(catches') :
                /\ i <= Len(catches) /\ catches[i].stack_top >= stack_top'
                /\ catches[i].open <= Len(calls')
          BY <1>1, <1>4, <3>7
        <4> QED BY <3>2, <3>8, <3>9, <4>1, SuspendedRemains
      <3>11. Shape(ip)' = Shape(to) /\ CodeLen' = CodeLen /\ \A a : Shape(a)' = Shape(a)
        BY <2>1 DEF Shape, CodeLen, Code
      <3>12. ASSUME Shape(ip).fun = "main"
             PROVE  preempted' \/ (stack_top' = heap_capacity' /\ catches' = << >>)
        <4>1. preempted \/ (stack_top' = heap_capacity /\ Len(catches) = 0)
          BY <3>3, <3>5, <3>6, <3>12 DEF Kept
        <4>2. Len(catches) = 0 => catches = << >>
          BY DEF IInv, FramesOK
        <4> QED BY <1>1, <4>1, <4>2
      <3>13. ASSUME Shape(ip).fun # "main"
             PROVE  /\ calls' # << >> /\ cp' = calls'[Len(calls')] /\ cp' < CodeLen
                    /\ Activation(stack_top', Len(calls') - 1, Len(catches'), Shape(cp)') \in Q
        <4>1. /\ Len(calls) > 0 /\ calls[Len(calls)] < CodeLen
              /\ heap[stack_top' - 1] = calls[Len(calls)] /\ Caller(m) \in P
          BY <3>5, <3>6, <3>13 DEF Kept
        <4>2. stack_top' - 1 = stack_top + n
          BY <1>3, <1>4, <2>1
        <4>3. calls[Len(calls)] \in Address /\ calls # << >>
          BY <1>4, <4>1 DEF IInv, FramesOK
        <4>4. calls[Len(calls)] # Junk
          BY <4>3 DEF Address, Junk
        <4>5. cp' = calls[Len(calls)]
          BY <2>1, <4>1, <4>2, <4>4 DEF AsAddress
        <4>6. PICK c \in P : c = Caller(m)
          BY <4>1
        <4>7. c = Activation(stack_top', Len(calls) - 1, Len(catches), Shape(cp'))
          BY <1>4, <3>3, <3>5, <3>6, <4>5, <4>6 DEF Caller
        <4>8. c.at = stack_top' /\ c.open = Len(calls) - 1 /\ c.depth = Len(catches)
          BY <4>7, ActivationFields
        <4>9. c \in Q
          BY <1>1, <1>4, <3>6, <3>9, <4>8 DEF Fits
        <4>10. Shape(cp)' = Shape(cp')
          BY DEF Shape
        <4> QED BY <1>1, <4>1, <4>3, <4>5, <4>7, <4>9, <4>10
      <3>14. Current(Q)'
        BY <2>1, <3>3, <3>11, <3>12, <3>13 DEF Current
      <3> QED BY <3>10, <3>14
    <2> QED BY <1>1, <2>1, <2>2, FramesGoOn DEF CanFetch
  <1> QED BY <1>5, <1>6

\* TRY and CATCH: the handler would go on in this activation as it is now.
LEMMA TryFrames ==
    ASSUME FramesInForm, IInv, IInv', FrameInv, UNCHANGED program, Try
    PROVE  FrameInv'
  <1>1. /\ CanFetch /\ Instr.op \in {"TRY", "CATCH"}
        /\ UNCHANGED <<heap, heap_capacity, stack_top, calls, cp, frame_ip, preempted>>
    BY DEF Try, Fetch, memVars, cutVars
  <1>2. CASE Len(catches) >= MaxCatchDepth
    BY <1>1, <1>2, FramesEnd DEF Try, CanFetch
  <1>3. CASE ~(Len(catches) >= MaxCatchDepth)
    <2>1. PICK cf : /\ catches' = Append(catches, cf) /\ cf.label = Instr.arg1
                    /\ cf.stack_top = stack_top /\ cf.open = Len(calls)
      BY <1>3 DEF Try
    <2>2. ip' = ip + 1 /\ UNCHANGED <<mode, state>>
      BY <1>3 DEF Try, GoOn
    <2>3. ASSUME HasFrames(Code)
          PROVE  \E Q : Suspended(Q)' /\ Current(Q)'
      <3>1. /\ FrameInForm(Code, Load(program).shape, ip) /\ Shape(ip).tries \in Nat
            /\ \E P : Suspended(P) /\ Current(P)
        BY <1>1, <2>3, FramesHere
      <3>2. PICK P : Suspended(P) /\ Current(P)
        BY <3>1
      <3>3. /\ Shape(ip).words # -1 /\ ip + 1 < CodeLen
            /\ Shape(ip + 1) = [fun |-> Shape(ip).fun, words |-> Shape(ip).words,
                                tries |-> Shape(ip).tries + 1]
            /\ LabelsIn(Code, Instr.arg1) # {}
            /\ \A h \in LabelsIn(Code, Instr.arg1) : Shape(h) = Shape(ip)
        BY <1>1, <3>1 DEF FrameInForm, Shape, Instr, CodeLen
      <3>4. /\ Shape(ip + 1).fun = Shape(ip).fun /\ Shape(ip + 1).words = Shape(ip).words
            /\ Shape(ip + 1).tries = Shape(ip).tries + 1
        BY <3>3
      <3>5. PICK d \in Nat : d = Len(catches)
        BY DEF IInv, FramesOK
      <3>6. /\ Len(catches') = d + 1 /\ catches'[d + 1] = cf
            /\ \A i \in 1 .. d : catches'[i] = catches[i]
        BY <2>1, <3>5 DEF IInv, FramesOK
      <3>7. PICK m \in P : m = Activation(stack_top, Len(calls), d, Shape(ip))
        BY <3>2, <3>3, <3>5 DEF Current
      <3>8. m.at = stack_top /\ m.open = Len(calls) /\ m.depth = d /\ m.form = Shape(ip)
        BY <3>7, ActivationFields
      <3>9. Kept(m, P)
        BY <3>2 DEF Suspended
      <3>10. PICK x : x = Activation(stack_top, Len(calls), d + 1, Shape(ip + 1))
        OBVIOUS
      <3>11. x.at = m.at /\ x.open = m.open /\ x.depth = d + 1 /\ x.form = Shape(ip + 1)
        BY <3>8, <3>10, ActivationFields
      <3>12. PICK Q : Q = P \cup {x}
        OBVIOUS
      <3>13. Remains
        BY <1>1, <3>5, <3>6 DEF Remains
      <3>14. ASSUME NEW a \in P
             PROVE  Fits(a)'
        <4>1. Kept(a, P)
          BY <3>2 DEF Suspended
        <4> QED BY <1>1, <3>5, <3>6, <4>1 DEF Kept, Fits
      <3>15. /\ m.at \in Nat /\ m.open \in Nat /\ m.form.words \in Nat
             /\ m.form.tries \in 0 .. d /\ x.form.words = m.form.words
             /\ x.form.tries = m.form.tries + 1 /\ x.form.fun = m.form.fun
             /\ x.depth - x.form.tries = m.depth - m.form.tries
        <4>1. /\ m.at \in Nat /\ m.open \in Nat /\ m.form.words \in Nat
              /\ m.form.tries \in 0 .. d
          BY <3>8, <3>9 DEF Kept
        <4>2. /\ x.form.words = m.form.words /\ x.form.tries = m.form.tries + 1
              /\ x.form.fun = m.form.fun
          BY <3>4, <3>8, <3>11, Zenon
        <4>3. x.depth - x.form.tries = m.depth - m.form.tries
          BY <3>8, <3>11, <4>1, <4>2
        <4> QED BY <4>1, <4>2, <4>3
      <3>16. Base(x)' = Base(m) /\ Caller(x)' = Caller(m)
        <4>1. Base(x)' = Base(m)
          BY <3>11, <3>15 DEF Base
        <4> QED BY <1>1, <3>11, <3>15, <4>1 DEF Caller, Shape
      <3>17. Kept(x, Q)'
        <4>1. CodeLen' = CodeLen
          BY DEF CodeLen, Code
        <4>2. /\ x.at \in Nat /\ x.open \in Nat /\ x.depth \in Nat
              /\ x.form.words \in Nat /\ x.form.tries \in 0 .. x.depth
          BY <3>5, <3>11, <3>15
        <4>3. Fits(x)' /\ Base(x)' <= heap_capacity'
          <5>1. /\ x.at >= stack_top' /\ x.open <= Len(calls')
                /\ x.depth <= Len(catches')
            BY <1>1, <3>6, <3>8, <3>9, <3>11 DEF Kept, Fits
          <5> QED BY <1>1, <3>9, <3>16, <5>1 DEF Kept, Fits
        <4>4. ASSUME NEW i \in 1 .. x.depth
              PROVE  catches'[i].stack_top >= x.at /\ catches'[i].open <= x.open
          <5>1. CASE i = d + 1
            BY <2>1, <3>6, <3>8, <3>11, <3>15, <5>1
          <5>2. CASE i \in 1 .. d
            BY <3>6, <3>8, <3>9, <3>11, <5>2 DEF Kept
          <5> QED BY <3>5, <3>11, <5>1, <5>2
        <4>5. \A i \in 1 .. x.depth - x.form.tries : catches'[i].stack_top >= Base(x)'
          <5>1. \A i \in 1 .. m.depth - m.form.tries : i \in 1 .. d
            BY <3>5, <3>8, <3>15
          <5> QED BY <3>6, <3>9, <3>15, <3>16, <5>1 DEF Kept
        <4>6. x.form.fun = "main" =>
                preempted' \/ (Base(x)' = heap_capacity' /\ x.depth = x.form.tries)
          BY <1>1, <3>5, <3>8, <3>9, <3>11, <3>15, <3>16 DEF Kept
        <4>7. x.form.fun # "main" =>
                /\ x.open > 0 /\ calls'[x.open] < CodeLen'
                /\ heap'[Base(x)' - 1] = calls'[x.open] /\ Caller(x)' \in Q
          BY <1>1, <3>9, <3>11, <3>12, <3>15, <3>16, <4>1 DEF Kept
        <4> QED BY <4>2, <4>3, <4>4, <4>5, <4>6, <4>7 DEF Kept
      <3>18. Handled(d + 1, Q)'
        <4>1. Code' = Code /\ (d + 1) - 1 = d /\ \A h : Shape(h)' = Shape(h)
          BY <3>5 DEF Code, Shape
        <4>2. \A h \in LabelsIn(Code, Instr.arg1) :
                Activation(stack_top, Len(calls), (d + 1) - 1, Shape(h)) \in Q
          BY <3>3, <3>7, <3>12, <4>1
        <4> QED BY <2>1, <3>3, <3>6, <4>1, <4>2 DEF Handled
      <3>19. Suspended(Q)'
        <4>1. ASSUME NEW i \in 1 .. Len(catches')
              PROVE  \/ /\ i <= Len(catches) /\ catches[i].stack_top >= stack_top'
                        /\ catches[i].open <= Len(calls')
                     \/ Handled(i, Q)'
          <5>1. CASE i = d + 1
            BY <3>18, <5>1
          <5>2. CASE i \in 1 .. d
            <6>1. /\ catches[i].stack_top \in stack_top .. heap_capacity
                  /\ catches[i].open \in 0 .. Len(calls)
              BY <3>2, <3>5, <5>2, CatchesFit
            <6>2. stack_top \in Nat /\ Len(calls) \in Nat
              BY DEF IInv, MemoryOK, FramesOK
            <6> QED BY <1>1, <3>5, <5>2, <6>1, <6>2
          <5> QED BY <3>5, <3>6, <5>1, <5>2
        <4> QED BY <3>2, <3>12, <3>13, <3>14, <3>17, <4>1, SuspendedRemains
      <3>20. Current(Q)'
        <4>1. Shape(ip)' = Shape(ip + 1) /\ CodeLen' = CodeLen /\ Shape(ip + 1).words # -1
          BY <2>2, <3>3, <3>4 DEF Shape, CodeLen, Code
        <4>2. x = Activation(stack_top', Len(calls'), Len(catches'), Shape(ip)')
          BY <1>1, <3>6, <3>10, <4>1
        <4> QED BY <2>2, <3>3, <3>12, <4>1, <4>2 DEF Current
      <3> QED BY <3>19, <3>20
    <2> QED BY <1>1, <2>2, <2>3, FramesGoOn DEF CanFetch
  <1> QED BY <1>2, <1>3

\* TRY_END closes the last of the activation's own try blocks.
LEMMA TryEndFrames ==
    ASSUME FramesInForm, IInv, IInv', FrameInv, UNCHANGED program, TryEnd
    PROVE  FrameInv'
  <1>1. /\ CanFetch /\ Instr.op = "TRY_END" /\ ip' = ip + 1
        /\ catches # << >> => catches' = SubSeq(catches, 1, Len(catches) - 1)
        /\ UNCHANGED <<heap, heap_capacity, stack_top, calls, cp, frame_ip, preempted,
                       mode, state>>
    BY DEF TryEnd, Fetch, GoOn, memVars, cutVars
  <1>2. ASSUME HasFrames(Code)
        PROVE  \E Q : Suspended(Q)' /\ Current(Q)'
    <2>1. /\ FrameInForm(Code, Load(program).shape, ip) /\ Shape(ip).tries \in Nat
          /\ Shape(ip).words = -1 => Shape(ip).tries = 0
          /\ \E P : Suspended(P) /\ Current(P)
      BY <1>1, <1>2, FramesHere
    <2>2. PICK P : Suspended(P) /\ Current(P)
      BY <2>1
    <2>3. /\ Shape(ip).tries > 0 /\ ip + 1 < CodeLen
          /\ Shape(ip + 1) = [fun |-> Shape(ip).fun, words |-> Shape(ip).words,
                              tries |-> Shape(ip).tries - 1]
      BY <1>1, <2>1 DEF FrameInForm, Shape, Instr, CodeLen
    <2>4. /\ Shape(ip + 1).fun = Shape(ip).fun /\ Shape(ip + 1).words = Shape(ip).words
          /\ Shape(ip + 1).tries = Shape(ip).tries - 1
      BY <2>3
    <2>5. Shape(ip).words # -1
      BY <2>1, <2>3
    <2>6. PICK d \in Nat : d = Len(catches)
      BY DEF IInv, FramesOK
    <2>7. PICK m \in P : m = Activation(stack_top, Len(calls), d, Shape(ip))
      BY <2>2, <2>5, <2>6 DEF Current
    <2>8. m.at = stack_top /\ m.open = Len(calls) /\ m.depth = d /\ m.form = Shape(ip)
      BY <2>7, ActivationFields
    <2>9. Kept(m, P)
      BY <2>2 DEF Suspended
    <2>10. /\ m.at \in Nat /\ m.open \in Nat /\ m.form.words \in Nat
           /\ m.form.tries \in 1 .. d
      <3>1. m.form.tries \in 0 .. d /\ m.form.tries > 0
        BY <2>3, <2>8, <2>9 DEF Kept
      <3>2. m.form.tries \in 1 .. d
        BY <2>6, <3>1
      <3> QED BY <2>9, <3>2 DEF Kept
    <2>11. d > 0 /\ catches # << >>
      <3>1. d > 0
        BY <2>6, <2>10
      <3> QED BY <2>6, <3>1
    <2>12. Len(catches') = d - 1 /\ \A i \in 1 .. d - 1 : catches'[i] = catches[i]
      BY <1>1, <2>6, <2>11 DEF IInv, FramesOK
    <2>13. PICK x : x = Activation(stack_top, Len(calls), d - 1, Shape(ip + 1))
      OBVIOUS
    <2>14. x.at = m.at /\ x.open = m.open /\ x.depth = d - 1 /\ x.form = Shape(ip + 1)
      BY <2>8, <2>13, ActivationFields
    <2>15. /\ x.form.words = m.form.words /\ x.form.tries = m.form.tries - 1
           /\ x.form.fun = m.form.fun
           /\ x.depth - x.form.tries = m.depth - m.form.tries
      <3>1. /\ x.form.words = m.form.words /\ x.form.tries = m.form.tries - 1
            /\ x.form.fun = m.form.fun
        BY <2>4, <2>8, <2>14, Zenon
      <3>2. x.depth - x.form.tries = m.depth - m.form.tries
        BY <2>8, <2>10, <2>14, <3>1
      <3> QED BY <3>1, <3>2
    <2>16. PICK Q : Q = {a \in P : Fits(a)'} \cup {x}
      OBVIOUS
    <2>17. Remains
      BY <1>1, <2>6, <2>12 DEF Remains
    <2>18. Base(x)' = Base(m) /\ Caller(x)' = Caller(m)
      <3>1. Base(x)' = Base(m)
        BY <2>14, <2>15 DEF Base
      <3> QED BY <1>1, <2>14, <2>15, <3>1 DEF Caller, Shape
    <2>19. m.form.fun # "main" => Caller(m) \in Q
      <3> SUFFICES ASSUME m.form.fun # "main"
                   PROVE  Caller(m) \in Q
        OBVIOUS
      <3>1. PICK c \in P : c = Caller(m)
        BY <2>9 DEF Kept
      <3>2. c.at = Base(m) /\ c.open = m.open - 1 /\ c.depth = m.depth - m.form.tries
        BY <3>1, ActivationFields DEF Caller
      <3>3. c.at >= stack_top /\ c.open <= Len(calls)
        <4>1. Kept(c, P)
          BY <2>2 DEF Suspended
        <4> QED BY <4>1 DEF Kept, Fits
      <3>4. c.depth <= d - 1
        BY <2>8, <2>10, <3>2
      <3>5. Fits(c)'
        BY <1>1, <2>12, <3>3, <3>4 DEF Fits
      <3> QED BY <2>16, <3>1, <3>5
    <2>20. Kept(x, Q)'
      <3>1. CodeLen' = CodeLen
        BY DEF CodeLen, Code
      <3>2. /\ x.at \in Nat /\ x.open \in Nat /\ x.depth \in Nat
            /\ x.form.words \in Nat /\ x.form.tries \in 0 .. x.depth
        BY <2>6, <2>10, <2>11, <2>14, <2>15
      <3>3. Fits(x)' /\ Base(x)' <= heap_capacity'
        <4>1. /\ x.at >= stack_top' /\ x.open <= Len(calls')
              /\ x.depth <= Len(catches')
          BY <1>1, <2>6, <2>8, <2>9, <2>12, <2>14 DEF Kept, Fits
        <4> QED BY <1>1, <2>9, <2>18, <4>1 DEF Kept, Fits
      <3>4. \A i \in 1 .. x.depth :
              catches'[i].stack_top >= x.at /\ catches'[i].open <= x.open
        <4>1. \A i \in 1 .. x.depth : i \in 1 .. d - 1 /\ i \in 1 .. m.depth
          BY <2>6, <2>8, <2>14
        <4> QED BY <2>9, <2>12, <2>14, <4>1 DEF Kept
      <3>5. \A i \in 1 .. x.depth - x.form.tries : catches'[i].stack_top >= Base(x)'
        <4>1. \A i \in 1 .. m.depth - m.form.tries : i \in 1 .. d - 1
          BY <2>6, <2>8, <2>10
        <4> QED BY <2>9, <2>12, <2>15, <2>18, <4>1 DEF Kept
      <3>6. x.form.fun = "main" =>
              preempted' \/ (Base(x)' = heap_capacity' /\ x.depth = x.form.tries)
        BY <1>1, <2>6, <2>8, <2>9, <2>14, <2>15, <2>18 DEF Kept
      <3>7. x.form.fun # "main" =>
              /\ x.open > 0 /\ calls'[x.open] < CodeLen'
              /\ heap'[Base(x)' - 1] = calls'[x.open] /\ Caller(x)' \in Q
        BY <1>1, <2>9, <2>14, <2>15, <2>18, <2>19, <3>1 DEF Kept
      <3> QED BY <3>2, <3>3, <3>4, <3>5, <3>6, <3>7 DEF Kept
    <2>21. Suspended(Q)'
      <3>1. ASSUME NEW i \in 1 .. Len(catches')
            PROVE  /\ i <= Len(catches) /\ catches[i].stack_top >= stack_top'
                   /\ catches[i].open <= Len(calls')
        <4>1. i \in 1 .. Len(catches) /\ i <= Len(catches)
          BY <2>6, <2>12
        <4>2. /\ catches[i].stack_top \in stack_top .. heap_capacity
              /\ catches[i].open \in 0 .. Len(calls)
          BY <2>2, <4>1, CatchesFit
        <4>3. stack_top \in Nat /\ Len(calls) \in Nat
          BY DEF IInv, MemoryOK, FramesOK
        <4> QED BY <1>1, <4>1, <4>2, <4>3
      <3> QED BY <2>2, <2>16, <2>17, <2>20, <3>1, SuspendedRemains
    <2>22. Current(Q)'
      <3>1. Shape(ip)' = Shape(ip + 1) /\ CodeLen' = CodeLen /\ Shape(ip + 1).words # -1
        BY <1>1, <2>4, <2>5 DEF Shape, CodeLen, Code
      <3>2. x = Activation(stack_top', Len(calls'), Len(catches'), Shape(ip)')
        BY <1>1, <2>12, <2>13, <3>1
      <3> QED BY <1>1, <2>3, <2>16, <3>1, <3>2 DEF Current
    <2> QED BY <2>21, <2>22
  <1> QED BY <1>1, <1>2, FramesGoOn DEF CanFetch

LEMMA FrameStep ==
    ASSUME FramesInForm
    PROVE  IInv /\ IInv' /\ FrameInv /\ [Next]_vars => FrameInv'
  <1> SUFFICES ASSUME IInv, IInv', FrameInv, [Next]_vars PROVE FrameInv'
    OBVIOUS
  <1>1. CASE Schedule
    BY <1>1, ScheduleFrames
  <1>2. CASE Slice
    <2>1. CASE MakeFun
      <3>1. CanFetch /\ Instr.op = "MAKE_FUN2" /\ mode = "executing"
        BY <2>1 DEF MakeFun, Fetch, CanFetch
      <3>2. ~HasFrames(Code)
        BY <3>1, FramesHere DEF FrameInForm, Instr
      <3>3. mode' = "executing" => state' = state
        BY <2>1 DEF MakeFun, GoOn, Return
      <3> QED BY <1>2, <3>1, <3>2, <3>3 DEF FrameInv, Slice, Code
    <2> QED BY <1>2, <2>1, StopFrames, PlainFrames, CallFrames, ReturnFrames,
            AllocateFrames, PopFrames, TryFrames, TryEndFrames, RaiseFrames DEF Slice
  <1>3. CASE SendToProcess \/ UNCHANGED vars
    BY <1>3, SendFrames
  <1> QED BY <1>1, <1>2, <1>3 DEF Next, Finished

LEMMA FrameInit == Init => FrameInv
  <1> SUFFICES ASSUME Init PROVE FrameInv
    OBVIOUS
  <1>1. Suspended({})
    BY DEF Init, Suspended
  <1> QED BY <1>1 DEF Init, FrameInv

\* Code whose frames are in form: however calls, tail calls, try blocks and
\* exceptions nest and wherever slices are cut, RETURN finds in cp the address
\* after its CALL (ReturnsToCaller; beam_emu.c:99-159, :250-265).
THEOREM ReturnsCorrect ==
    ASSUME FramesInForm
    PROVE  Spec => []ReturnsToCaller
  <1>1. IInv /\ FrameInv => ReturnsToCaller
    <2> SUFFICES ASSUME IInv, FrameInv, CanFetch, Instr.op = "RETURN"
                 PROVE  calls # << >> /\ cp = calls[Len(calls)]
      BY DEF ReturnsToCaller
    <2>1. HasFrames(Code)
      <3>1. ip + 1 \in 1 .. CodeLen
        BY ProgramFacts DEF IInv, ControlOK, CanFetch, Address
      <3> QED BY <3>1 DEF HasFrames, Instr, CodeLen
    <2>2. FrameInForm(Code, Load(program).shape, ip) /\ \E P : Current(P)
      BY <2>1, FramesHere
    <2>3. Shape(ip).words = -1 /\ Shape(ip).fun # "main"
      BY <2>2 DEF FrameInForm, Shape, Instr
    <2> QED BY <2>2, <2>3 DEF Current
  <1>2. IInv /\ IInv' /\ FrameInv /\ [Next]_vars => FrameInv'
    BY FrameStep
  <1> QED BY <1>1, <1>2, FrameInit, InitOK, StepOK, PTL DEF Spec

\* Code whose frames are in form leaves nothing behind: a process that was never
\* cut halts with an empty stack and no catch frame, whichever way it got there
\* (BalancedAtHalt; beam_emu.c:215-265, :410-416).
THEOREM HaltsBalanced ==
    ASSUME FramesInForm
    PROVE  Spec => []BalancedAtHalt
  <1>1. IInv /\ FrameInv => BalancedAtHalt
    <2> SUFFICES ASSUME IInv, FrameInv, CanFetch, Instr.op = "HALT", ~preempted
                 PROVE  stack_top = heap_capacity /\ catches = << >>
      BY DEF BalancedAtHalt
    <2>1. HasFrames(Code)
      <3>1. ip + 1 \in 1 .. CodeLen
        BY ProgramFacts DEF IInv, ControlOK, CanFetch, Address
      <3> QED BY <3>1 DEF HasFrames, Instr, CodeLen
    <2>2. FrameInForm(Code, Load(program).shape, ip) /\ \E P : Current(P)
      BY <2>1, FramesHere
    <2>3. Shape(ip).words = -1 /\ Shape(ip).fun = "main"
      BY <2>2 DEF FrameInForm, Shape, Instr
    <2> QED BY <2>2, <2>3 DEF Current
  <1>2. IInv /\ IInv' /\ FrameInv /\ [Next]_vars => FrameInv'
    BY FrameStep
  <1> QED BY <1>1, <1>2, FrameInit, InitOK, StepOK, PTL DEF Spec
=============================================================================
