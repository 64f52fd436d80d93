---------------------------- MODULE MCEmulator ----------------------------
(***************************************************************************)
(* Programs for the interpreter, in the shape the compiler gives them: a   *)
(* function that calls has a frame, a try block is closed by TRY_END on    *)
(* the normal path and by RAISE on the other.                              *)
(***************************************************************************)
EXTENDS Emulator

I(op, a, b) == [op |-> op, arg1 |-> a, arg2 |-> b]

\* main tries g; g returns, raises, calls itself in a try block, or tail-calls
\* itself.
FrameCode == <<
    I("ALLOCATE", 1, 0), I("TRY", 2, 0), I("CALL", 12, 0), I("TRY_END", 0, 0),
    I("DEALLOCATE", 1, 0), I("TEST_IS_TUPLE", 1, 0), I("HALT", 0, 0),
    I("LABEL", 1, 0), I("HALT", 0, 0),
    I("LABEL", 2, 0), I("DEALLOCATE", 1, 0), I("HALT", 0, 0),
    \* 12: g
    I("ALLOCATE", 0, 0), I("SELECT_VAL", 3, {4, 5, 6}),
    I("LABEL", 3, 0), I("DEALLOCATE", 0, 0), I("RETURN", 0, 0),
    I("LABEL", 4, 0), I("RAISE", 0, 0),
    I("LABEL", 5, 0), I("CALL_LAST", 12, 0),
    I("LABEL", 6, 0), I("CATCH", 7, 0), I("CALL", 12, 0), I("TRY_END", 0, 0),
    I("LABEL", 7, 0), I("INT_DIV", 0, 0), I("DEALLOCATE", 0, 0),
    I("RETURN", 0, 0) >>

Main(words, tries) == [fun |-> "main", words |-> words, tries |-> tries]
G(words, tries) == [fun |-> "g", words |-> words, tries |-> tries]

FrameShape ==
    LET shapes == <<
            Main(-1, 0), Main(1, 0), Main(1, 1), Main(1, 1),
            Main(1, 0), Main(-1, 0), Main(-1, 0),
            Main(-1, 0), Main(-1, 0),
            Main(1, 0), Main(1, 0), Main(-1, 0),
            G(-1, 0), G(0, 0),
            G(0, 0), G(0, 0), G(-1, 0),
            G(0, 0), G(0, 0),
            G(0, 0), G(0, 0),
            G(0, 0), G(0, 0), G(0, 1), G(0, 1),
            G(0, 0), G(0, 0), G(0, 0),
            G(-1, 0) >>
    IN  [a \in 0 .. Len(FrameCode) - 1 |-> shapes[a + 1]]

\* Loops in each of the ways code can loop; it also may make a closure for which
\* the heap grows, and run off its end.
LoopCode == <<
    I("LABEL", 1, 0), I("SELECT_VAL", 1, {2, 3, 4, 6}),
    I("LABEL", 2, 0), I("TEST_IS_LIST", 9, 0),  \* label 9 does not exist
    I("LABEL", 3, 0), I("ALLOCATE", 0, 0), I("CALL", 0, 0),
    I("LABEL", 4, 0), I("LOOP_REC", 5, 0), I("LOOP_REC_END", 4, 0),
    I("LABEL", 6, 0), I("MAKE_FUN2", 1, 0),
    I("LABEL", 5, 0) >>

\* A selective receive in a loop.
ReceiveCode == <<
    I("LABEL", 1, 0), I("LOOP_REC", 2, 0), I("TEST_MESSAGE", 3, 0),
    I("REMOVE_MESSAGE", 0, 0), I("SELECT_VAL", 1, {4}),
    I("LABEL", 3, 0), I("LOOP_REC_END", 1, 0),
    I("LABEL", 2, 0), I("WAIT", 0, 0),
    I("LABEL", 4, 0), I("RECEIVE", 0, 0) >>

\* A closure made inside a frame.
ClosureCode == <<
    I("ALLOCATE", 1, 0), I("MAKE_FUN2", 1, 0), I("DEALLOCATE", 1, 0),
    I("HALT", 0, 0) >>

\* Straight-line code, as in the test of preemption.
MoveCode == <<
    I("MOVE", 0, 0), I("MOVE", 0, 0), I("MOVE", 0, 0), I("HALT", 0, 0) >>

MoveShape == [a \in 0 .. 3 |-> Main(-1, 0)]

\* The processes that run them.  Stack arrays of seven words hold three nested
\* frames; a budget of nine is spent inside every loop.
MCLoad(p) ==
    LET Run(code, shape, words, budget, sends, accepts) ==
            [code |-> code, shape |-> shape, heap_words |-> words,
             reductions |-> budget, messages |-> sends, wanted |-> accepts]
    IN  CASE p = "frames"  -> Run(FrameCode, FrameShape, 7, 24, 0, {})
          [] p = "loops"   -> Run(LoopCode, << >>, 2, 9, 1, {})
          [] p = "receive" -> Run(ReceiveCode, << >>, 1, 9, 4, {2, 4})
          [] p = "wait"    -> Run(ReceiveCode, << >>, 1, 9, 1, {1})
          [] p = "closure" -> Run(ClosureCode, << >>, 4, 9, 0, {})
          [] p = "moves"   -> Run(MoveCode, MoveShape, 1, 3, 0, {})

ASSUME ReceivesInForm
ASSUME "closure" \in Program \/ FramesInForm
============================================================================
