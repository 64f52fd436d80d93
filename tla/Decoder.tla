------------------------------ MODULE Decoder ------------------------------
(***************************************************************************)
(* beam_decode.c: the code chunk of a module, read byte by byte into       *)
(* instructions.  A compiler writes the chunk instruction by instruction;  *)
(* the decoder is run on all of it and on every part cut off at its end.   *)
(* Bytes are numbered from 1, and values stay below 2^24.                  *)
(***************************************************************************)
EXTENDS Integers, Sequences, SequencesExt

CONSTANTS
    Opcodes,        \* those the compiler uses
    ArgValues,      \* [tag, val] of the arguments it writes
    MaxInstrs       \* bound: instructions in a chunk

VARIABLES
    written,        \* what was written: [opcode, args]
    ends,           \* where each of them ends
    chunk           \* as bytes

decoderVars == <<written, ends, chunk>>

HeaderSize == 20

read_u32_be(code, at) ==
    code[at] * 2^24 + code[at + 1] * 2^16 + code[at + 2] * 2^8 + code[at + 3]

\* The term, or the bare index of a register or a label.
Eterm(tag, val) ==
    CASE tag \in {0, 1, 6} -> val * 16 + 3
      [] tag = 2 -> val * 16 + 11
      [] tag \in {3, 4, 5, 7} -> val

\* An argument at p: its term, and where the next one is.  One that begins
\* behind the end, or whose second byte is missing, is 0 and takes no byte.
RECURSIVE decode_arg(_, _)
decode_arg(code, p) ==
    LET b == code[p]
        tag == b % 8
        high == b \div 32
        nested == decode_arg(code, p + 1)
        len == IF high < 7 THEN high + 2
               ELSE IF nested.term \div 16 < 1024 THEN nested.term \div 16 ELSE 1024
        first == IF high < 7 THEN p + 1 ELSE nested.p
        next == IF first + len <= Len(code) + 1 THEN first + len ELSE Len(code) + 1
    IN  CASE p > Len(code) -> [term |-> 0, p |-> p]
          [] p <= Len(code) /\ (b \div 8) % 2 = 0 ->
                [term |-> Eterm(tag, b \div 16), p |-> p + 1]
          [] p <= Len(code) /\ (b \div 8) % 2 = 1 /\ (b \div 16) % 2 = 0 ->
                IF p = Len(code) THEN [term |-> 0, p |-> p]
                ELSE [term |-> Eterm(tag, high * 256 + code[p + 1]), p |-> p + 2]
          [] OTHER ->
                [term |-> Eterm(tag, FoldLeft(LAMBDA v, x : v * 256 + x, 0,
                                              SubSeq(code, first, next - 1))),
                 p |-> next]

\* The operation and the arguments read for each opcode; another one leaves an
\* empty instruction and skips as many arguments as the arity table says.
Operation ==
    (1 :> <<1, 1>>) @@ (64 :> <<2, 2>>) @@ (4 :> <<9, 2>>) @@ (19 :> <<10, 0>>) @@
    (153 :> <<153, 1>>) @@ (2 :> <<2, 3>>) @@ (3 :> <<3, 0>>) @@ (16 :> <<16, 2>>) @@
    (69 :> <<19, 3>>) @@ (78 :> <<20, 3>>) @@ (62 :> <<30, 2>>) @@ (63 :> <<31, 1>>) @@
    (104 :> <<28, 2>>) @@ (105 :> <<31, 1>>) @@ (106 :> <<29, 1>>) @@
    (107 :> <<33, 1>>) @@ (108 :> <<32, 2>>) @@ (161 :> <<32, 0>>)

\* The arity table, for the opcodes above and a few more.
beam_opcode_arities ==
    [o \in {3, 19, 161} |-> 0] @@ [o \in {1, 18, 63, 105, 106, 107, 153} |-> 1] @@
    [o \in {4, 12, 16, 62, 64, 78, 104, 108} |-> 2] @@ [o \in {2, 5, 69} |-> 3]

\* count arguments from p on.
DecodeArgs(code, p, count) ==
    FoldLeft(LAMBDA s, i : LET a == decode_arg(code, s.p)
                           IN  [p |-> a.p, terms |-> Append(s.terms, a.term)],
             [p |-> p, terms |-> <<>>], [i \in 1 .. count |-> i])

Known(o) == o \in DOMAIN Operation

\* An instruction is zeroed before its arguments are stored.
Instruction(opcode, terms) ==
    [opcode |-> opcode, args |-> [i \in 1 .. 3 |-> IF i <= Len(terms) THEN terms[i] ELSE 0]]

\* Mutant of the next definition: the arguments of another opcode are taken
\* for instructions.
DecodeUnskipped(code, p) ==
    LET o == code[p]
        s == DecodeArgs(code, p + 1, IF Known(o) THEN Operation[o][2] ELSE 0)
    IN  [p |-> s.p,
         instr |-> IF Known(o) THEN Instruction(Operation[o][1], s.terms)
                   ELSE Instruction(0, <<>>)]

DecodeInstr(code, p) ==
    LET o == code[p]
        skipped == IF o \in DOMAIN beam_opcode_arities THEN beam_opcode_arities[o] ELSE 0
        s == DecodeArgs(code, p + 1, IF Known(o) THEN Operation[o][2] ELSE skipped)
    IN  [p |-> s.p,
         instr |-> IF Known(o) THEN Instruction(Operation[o][1], s.terms)
                   ELSE Instruction(0, <<>>)]

RECURSIVE DecodeFrom(_, _)
DecodeFrom(code, p) ==
    IF p > Len(code) THEN <<>>
    ELSE LET d == DecodeInstr(code, p) IN <<d.instr>> \o DecodeFrom(code, d.p)

\* NULL, here no instruction, for a chunk that is shorter than its header.  The
\* limit of 100000 instructions is out of reach.
beam_decode_code_chunk(code) ==
    IF Len(code) < HeaderSize THEN <<>>
    ELSE DecodeFrom(code, 4 + read_u32_be(code, 1) + 1)

-----------------------------------------------------------------------------
(***************************************************************************)
(* The compiler: compact terms of one, two and three bytes and more.       *)
(***************************************************************************)
Encode(arg) ==
    CASE arg.val < 16 -> <<arg.val * 16 + arg.tag>>
      [] arg.val >= 16 /\ arg.val < 2048 ->
            <<(arg.val \div 256) * 32 + 8 + arg.tag, arg.val % 256>>
      [] arg.val >= 2048 /\ arg.val < 2^15 ->
            <<24 + arg.tag, arg.val \div 256, arg.val % 256>>
      [] OTHER ->
            <<32 + 24 + arg.tag, arg.val \div 2^16, (arg.val \div 256) % 256, arg.val % 256>>

DecoderInit ==
    /\ written = <<>>
    /\ ends = <<>>
    /\ chunk = <<0, 0, 0, 16>> \o [i \in 1 .. 16 |-> 0]

WriteInstr(o, args) ==
    LET bytes == FoldLeft(LAMBDA s, a : s \o Encode(a), <<o>>, args)
    IN  /\ Len(written) < MaxInstrs
        /\ written' = Append(written, [opcode |-> o, args |-> args])
        /\ chunk' = chunk \o bytes
        /\ ends' = Append(ends, Len(chunk) + Len(bytes))

DecoderNext ==
    \E o \in Opcodes :
        \E args \in [1 .. beam_opcode_arities[o] -> ArgValues] : WriteInstr(o, args)

-----------------------------------------------------------------------------
\* What an instruction should become.
Meant(w) ==
    IF Known(w.opcode)
    THEN Instruction(Operation[w.opcode][1],
                     [i \in DOMAIN w.args |-> Eterm(w.args[i].tag, w.args[i].val)])
    ELSE Instruction(0, <<>>)

\* As many arguments are read as the arity table says: of all but select_val.
InStep(o) == Known(o) => Operation[o][2] = beam_opcode_arities[o]

InStepTo(i) == \A j \in 1 .. i : InStep(written[j].opcode)

\* The decoder keeps in step with the code up to the first opcode of which it
\* reads more arguments than the arity table says (78): it finds every
\* instruction that was written before, with its arguments, and of a chunk cut
\* off anywhere those that are whole; without such an opcode it finds no other
\* instruction either (beam_decode_code_chunk, decode_arg).
DecodesWhatWasWritten ==
    \A n \in HeaderSize .. Len(chunk) :
        LET decoded == beam_decode_code_chunk(SubSeq(chunk, 1, n))
        IN  /\ \A i \in DOMAIN written :
                 ends[i] <= n /\ InStepTo(i) => /\ i \in DOMAIN decoded
                                               /\ decoded[i] = Meant(written[i])
            /\ n = Len(chunk) /\ InStepTo(Len(written)) => Len(decoded) = Len(written)
=============================================================================
