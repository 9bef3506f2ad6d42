------------------------------ MODULE MCMips --------------------------------
(***************************************************************************)
(* The instance of Mips: two instructions of any kind on 8-bit words, from *)
(* every pair of the values at the edges of the ints and of the memory.    *)
(***************************************************************************)
EXTENDS Mips

I(op, rs, rt, rd, extra) ==
    [op |-> op, rs |-> rs, rt |-> rt, rd |-> rd, extra |-> extra]

Edges == {0, 1, 5, 11, 127, 128, 129, 254, 255}
Bytes == [a \in 0 .. MemorySize - 1 |-> (3 * a + 2) % 2^ByteBits]

(* The immediates: 1, the largest and the smallest.                        *)
Immediates == {1, 2^(2 * ByteBits - 1) - 1, Wrap(-(2^(2 * ByteBits - 1)))}

ArithmeticInstructions ==
    {I(op, 1, 2, 1, x) : op \in ImmediateOps \cup {"SLL", "SRA", "SRL"},
                         x \in Immediates}
    \cup {I(op, 1, 2, 1, 0) : op \in RegisterOps \cup HiLoOps}
    \cup {I("SUB", 2, 1, 0, 0)}

ProgramInstructions ==
    {I("ADD", 1, 2, 2, 0), I("ADDI", 0, 1, 0, 2), I("ADDIU", 0, 0, 0, 7),
     I("SYSCALL", 0, 0, 0, 0), I("RES", 0, 0, 0, 0), I("UNIMP", 0, 0, 0, 0),
     I("DIV", 2, 1, 0, 0), I("MFLO", 0, 0, 31, 0)}
    \cup {I(op, 1, 2, 31, x) : op \in Branches, x \in {2, Wrap(-1)}}
    \cup {I(op, 2, 0, 31, x) : op \in Jumps, x \in {0, 3}}
    \cup {I(op, 1, 2, 0, x) : op \in Loads \cup Stores, x \in {1, Wrap(-1)}}
    \cup {I("LW", 0, 0, 0, 4)}

AllInstructions == ArithmeticInstructions \cup ProgramInstructions
=============================================================================
