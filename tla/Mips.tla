-------------------------------- MODULE Mips --------------------------------
(***************************************************************************)
(* The simulated processor (class Machine): OneInstruction executes one    *)
(* instruction of the user program, with delayed loads and delayed         *)
(* branches, and traps to the kernel on a system call or an exception.     *)
(*                                                                         *)
(* A word has four bytes of ByteBits bits and is kept as an unsigned       *)
(* number; Signed is its value as an int.  The program is any: what is     *)
(* fetched is one of a set of decoded instructions.  Page tables are the   *)
(* subject of AddrSpace, so here an address is in the memory or beyond its *)
(* end.                                                                    *)
(***************************************************************************)
EXTENDS Integers, Sequences

CONSTANTS ByteBits,     \* 8 in the code
          RegionBits,   \* the bits of the pc a jump keeps: 4 in the code
          MemorySize,   \* in bytes
          Values,       \* what registers 1 and 2 may hold at the start
          Content,      \* what the memory holds at the start
          Instructions, \* what Decode may return
          Results,      \* what a system call may return
          MaxSteps      \* bound: the number of instructions and calls

HiReg == 32
LoReg == 33
PCReg == 34
NextPCReg == 35
PrevPCReg == 36
LoadReg == 37
LoadValueReg == 38
BadVAddrReg == 39
R31 == 31
GPReg == {0, 1, 2, R31}     \* the four of NumGPRegs = 32 the model keeps

WordBits == 4 * ByteBits
Wrap(n) == n % 2^WordBits
Word == 0 .. 2^WordBits - 1
Signed(w) == IF w < 2^(WordBits - 1) THEN w ELSE w - 2^WordBits
Low(w, bits) == w % 2^bits
Invert(w) == 2^WordBits - 1 - w

ASSUME MipsAssumption ==
    /\ ByteBits \in Nat \ {0} /\ MemorySize \in Nat /\ MaxSteps \in Nat
    /\ RegionBits \in 0 .. WordBits - 2
    /\ Values \subseteq Word /\ Results \subseteq Word
    /\ Content \in [0 .. MemorySize - 1 -> 0 .. 2^ByteBits - 1]
    /\ \A i \in Instructions :
          {i.rs, i.rt, i.rd} \subseteq GPReg /\ i.extra \in Word

VARIABLES registers,  \* Machine::registers
          memory,     \* the bytes of the user program
          mode,       \* "user", "syscall", or why the machine stopped
          steps

machineVars == <<registers, memory, mode, steps>>
State == [r |-> registers, m |-> memory, mode |-> mode]
-----------------------------------------------------------------------------
(* Definitions named Wrong... are plausible mistakes in the definition that *)
(* follows them; they are used only to show that the properties below      *)
(* notice them.                                                            *)

(* A delayed load that may change register 0.                              *)
WrongDelayedLoad(r, reg, value) ==
    [r EXCEPT ![r[LoadReg]] = r[LoadValueReg],
              ![LoadReg] = reg, ![LoadValueReg] = value]

(* Machine::DelayedLoad.                                                   *)
DelayedLoad(r, reg, value) ==
    [r EXCEPT ![r[LoadReg]] = r[LoadValueReg],
              ![LoadReg] = reg, ![LoadValueReg] = value, ![0] = 0]

(* A trap that leaves the load in progress.                                *)
WrongRaiseException(s, which, badVAddr) ==
    [r |-> [s.r EXCEPT ![BadVAddrReg] = badVAddr], m |-> s.m, mode |-> which]

(* Machine::RaiseException up to ExceptionHandler, which stops the machine *)
(* for every exception but a system call.                                  *)
RaiseException(s, which, badVAddr) ==
    [r |-> DelayedLoad([s.r EXCEPT ![BadVAddrReg] = badVAddr], 0, 0),
     m |-> s.m, mode |-> which]

(* The end of OneInstruction: r, m and pcAfter are what the instruction    *)
(* computed; reg and value are the load it leaves in progress.             *)
Complete(s, r, m, pcAfter, reg, value) ==
    [r |-> [DelayedLoad(r, reg, value) EXCEPT
              ![PrevPCReg] = s.r[PCReg], ![PCReg] = s.r[NextPCReg],
              ![NextPCReg] = pcAfter],
     m |-> m, mode |-> "user"]

NextPC(s) == Wrap(s.r[NextPCReg] + 4)
-----------------------------------------------------------------------------
(* Arithmetic.                                                             *)

(* Bits are shifted out at the right end, the sign comes in at the left.   *)
ShiftRight(w, n) == Wrap(Signed(w) \div 2^n)
ShiftLeft(w, n) == Wrap(w * 2^n)

(* The bits that a and b have in common; the other operations on bits      *)
(* follow from them: a + b counts these bits twice.                        *)
And(a, b) ==
    LET Bit(w, i) == (w \div 2^i) % 2
        sum[i \in 0 .. WordBits] ==
          IF i = 0 THEN 0 ELSE sum[i - 1] + 2^(i - 1) * Bit(a, i - 1) * Bit(b, i - 1)
    IN  sum[WordBits]
Or(a, b) == a + b - And(a, b)
Xor(a, b) == a + b - 2 * And(a, b)

(* What goes to register rd or rt, for operands a = registers[rs],         *)
(* b = registers[rt] and x = extra.  SRL and SRLV shift the int tmp.       *)
Alu(a, b, x, hi, lo) ==
    LET half == Low(x, 2 * ByteBits)
        by == a % WordBits
        OneIf(c) == IF c THEN 1 ELSE 0 IN
    [ADD |-> Wrap(a + b), ADDU |-> Wrap(a + b),
     ADDI |-> Wrap(a + x), ADDIU |-> Wrap(a + x),
     SUB |-> Wrap(a - b), SUBU |-> Wrap(a - b),
     AND |-> And(a, b), OR |-> Or(a, b), XOR |-> Xor(a, b), NOR |-> Invert(Or(a, b)),
     ANDI |-> And(a, half), ORI |-> Or(a, half), XORI |-> Xor(a, half),
     SLT |-> OneIf(Signed(a) < Signed(b)), SLTU |-> OneIf(a < b),
     SLTI |-> OneIf(Signed(a) < Signed(x)), SLTIU |-> OneIf(a < x),
     SLL |-> ShiftLeft(b, x % WordBits), SLLV |-> ShiftLeft(b, by),
     SRA |-> ShiftRight(b, x % WordBits), SRAV |-> ShiftRight(b, by),
     SRL |-> ShiftRight(b, x % WordBits), SRLV |-> ShiftRight(b, by),
     LUI |-> ShiftLeft(x, 2 * ByteBits),
     MFHI |-> hi, MFLO |-> lo]

ImmediateOps == {"ADDI", "ADDIU", "ANDI", "ORI", "XORI", "SLTI", "SLTIU", "LUI"}
RegisterOps == DOMAIN Alu(0, 0, 0, 0, 0) \ ImmediateOps

(* The signs are compared with the wrong operand of a subtraction.         *)
WrongOverflows(op, a, b, x) ==
    LET Negative(w) == Signed(w) < 0
        sum(y) == Wrap(a + y) IN
    CASE op = "ADD"  -> Negative(a) = Negative(b) /\ Negative(a) # Negative(sum(b))
      [] op = "ADDI" -> Negative(a) = Negative(x) /\ Negative(x) # Negative(sum(x))
      [] op = "SUB"  -> Negative(a) # Negative(b)
                          /\ Negative(b) # Negative(Wrap(a - b))
      [] OTHER -> FALSE

(* The instructions that trap, and when: what the sign bits of operands    *)
(* and result say.                                                         *)
Overflows(op, a, b, x) ==
    LET Negative(w) == Signed(w) < 0
        sum(y) == Wrap(a + y) IN
    CASE op = "ADD"  -> Negative(a) = Negative(b) /\ Negative(a) # Negative(sum(b))
      [] op = "ADDI" -> Negative(a) = Negative(x) /\ Negative(x) # Negative(sum(x))
      [] op = "SUB"  -> Negative(a) # Negative(b)
                          /\ Negative(a) # Negative(Wrap(a - b))
      [] OTHER -> FALSE

(* One round of the loop of Mult.  It breaks when no other bit of a is     *)
(* set, which a negative a (of an unsigned product) never reaches.         *)
MultStep(t) ==
    LET odd == t.a % 2 = 1
        sum == Wrap(t.lo + t.bLo)
        carry == IF sum < t.bLo THEN 1 ELSE 0 IN
    [a |-> ShiftRight(t.a, 1), bLo |-> Wrap(2 * t.bLo),
     bHi |-> Wrap(2 * t.bHi) + t.bLo \div 2^(WordBits - 1),
     lo |-> IF odd THEN sum ELSE t.lo,
     hi |-> IF odd THEN Wrap(t.hi + carry + t.bHi) ELSE t.hi,
     done |-> t.a = 1]

MultLoop(a, b) ==
    LET round[i \in 0 .. WordBits] ==
          IF i = 0
          THEN [a |-> a, bLo |-> b, bHi |-> 0, lo |-> 0, hi |-> 0,
                done |-> FALSE]
          ELSE IF round[i - 1].done THEN round[i - 1] ELSE MultStep(round[i - 1])
    IN round[WordBits]

(* Mult: <<hi, lo>>.                                                       *)
Mult(a, b, signedArith) ==
    LET Abs(w) == IF signedArith /\ Signed(w) < 0 THEN Wrap(-w) ELSE w
        negative == signedArith /\ ((Signed(a) < 0) # (Signed(b) < 0))
        t == MultLoop(Abs(a), Abs(b))
        lo == Wrap(Invert(t.lo) + 1) IN
    IF a = 0 \/ b = 0 THEN <<0, 0>>
    ELSE IF ~negative THEN <<t.hi, t.lo>>
    ELSE <<Wrap(Invert(t.hi) + (IF lo = 0 THEN 1 ELSE 0)), lo>>

(* Division of C: the quotient is rounded towards 0.                       *)
Quotient(a, b) ==
    LET Abs(n) == IF n < 0 THEN -n ELSE n
        q == Abs(a) \div Abs(b) IN
    IF (a < 0) = (b < 0) THEN q ELSE -q

Div(a, b) == LET q == Quotient(a, b) IN <<Wrap(a - q * b), Wrap(q)>>

(* The smallest int divided by -1: the host's division instruction traps.  *)
HostTraps(i, a, b) ==
    i.op = "DIV" /\ Signed(b) = -1 /\ Signed(a) = -(2^(WordBits - 1))

(* The instructions that write HiReg and LoReg: <<hi, lo>>.                *)
HiLo(op, a, b, hi, lo) ==
    CASE op = "MULT"  -> Mult(a, b, TRUE)
      [] op = "MULTU" -> Mult(a, b, FALSE)
      [] op = "DIV"   -> IF b = 0 THEN <<0, 0>> ELSE Div(Signed(a), Signed(b))
      [] op = "DIVU"  -> IF b = 0 THEN <<0, 0>> ELSE Div(a, b)
      [] op = "MTHI"  -> <<a, lo>>
      [] op = "MTLO"  -> <<hi, a>>

HiLoOps == {"MULT", "MULTU", "DIV", "DIVU", "MTHI", "MTLO"}

(* OneInstruction for the instructions that compute.                       *)
Compute(s, i) ==
    LET a == s.r[i.rs]
        b == s.r[i.rt]
        to == IF i.op \in ImmediateOps THEN i.rt ELSE i.rd
        r == [s.r EXCEPT
                ![to] = Alu(a, b, i.extra, s.r[HiReg], s.r[LoReg])[i.op]] IN
    IF Overflows(i.op, a, b, i.extra) THEN RaiseException(s, "Overflow", 0)
    ELSE Complete(s, r, s.m, NextPC(s), 0, 0)

ComputeHiLo(s, i) ==
    LET a == s.r[i.rs]
        b == s.r[i.rt]
        hl == HiLo(i.op, a, b, s.r[HiReg], s.r[LoReg])
        r == [s.r EXCEPT ![HiReg] = hl[1], ![LoReg] = hl[2]] IN
    IF HostTraps(i, a, b) THEN [r |-> s.r, m |-> s.m, mode |-> "host trap"]
    ELSE Complete(s, r, s.m, NextPC(s), 0, 0)
-----------------------------------------------------------------------------
(* Branches and jumps.                                                     *)

Links == {"BGEZAL", "BLTZAL", "JAL"}
Branches == {"BEQ", "BNE", "BGEZ", "BGEZAL", "BGTZ", "BLEZ", "BLTZ", "BLTZAL"}
Jumps == {"J", "JAL", "JR", "JALR"}

Taken(op, a, b) ==
    CASE op = "BEQ" -> a = b
      [] op = "BNE" -> a # b
      [] op \in {"BGEZ", "BGEZAL"} -> Signed(a) >= 0
      [] op \in {"BLTZ", "BLTZAL"} -> Signed(a) < 0
      [] op = "BGTZ" -> Signed(a) > 0
      [] op = "BLEZ" -> Signed(a) <= 0

(* The link is written before the condition or the target is read.         *)
Branch(s, i) ==
    LET link == IF i.op \in Links THEN {R31}
                ELSE IF i.op = "JALR" THEN {i.rd} ELSE {}
        r == [k \in DOMAIN s.r |-> IF k \in link THEN NextPC(s) ELSE s.r[k]]
        region == 2^(WordBits - RegionBits)
        pcAfter ==
          IF i.op \in {"JR", "JALR"} THEN r[i.rs]
          ELSE IF i.op \in {"J", "JAL"}
          THEN (NextPC(s) \div region) * region + Low(4 * i.extra, WordBits - RegionBits)
          ELSE IF Taken(i.op, r[i.rs], r[i.rt])
          THEN Wrap(s.r[NextPCReg] + 4 * i.extra)
          ELSE NextPC(s) IN
    Complete(s, r, s.m, pcAfter, 0, 0)
-----------------------------------------------------------------------------
(* Loads and stores.                                                       *)

Loads == {"LB", "LBU", "LH", "LHU", "LW", "LWL", "LWR"}
Stores == {"SB", "SH", "SW", "SWL", "SWR"}

(* How many bytes are read or written, and from which address.             *)
Size(op) == IF op \in {"LB", "LBU", "SB"} THEN 1
            ELSE IF op \in {"LH", "LHU", "SH"} THEN 2 ELSE 4
Address(s, i) ==
    LET tmp == Wrap(s.r[i.rs] + i.extra) IN
    IF i.op \in {"LWL", "LWR", "SWL", "SWR"} THEN tmp - (tmp % 4) ELSE tmp

(* Machine::Translate: the checks on the address.                          *)
Translates(addr, size) == addr % size = 0 /\ addr < MemorySize

(* Machine::ReadMem and WriteMem: little endian.                           *)
ReadMem(m, addr, size) ==
    LET sum[k \in 0 .. size] ==
          IF k = 0 THEN 0
          ELSE sum[k - 1] + ShiftLeft(m[addr + k - 1], ByteBits * (k - 1))
    IN sum[size]

WriteMem(m, addr, size, value) ==
    [a \in DOMAIN m |->
       IF a \in addr .. addr + size - 1
       THEN Low(value \div 2^(ByteBits * (a - addr)), ByteBits)
       ELSE m[a]]

SignExtended(v, bits) ==
    IF v < 2^(bits - 1) THEN v ELSE Wrap(v - 2^bits)

(* LWL, LWR, SWL, SWR: part of a word of memory and part of a register.    *)
(* byte is the place in the word the address points to.                    *)
Merge(op, byte, word, reg) ==
    LET left == ByteBits * (3 - byte)
        right == ByteBits * byte IN
    CASE op = "LWL" -> Low(reg, left) + ShiftLeft(word, left)
      [] op = "LWR" -> (reg - Low(reg, WordBits - right)) + word \div 2^right
      [] op = "SWL" -> (word - Low(word, WordBits - left)) + reg \div 2^left
      [] op = "SWR" -> Low(word, right) + ShiftLeft(reg, right)

(* LWL and LWR that do not look at the load in progress.                   *)
WrongTarget(s, i) == s.r[i.rt]

(* The register LWL and LWR merge into: with the load in progress, if it   *)
(* goes to the same one.                                                   *)
Target(s, i) ==
    IF s.r[LoadReg] = i.rt THEN s.r[LoadValueReg] ELSE s.r[i.rt]

Load(s, i) ==
    LET addr == Address(s, i)
        byte == (s.r[i.rs] + i.extra) % 4
        v == ReadMem(s.m, addr, Size(i.op))
        value == CASE i.op = "LB" -> SignExtended(v, ByteBits)
                   [] i.op = "LH" -> SignExtended(v, 2 * ByteBits)
                   [] i.op \in {"LWL", "LWR"} -> Merge(i.op, byte, v, Target(s, i))
                   [] OTHER -> v IN
    IF Translates(addr, Size(i.op))
    THEN Complete(s, s.r, s.m, NextPC(s), i.rt, value)
    ELSE RaiseException(s, "AddressError", addr)

Store(s, i) ==
    LET addr == Address(s, i)
        byte == (s.r[i.rs] + i.extra) % 4
        size == Size(i.op)
        value == IF i.op \in {"SWL", "SWR"}
                 THEN Merge(i.op, byte, ReadMem(s.m, addr, 4), s.r[i.rt])
                 ELSE s.r[i.rt] IN
    IF Translates(addr, size)
    THEN Complete(s, s.r, WriteMem(s.m, addr, size, value), NextPC(s), 0, 0)
    ELSE RaiseException(s, "AddressError", addr)
-----------------------------------------------------------------------------
(* Machine::OneInstruction after the instruction is fetched.               *)
Execute(s, i) ==
    CASE i.op \in RegisterOps \cup ImmediateOps -> Compute(s, i)
      [] i.op \in HiLoOps -> ComputeHiLo(s, i)
      [] i.op \in Branches \cup Jumps -> Branch(s, i)
      [] i.op \in Loads -> Load(s, i)
      [] i.op \in Stores -> Store(s, i)
      [] i.op = "SYSCALL" -> RaiseException(s, "syscall", 0)
      [] i.op \in {"RES", "UNIMP"} -> RaiseException(s, "IllegalInstr", 0)

(* Decode returns one of the operations of the table in mipssim.h.         *)
ASSUME DecodeAssumption ==
    \A i \in Instructions :
       i.op \in RegisterOps \cup ImmediateOps \cup HiLoOps \cup Branches \cup Jumps
                 \cup Loads \cup Stores \cup {"SYSCALL", "RES", "UNIMP"}

(* The machine goes on from s.                                             *)
Becomes(s) == registers' = s.r /\ memory' = s.m /\ mode' = s.mode

(* An instruction, or the return from a system call, within the bound.     *)
Counts == steps < MaxSteps /\ steps' = steps + 1

(* Any values that earlier instructions may have left, at the first        *)
(* instruction of a program.                                               *)
MachineInit ==
    /\ \E v, w \in Values :
          registers = [k \in GPReg \cup HiReg .. BadVAddrReg |->
                         IF k = 1 THEN v ELSE IF k = 2 THEN w
                         ELSE IF k = NextPCReg THEN 4 ELSE 0]
    /\ memory = Content
    /\ mode = "user"
    /\ steps = 0

OneInstruction(i) ==
    /\ mode = "user" /\ Counts
    /\ Translates(registers[PCReg], 4)
    /\ Becomes(Execute(State, i))

(* The fetch fails; no instruction is executed.                            *)
FetchFault ==
    /\ mode = "user"
    /\ ~Translates(registers[PCReg], 4)
    /\ Becomes(RaiseException(State, "AddressError", registers[PCReg]))
    /\ UNCHANGED steps

(* IncreasePC of exception.cc.                                             *)
IncreasePC(r) ==
    [r EXCEPT ![PrevPCReg] = r[PCReg],
              ![PCReg] = Wrap(r[PCReg] + 4), ![NextPCReg] = Wrap(r[PCReg] + 8)]

(* The end of a system call: its result goes to register 2.                *)
SyscallReturns(v) ==
    /\ mode = "syscall" /\ Counts
    /\ Becomes([r |-> IncreasePC([registers EXCEPT ![2] = v]), m |-> memory,
                mode |-> "user"])

MachineNext ==
    \/ \E i \in Instructions : OneInstruction(i)
    \/ FetchFault
    \/ \E v \in Results : SyscallReturns(v)

MachineSpec == MachineInit /\ [][MachineNext]_machineVars
-----------------------------------------------------------------------------
(* Registers and memory hold words and bytes, a load in progress goes to a *)
(* general register, and register 0 is 0 whatever instructions name it as  *)
(* their target.                                                           *)
MachineTypeOK ==
    /\ \A k \in DOMAIN registers \ {LoadReg} : registers[k] \in Word
    /\ registers[LoadReg] \in GPReg
    /\ registers[0] = 0
    /\ memory \in [0 .. MemorySize - 1 -> 0 .. 2^ByteBits - 1]
    /\ mode \in {"user", "syscall", "Overflow", "AddressError",
                 "IllegalInstr", "host trap"}
    /\ steps \in 0 .. MaxSteps

(* The machine is about to execute an instruction (within the bound).      *)
Runs == mode = "user" /\ steps < MaxSteps

(* ADD, ADDI and SUB trap exactly when the result of the addition of ints  *)
(* is not an int, although they only look at sign bits.                    *)
TrapsOnOverflow ==
    \A i \in Instructions : Runs /\ i.op \in {"ADD", "ADDI", "SUB"} =>
       LET a == Signed(registers[i.rs])
           b == Signed(registers[i.rt])
           x == Signed(i.extra)
           exact == CASE i.op = "ADD" -> a + b
                      [] i.op = "ADDI" -> a + x
                      [] i.op = "SUB" -> a - b IN
       (Execute(State, i).mode = "Overflow") <=> (exact # Signed(Wrap(exact)))

(* The double word of MULT and MULTU is the product, of ints or of         *)
(* unsigned words, the smallest int included.                              *)
ProductIsExact ==
    \A i \in Instructions : Runs /\ i.op \in {"MULT", "MULTU"} =>
       LET Of(w) == IF i.op = "MULT" THEN Signed(w) ELSE w
           r == Execute(State, i).r IN
       r[HiReg] * 2^WordBits + r[LoReg]
         = (Of(registers[i.rs]) * Of(registers[i.rt])) % 2^(2 * WordBits)

(* Overflow and products are those of exact arithmetic, on registers that  *)
(* hold words.                                                             *)
ArithmeticIsExact == MachineTypeOK /\ TrapsOnOverflow /\ ProductIsExact

(* The pair of instructions a compiler uses for a word at any address, in  *)
(* either order, loads and stores the four bytes there, also when a load   *)
(* of the same register is in progress.                                    *)
PairsAccessWords ==
    \A a \in 0 .. MemorySize - 4 :
       LET I(op, rt, x) == [op |-> op, rs |-> 1, rt |-> rt, rd |-> 0, extra |-> x]
           Two(s, p, q) == Execute(Execute(s, p), q)
           s0 == [State EXCEPT !.r[1] = a]
           After(s) == Execute(s, I("ADDU", 0, 0)) IN
       Runs /\ registers[LoadReg] # 1 =>
       /\ After(Two(s0, I("LWR", 2, 0), I("LWL", 2, 3))).r[2] = ReadMem(memory, a, 4)
       /\ After(Two(s0, I("LWL", 2, 3), I("LWR", 2, 0))).r[2] = ReadMem(memory, a, 4)
       /\ registers[LoadReg] = 0 =>
            Two(s0, I("SWR", 2, 0), I("SWL", 2, 3)).m
              = WriteMem(memory, a, 4, registers[2])

(* A trap is precise: the instruction that causes it has changed nothing,  *)
(* so the kernel could restart it, and a load in progress has arrived, so  *)
(* the kernel sees the registers the program sees.                         *)
TrapsArePrecise ==
    [][mode = "user" /\ mode' # "user" /\ mode' # "host trap" =>
         /\ memory' = memory
         /\ registers'[LoadReg] = 0
         /\ \A k \in GPReg \ {0} : registers'[k] =
              IF k = registers[LoadReg] THEN registers[LoadValueReg]
              ELSE registers[k]
         /\ \A k \in HiReg .. PrevPCReg : registers'[k] = registers[k]]_machineVars
=============================================================================
