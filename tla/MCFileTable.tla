---------------------------- MODULE MCFileTable -----------------------------
(***************************************************************************)
(* The system calls on files for TLC.  A behaviour is one of two parts:    *)
(* the shared table of open files, or the copies and conversions of texts  *)
(* of module UserText; the variables of the other keep their initial       *)
(* values.                                                                 *)
(***************************************************************************)
EXTENDS FileTable

VARIABLES part, memory, kernelBuf, text, wrote, printed, calls

Anywhere == -2 .. 3

(* Ints of 16 bits, from both sides of zero, of a power of ten and of the  *)
(* largest and smallest one.                                               *)
Edges == {-32768, -32767, -100, -99, -10, -9, -1, 0, 1, 9, 10, 99, 100, 32767}

UT == INSTANCE UserText WITH
          Char <- 0 .. 2, MemorySize <- 3, IntMax <- 32767, Number <- Edges,
          MaxCalls <- 2

textVars == <<memory, kernelBuf, text, wrote, printed, calls>>
allVars == <<vars, part, textVars>>

PartInit ==
    /\ part \in {"table", "text"}
    /\ Init /\ UT!Init
    /\ part = "table" => memory = [a \in UT!Address |-> 0]
    /\ part = "text" => Careful /\ \A n \in Name \ {"stdout"} : disk[n] = 0

PartNext ==
    \/ part = "table" /\ Next /\ UNCHANGED <<part, textVars>>
    \/ part = "text" /\ UT!Next /\ UNCHANGED <<part, vars>>

PartSpec == PartInit /\ [][PartNext]_allVars

(* Texts go through the kernel unharmed: see UserText.                     *)
TextsAreKept == UT!TextsAreKept
=============================================================================
